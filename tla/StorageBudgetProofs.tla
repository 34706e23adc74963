------------------------ MODULE StorageBudgetProofs ------------------------
(***************************************************************************)
(* Proofs about StorageBudget, for any set of jobs: type correctness, and  *)
(* the three properties that its run checks.                               *)
(*                                                                         *)
(* The argument follows the queue: what a task in it says of its job's     *)
(* lock, what each step of the task at its head may rely on, and that a    *)
(* job whose lock came too late for a collection to see it has its         *)
(* preflight behind that collection.                                       *)
(***************************************************************************)
EXTENDS StorageBudget, SequenceTheorems, TLAPS

\* What a task in the queue says of its job's lock, and that what a failed
\* import keeps is still in the store.
TasksFit ==
    \A i \in 1..Len(queue) :
        LET task == queue[i] IN
        /\ task.kind = "startup" <=> task.job = Nobody
        /\ task.kind = "startup" => boot = "collected"
        /\ task.kind = "preflight" => lock[task.job] = "active"
        /\ task.kind \in Outcomes =>
              \/ lock[task.job] = "finalizing"
              \/ /\ i = 1 /\ lock[task.job] = "released"
                 /\ turn.step \notin {"waiting", "recording"}
        /\ task.kind = "failed" => task.refs \subseteq stored

\* What the operation of a job says of its lock.
OpFits(j) ==
    /\ op[j].step = "acquiring" => lock[j] = "none"
    /\ op[j].step = "reserving" => lock[j] = "active"
    /\ op[j].step = "cleaning" =>
          phase[j] = "cancelled" \/ (phase[j] = "resting" /\ lock[j] = "none")
    /\ op[j].step = "ending" /\ op[j].outcome = "failed" /\ lock[j] = "active"
          => op[j].refs \subseteq stored

\* The task that is under way is at the head of the queue.
TurnFits ==
    /\ turn.step # "waiting" => queue # <<>>
    /\ turn.step = "recording" => Head(queue).kind = "failed"

\* The jobs whose copies the task at the head may still delete; a purge is
\* about all of them.
Watched ==
    {j \in Jobs :
        \/ turn.step = "purging"
        \/ turn.step \in {"sweeping", "expiring"} /\ j \in turn.doomed
        \/ turn.step = "expiring" /\ j = checkpoint.job}

\* Such a job does not capture under a lock: when it got one meanwhile, it
\* waits for its preflight, or the lock is only there for a cleanup.
KeepsOff(j) ==
    j \in Active /\ op[j].step \in {"idle", "storing"} =>
        phase[j] # "running" /\ mode[j] = "cleanup"

\* The job does not end as failed while it is locked.
EndsWell(j) ==
    op[j].step = "ending" /\ lock[j] = "active" => op[j].outcome # "failed"

\* While a purge is under way, no other failed import waits for its turn.
PurgeAlone ==
    turn.step = "purging" =>
        /\ \A i \in 2..Len(queue) : queue[i].kind # "failed"
        /\ \A j \in Jobs : EndsWell(j)

\* Nobody waits for nothing: a job waits for the queue exactly when one task
\* of its own is in it, although tasks throw and jobs are denied and released
\* in between, and only a job that waits has a lock that is being finalized.
WaitersAreQueued ==
    /\ \A j \in Jobs :
          /\ op[j].step = "waiting" <=>
                \E i \in 1..Len(queue) : queue[i].job = j
          /\ lock[j] = "finalizing" => op[j].step = "waiting"
    /\ \A i, k \in 1..Len(queue) : queue[i].job = queue[k].job => i = k

BudgetInv ==
    /\ TasksFit
    /\ \A j \in Jobs : OpFits(j)
    /\ TurnFits
    /\ \A j \in Watched : KeepsOff(j)
    /\ PurgeAlone
    /\ WaitersAreQueued
    /\ CheckpointIsBacked

StorageInv == StorageTypeOK /\ BudgetInv

-----------------------------------------------------------------------------
(* The queue and what its head answers.                                    *)

Checkpoints == [job : Jobs \union {Nobody}, refs : SUBSET Jobs,
                expired : BOOLEAN]

Operations == [step : Ops, outcome : Outcomes, refs : SUBSET Jobs]

\* What the type of the queue gives.
LEMMA QueueFacts ==
    ASSUME queue \in Seq(Tasks)
    PROVE  /\ Len(queue) \in Nat
           /\ \A i \in 1..Len(queue) : queue[i] \in Tasks
           /\ queue # <<>> =>
                 /\ Len(queue) >= 1 /\ 1 \in 1..Len(queue)
                 /\ Head(queue) = queue[1] /\ Head(queue) \in Tasks
<1>1. Len(queue) \in Nat
  BY LenProperties
<1>2. \A i \in 1..Len(queue) : queue[i] \in Tasks
  BY ElementOfSeq
<1>3. ASSUME queue # <<>>
      PROVE  /\ Len(queue) >= 1 /\ 1 \in 1..Len(queue)
             /\ Head(queue) = queue[1] /\ Head(queue) \in Tasks
  <2>1. Len(queue) \in Nat \ {0}
    BY <1>3, EmptySeq
  <2>2. Len(queue) >= 1 /\ 1 \in 1..Len(queue)
    BY <2>1
  <2> QED
    BY <1>2, <2>2
<1> QED
  BY <1>1, <1>2, <1>3

\* A task comes to the end of the queue.
LEMMA EnqueueFacts ==
    ASSUME queue \in Seq(Tasks), NEW kind \in Kinds,
           NEW j \in Jobs \union {Nobody}, NEW refs \in SUBSET Jobs,
           Enqueue(kind, j, refs)
    PROVE  /\ queue' \in Seq(Tasks) /\ queue' # <<>>
           /\ Len(queue') = Len(queue) + 1
           /\ \A i \in 1..Len(queue) : queue'[i] = queue[i]
           /\ queue'[Len(queue) + 1].kind = kind
           /\ queue'[Len(queue) + 1].job = j
           /\ queue'[Len(queue) + 1].refs = refs
           /\ queue # <<>> => Head(queue') = Head(queue)
<1> DEFINE task == [kind |-> kind, job |-> j, refs |-> refs]
<1>1. task \in Tasks
  BY DEF Tasks
<1>2. queue' = Append(queue, task)
  BY DEF Enqueue
<1>3. /\ queue' \in Seq(Tasks) /\ Len(queue') = Len(queue) + 1
      /\ \A i \in 1..Len(queue) : queue'[i] = queue[i]
      /\ queue'[Len(queue) + 1] = task
  BY <1>1, <1>2, AppendProperties
<1>4. queue' # <<>>
  BY <1>3, QueueFacts, EmptySeq
<1>5. ASSUME queue # <<>> PROVE Head(queue') = Head(queue)
  BY <1>3, <1>5, QueueFacts
<1> QED
  BY <1>3, <1>4, <1>5

\* The task at the head leaves the queue.
LEMMA TailFacts ==
    ASSUME queue \in Seq(Tasks), queue # <<>>, queue' = Tail(queue)
    PROVE  /\ queue' \in Seq(Tasks)
           /\ Len(queue') = Len(queue) - 1
           /\ \A i \in 1..Len(queue') : i + 1 \in 1..Len(queue)
                                         /\ queue'[i] = queue[i + 1]
           /\ \A i \in 2..Len(queue) : i - 1 \in 1..Len(queue')
                                         /\ queue'[i - 1] = queue[i]
<1>1. /\ queue' \in Seq(Tasks) /\ Len(queue') = Len(queue) - 1
      /\ \A i \in 1..Len(queue') : queue'[i] = queue[i + 1]
  BY HeadTailProperties
<1> QED
  BY <1>1, QueueFacts

\* What a resolved task leaves of its job, by its kind.
LEMMA AnswerCases ==
    ASSUME queue \in Seq(Tasks), queue # <<>>, NEW ok \in BOOLEAN, Answers(ok)
    PROVE  LET task == Head(queue) IN
           \/ /\ task.kind = "startup"
              /\ UNCHANGED <<phase, lock, mode, op, recorded>>
           \/ /\ task.kind = "preflight"
              /\ Enters(task.job, "running") /\ Rests(task.job)
              /\ UNCHANGED <<lock, mode, recorded>>
           \/ /\ task.kind = "preflight"
              /\ Finalizes(task.job, "cancelled", Retained)
              /\ UNCHANGED <<phase, lock, mode, recorded>>
           \/ /\ task.kind \in Outcomes
              /\ Finalized(task.job, ok) /\ Rests(task.job)
<1>1. Head(queue).kind \in Outcomes \union {"preflight", "startup"}
  BY QueueFacts DEF Tasks, Kinds
<1>2. CASE Head(queue).kind = "startup"
  BY <1>2 DEF Answers, Head1, Outcomes, Finalization
<1>3. CASE Head(queue).kind = "preflight"
  BY <1>3 DEF Answers, Head1, Outcomes, Finalization
<1>4. CASE Head(queue).kind \in Outcomes
  BY <1>4 DEF Answers, Head1, Outcomes, Finalization
<1> QED
  BY <1>1, <1>2, <1>3, <1>4

\* What a finalization leaves: the lock is not being finalized any more.
LEMMA FinalizedFacts ==
    ASSUME StorageTypeOK, NEW j \in Jobs, NEW ok \in BOOLEAN, Finalized(j, ok)
    PROVE  /\ lock' \in [Jobs -> {"none", "active", "finalizing", "released"}]
           /\ mode' \in [Jobs -> {"capture", "cleanup"}]
           /\ phase' \in [Jobs -> Phases]
           /\ recorded' \subseteq recorded
           /\ lock'[j] # "finalizing"
           /\ \A i \in Jobs \ {j} : /\ lock'[i] = lock[i] /\ mode'[i] = mode[i]
                                    /\ phase'[i] = phase[i]
<1>1. PICK state \in Phases : Enters(j, state)
  <2>1. phase[j] \in Phases /\ "gone" \in Phases /\ "failed" \in Phases
    BY DEF StorageTypeOK, Phases
  <2> QED
    BY <2>1 DEF Finalized, Unstored
<1>2. /\ phase' \in [Jobs -> Phases]
      /\ \A i \in Jobs \ {j} : phase'[i] = phase[i]
  BY <1>1 DEF Enters, StorageTypeOK
<1>3. /\ lock' \in [Jobs -> {"none", "active", "finalizing", "released"}]
      /\ lock'[j] # "finalizing"
      /\ \A i \in Jobs \ {j} : lock'[i] = lock[i]
  BY DEF Finalized, StorageTypeOK
<1>4. /\ mode' \in [Jobs -> {"capture", "cleanup"}]
      /\ \A i \in Jobs \ {j} : mode'[i] = mode[i]
  BY DEF Finalized, StorageTypeOK
<1>5. recorded' \subseteq recorded
  BY DEF Finalized
<1> QED
  BY <1>2, <1>3, <1>4, <1>5

-----------------------------------------------------------------------------
(* Type correctness.                                                       *)

\* The type of what a job's own steps change.
JobTypes ==
    /\ phase \in [Jobs -> Phases]
    /\ lock \in [Jobs -> {"none", "active", "finalizing", "released"}]
    /\ mode \in [Jobs -> {"capture", "cleanup"}]
    /\ op \in [Jobs -> Operations]

\* The operators with which the actions change a job's operation.
LEMMA OpTypes ==
    ASSUME StorageTypeOK, NEW j \in Jobs
    PROVE  /\ \A step \in Ops : Goes(j, step) => op' \in [Jobs -> Operations]
           /\ Rests(j) => op' \in [Jobs -> Operations]
           /\ \A outcome \in Outcomes, refs \in SUBSET Jobs :
                 Finalizes(j, outcome, refs) => op' \in [Jobs -> Operations]
<1>1. op \in [Jobs -> Operations]
  BY DEF StorageTypeOK, Operations
<1>2. ASSUME NEW step \in Ops, Goes(j, step)
      PROVE  op' \in [Jobs -> Operations]
  <2>1. [op[j] EXCEPT !.step = step] \in Operations
    BY <1>1 DEF Operations
  <2> QED
    BY <1>1, <1>2, <2>1 DEF Goes
<1>3. Quiet \in Operations
  BY DEF Quiet, Operations, Ops, Outcomes
<1>4. ASSUME NEW outcome \in Outcomes, NEW refs \in SUBSET Jobs
      PROVE  [step |-> "ending", outcome |-> outcome, refs |-> refs]
                \in Operations
  BY DEF Operations, Ops
<1> QED
  BY <1>1, <1>2, <1>3, <1>4 DEF Rests, Finalizes

\* The steps of a client.
LEMMA ClientTypes ==
    ASSUME StorageAssumption, StorageTypeOK, NEW j \in Jobs, Client(j)
    PROVE  StorageTypeOK'
<1> USE DEF StorageTypeOK, Operations, disk, authority
<1>1. Retained \in SUBSET Jobs
  BY DEF Retained
<1>2. {"acquiring", "storing", "cleaning", "ending"} \subseteq Ops
      /\ Outcomes = {"failed", "succeeded", "cancelled"}
  BY DEF Ops, Outcomes
<1>3. CASE Plan(j)
  BY <1>3 DEF Plan, Enters, Phases
<1>4. CASE Start(j) \/ Relaunch(j)
  <2>1. phase' \in [Jobs -> Phases]
    BY <1>4 DEF Start, Relaunch, Enters, Phases
  <2>2. lock' \in [Jobs -> {"none", "active", "finalizing", "released"}]
        /\ mode' \in [Jobs -> {"capture", "cleanup"}]
    BY <1>4 DEF Start, Relaunch, Ensures
  <2>3. op' \in [Jobs -> Operations]
    BY <1>4, <1>2, OpTypes DEF Start, Relaunch, Ensures
  <2>4. UNCHANGED <<staged, stored, recorded, authority>>
    BY <1>4 DEF Start, Relaunch
  <2> QED
    BY <2>1, <2>2, <2>3, <2>4
<1>5. CASE StoreArtifact(j)
  <2>1. op' \in [Jobs -> Operations]
    BY <1>5, <1>2, OpTypes DEF StoreArtifact
  <2> QED
    BY <1>5, <2>1 DEF StoreArtifact, StorageAssumption
<1>6. CASE Rest(j)
  BY <1>6 DEF Rest, Enters, Phases
<1>7. CASE Fail(j) \/ Commit(j)
  <2>1. op' \in [Jobs -> Operations]
    BY <1>7, <1>1, <1>2, OpTypes DEF Fail, Commit
  <2>2. phase' \in [Jobs -> Phases]
    BY <1>7 DEF Fail, Commit, Enters, Phases
  <2> QED
    BY <1>7, <2>1, <2>2 DEF Fail, Commit
<1>8. CASE Discard(j)
  <2>1. op' \in [Jobs -> Operations]
    BY <1>8, <1>2, OpTypes DEF Discard
  <2> QED
    BY <1>8, <2>1 DEF Discard, Enters, Phases
<1> QED
  BY <1>3, <1>4, <1>5, <1>6, <1>7, <1>8 DEF Client

\* The steps of a storage operation, and of the recovery.
LEMMA OperateTypes ==
    ASSUME StorageTypeOK, NEW j \in Jobs, Operate(j) \/ Recover(j)
    PROVE  StorageTypeOK'
<1> USE DEF StorageTypeOK, Operations, disk, authority, opFrame
<1>1. Retained \in SUBSET Jobs
  BY DEF Retained
<1>2. {"acquiring", "reserving", "cleaning", "waiting", "ending"} \subseteq Ops
      /\ Outcomes = {"failed", "succeeded", "cancelled"}
      /\ Kinds = Outcomes \union {"preflight", "startup"}
  BY DEF Ops, Outcomes, Kinds
<1>3. CASE Acquire(j)
  <2>1. op' \in [Jobs -> Operations]
    BY <1>3, <1>2, OpTypes DEF Acquire
  <2> QED
    BY <1>3, <2>1 DEF Acquire
<1>4. CASE AcquireFails(j)
  <2>1. op' \in [Jobs -> Operations]
    BY <1>4, OpTypes DEF AcquireFails
  <2>2. phase' \in [Jobs -> Phases]
    BY <1>4 DEF AcquireFails, Enters, Unstored, Phases
  <2> QED
    BY <1>4, <2>1, <2>2 DEF AcquireFails
<1>5. CASE Reserve(j)
  <2>1. op' \in [Jobs -> Operations]
    BY <1>5, <1>2, OpTypes DEF Reserve
  <2>2. queue' \in Seq(Tasks)
    BY <1>5, <1>2, EnqueueFacts DEF Reserve
  <2> QED
    BY <1>5, <2>1, <2>2 DEF Reserve
<1>6. CASE AcquireCleanup(j)
  <2>1. op' \in [Jobs -> Operations]
    <3>1. Quiet \in Operations
      BY <1>2 DEF Quiet, Ops
    <3>2. [step |-> "ending", outcome |-> "cancelled", refs |-> Retained \ {j}]
             \in Operations
      BY <1>1, <1>2
    <3> QED
      BY <1>6, <3>1, <3>2 DEF AcquireCleanup
  <2> QED
    BY <1>6, <2>1 DEF AcquireCleanup
<1>7. CASE Finalize(j)
  <2>1. CASE lock[j] = "active"
    <3>1. /\ Enqueue(op[j].outcome, j, op[j].refs)
          /\ op' = [op EXCEPT ![j] = [Quiet EXCEPT !.step = "waiting"]]
          /\ lock' = [lock EXCEPT ![j] = "finalizing"]
      BY <1>7, <2>1 DEF Finalize
    <3>2. op[j].outcome \in Kinds /\ op[j].refs \in SUBSET Jobs
      BY <1>2
    <3>3. queue' \in Seq(Tasks)
      BY <3>1, <3>2, EnqueueFacts
    <3>4. [Quiet EXCEPT !.step = "waiting"] \in Operations
      BY <1>2 DEF Quiet
    <3> QED
      BY <1>7, <3>1, <3>3, <3>4 DEF Finalize
  <2>2. CASE lock[j] # "active"
    <3>1. op' \in [Jobs -> Operations]
      BY <1>7, <2>2, OpTypes DEF Finalize
    <3> QED
      BY <1>7, <2>2, <3>1 DEF Finalize
  <2> QED
    BY <2>1, <2>2
<1>8. CASE RecordArtifact(j)
  <2>1. op' \in [Jobs -> Operations]
    BY <1>8, OpTypes DEF RecordArtifact
  <2> QED
    BY <1>8, <2>1 DEF RecordArtifact
<1>9. CASE Recover(j)
  <2>1. op' \in [Jobs -> Operations]
    BY <1>9, <1>2, OpTypes DEF Recover
  <2> QED
    BY <1>9, <2>1 DEF Recover
<1> QED
  BY <1>3, <1>4, <1>5, <1>6, <1>7, <1>8, <1>9 DEF Operate

\* The result of the task at the head.
LEMMA ResolvesTypes ==
    ASSUME StorageTypeOK, TasksFit, queue # <<>>,
           NEW ok \in BOOLEAN, Resolves(ok)
    PROVE  /\ JobTypes'
           /\ recorded' \subseteq recorded
           /\ queue' \in Seq(Tasks)
           /\ turn' \in [step : Turns, doomed : SUBSET Jobs]
<1> DEFINE task == Head(queue)
<1>1. task \in Tasks /\ queue \in Seq(Tasks)
  BY QueueFacts DEF StorageTypeOK
<1>2. queue' \in Seq(Tasks)
  BY TailFacts, <1>1 DEF Resolves
<1>3. turn' \in [step : Turns, doomed : SUBSET Jobs]
  BY DEF Resolves, AtRest, Turns
<1>4. JobTypes /\ Retained \in SUBSET Jobs /\ "cancelled" \in Outcomes
  BY DEF JobTypes, StorageTypeOK, Operations, Retained, Outcomes
<1>5. JobTypes' /\ recorded' \subseteq recorded
  <2>1. CASE UNCHANGED <<phase, lock, mode, op, recorded>>
    BY <1>4, <2>1 DEF JobTypes
  <2>2. CASE /\ task.job \in Jobs
             /\ Enters(task.job, "running") /\ Rests(task.job)
             /\ UNCHANGED <<lock, mode, recorded>>
    <3>1. op' \in [Jobs -> Operations]
      BY <2>2, OpTypes
    <3> QED
      BY <1>4, <2>2, <3>1 DEF JobTypes, Enters, Phases
  <2>3. CASE /\ task.job \in Jobs
             /\ Finalizes(task.job, "cancelled", Retained)
             /\ UNCHANGED <<phase, lock, mode, recorded>>
    <3>1. op' \in [Jobs -> Operations]
      BY <1>4, <2>3, OpTypes
    <3> QED
      BY <1>4, <2>3, <3>1 DEF JobTypes
  <2>4. CASE /\ task.job \in Jobs
             /\ Finalized(task.job, ok) /\ Rests(task.job)
    <3>1. op' \in [Jobs -> Operations]
      BY <2>4, OpTypes
    <3> QED
      BY <2>4, <3>1, FinalizedFacts DEF JobTypes
  <2>5. task.kind # "startup" => task.job \in Jobs
    BY <1>1, QueueFacts DEF TasksFit, Tasks
  <2>6. "startup" \notin Outcomes
    BY DEF Outcomes
  <2> QED
    BY <1>1, <2>1, <2>2, <2>3, <2>4, <2>5, <2>6, AnswerCases DEF Resolves
<1> QED
  BY <1>2, <1>3, <1>5

\* The steps of the task at the head.
LEMMA TurnTypes ==
    ASSUME StorageTypeOK, TasksFit, TurnFits, Turn
    PROVE  StorageTypeOK'
<1> USE DEF StorageTypeOK, turnFrame
<1>1. queue # <<>>
  BY DEF Turn, TaskGoesOn, Retain, WriteCheckpoint, Reclaim, Collect,
         PlanCleanup,
         ExpireCheckpoint, Sweep, EndSweep, Purge, TaskFails, AtTurn, TurnFits
<1>2. Head(queue) \in Tasks
  BY <1>1, QueueFacts
<1>3. \A step \in Turns :
        TurnGoes(step) => turn' \in [step : Turns, doomed : SUBSET Jobs]
  BY DEF TurnGoes
<1>4. {"recording", "planning", "expiring", "sweeping", "purging"}
        \subseteq Turns
  BY DEF Turns
<1>5. Releases =>
        lock' \in [Jobs -> {"none", "active", "finalizing", "released"}]
  BY DEF Releases
<1>6. CASE Retain \/ Reclaim \/ Collect
  BY <1>3, <1>4, <1>5, <1>6 DEF Retain, Reclaim, Collect
<1>7. CASE WriteCheckpoint
  <2>1. /\ Head(queue).job \in Jobs \union {Nobody}
        /\ Head(queue).refs \in SUBSET Jobs
    BY <1>2 DEF Tasks
  <2>2. checkpoint' = [job |-> Head(queue).job, refs |-> Head(queue).refs,
                       expired |-> FALSE]
    BY <1>7 DEF WriteCheckpoint, Head1
  <2>3. checkpoint' \in Checkpoints
    BY <2>1, <2>2 DEF Checkpoints
  <2>4. UNCHANGED <<phase, staged, stored, op, queue, recorded, mode, boot>>
        /\ Releases /\ TurnGoes("planning")
    BY <1>7 DEF WriteCheckpoint
  <2> QED
    BY <1>3, <1>4, <1>5, <2>3, <2>4 DEF Checkpoints
<1>8. CASE PlanCleanup
  <2>1. /\ turn'.step \in {"expiring", "sweeping"}
        /\ turn' = [step |-> turn'.step, doomed |-> staged \ Protected]
    BY <1>8 DEF PlanCleanup
  <2>2. turn' \in [step : Turns, doomed : SUBSET Jobs]
    BY <1>4, <2>1
  <2>3. UNCHANGED <<phase, staged, stored, checkpoint, lock, op, queue,
                    recorded, mode, boot>>
    BY <1>8 DEF PlanCleanup
  <2> QED
    BY <2>2, <2>3
<1>9. CASE ExpireCheckpoint
  <2>1. NoCheckpoint \in Checkpoints
    BY DEF NoCheckpoint, Checkpoints
  <2> QED
    BY <1>3, <1>4, <1>9, <2>1 DEF ExpireCheckpoint, Checkpoints
<1>10. CASE Sweep
  BY <1>10 DEF Sweep
<1>11. ASSUME NEW ok \in BOOLEAN, Resolves(ok),
              stored' \subseteq Jobs, UNCHANGED <<staged, checkpoint, boot>>
       PROVE  StorageTypeOK'
  BY <1>1, <1>11, ResolvesTypes DEF JobTypes, Operations
<1>12. CASE EndSweep
  BY <1>3, <1>4, <1>11, <1>12 DEF EndSweep
<1>13. CASE Purge
  <2>1. Kept \subseteq Jobs
    BY <1>2 DEF Kept, Head1, Tasks
  <2> QED
    BY <1>11, <1>13, <2>1 DEF Purge
<1>14. CASE TaskFails
  BY <1>11, <1>14 DEF TaskFails
<1> QED
  BY <1>6, <1>7, <1>8, <1>9, <1>10, <1>12, <1>13, <1>14 DEF Turn, TaskGoesOn

\* Time, a crash, and the start of a sidecar.
LEMMA LifeTypes ==
    ASSUME StorageTypeOK, TtlPasses \/ Crash \/ Serve \/ CollectAtStartup
    PROVE  StorageTypeOK'
<1> USE DEF StorageTypeOK, disk
<1>1. CASE TtlPasses
  BY <1>1 DEF TtlPasses
<1>2. CASE Crash
  <2>1. Quiet \in Operations
    BY DEF Quiet, Operations, Ops, Outcomes
  <2>2. op' \in [Jobs -> Operations]
    BY <1>2, <2>1 DEF Crash
  <2>3. phase' \in [Jobs -> Phases]
    BY <1>2 DEF Crash, Phases
  <2>4. queue' \in Seq(Tasks)
    BY <1>2, EmptySeq DEF Crash
  <2>5. turn' \in [step : Turns, doomed : SUBSET Jobs]
    BY <1>2 DEF Crash, AtRest, Turns
  <2>6. /\ lock' \in [Jobs -> {"none", "active", "finalizing", "released"}]
        /\ mode' \in [Jobs -> {"capture", "cleanup"}]
        /\ boot' \in {"recovering", "serving", "collected"}
        /\ UNCHANGED <<staged, stored, recorded, checkpoint>>
    BY <1>2 DEF Crash
  <2> QED
    BY <2>2, <2>3, <2>4, <2>5, <2>6 DEF Operations
<1>3. CASE Serve
  BY <1>3 DEF Serve
<1>4. CASE CollectAtStartup
  <2>1. Enqueue("startup", Nobody, {}) /\ "startup" \in Kinds
        /\ Nobody \in Jobs \union {Nobody} /\ {} \in SUBSET Jobs
    BY <1>4 DEF CollectAtStartup, Kinds
  <2>2. queue' \in Seq(Tasks)
    BY <2>1, EnqueueFacts
  <2> QED
    BY <1>4, <2>2 DEF CollectAtStartup
<1> QED
  BY <1>1, <1>2, <1>3, <1>4

-----------------------------------------------------------------------------
(* The steps of one job that leave the queue alone.                        *)

\* Only this job changes, and it neither waits nor comes to wait.
Alone(j) ==
    /\ UNCHANGED <<checkpoint, queue, turn, boot>>
    /\ stored \subseteq stored'
    /\ op[j].step # "waiting" /\ op'[j].step # "waiting"
    /\ lock'[j] # "finalizing"
    /\ \A i \in Jobs \ {j} : /\ op'[i] = op[i] /\ lock'[i] = lock[i]
                             /\ phase'[i] = phase[i] /\ mode'[i] = mode[i]

\* ... and what the invariant says of this job still holds.
StepFits(j) ==
    /\ Alone(j)
    /\ OpFits(j)'
    /\ j \in Watched => KeepsOff(j)'
    /\ turn.step = "purging" => EndsWell(j)'

\* Then the invariant holds of all.
LEMMA JobStep ==
    ASSUME StorageTypeOK, BudgetInv, NEW j \in Jobs, StepFits(j)
    PROVE  BudgetInv'
<1> USE DEF Alone, StepFits
<1>1. \A i \in 1..Len(queue) : queue[i].job # j
  BY DEF BudgetInv, WaitersAreQueued
<1>2. \A i \in 1..Len(queue) : queue[i].job \in Jobs \union {Nobody}
                               /\ queue[i].kind \in Kinds
  BY QueueFacts DEF StorageTypeOK, Tasks
<1>3. TasksFit'
  <2>1. TasksFit
    BY DEF BudgetInv
  <2>2. \A i \in 1..Len(queue) : queue[i].kind # "startup" =>
           lock'[queue[i].job] = lock[queue[i].job]
    BY <1>1, <1>2, <2>1 DEF TasksFit
  <2>3. \A kind \in Outcomes : kind # "startup"
    BY DEF Outcomes
  <2> QED
    BY <2>1, <2>2, <2>3 DEF TasksFit
<1>4. (\A i \in Jobs : OpFits(i))'
  BY DEF BudgetInv, OpFits
<1>5. TurnFits'
  BY DEF BudgetInv, TurnFits
<1>6. (\A i \in Watched : KeepsOff(i))'
  <2>1. Watched' = Watched
    BY DEF Watched
  <2>2. \A i \in Watched \ {j} : KeepsOff(i)'
    BY DEF BudgetInv, KeepsOff, Active, Watched
  <2> QED
    BY <2>1, <2>2
<1>7. PurgeAlone'
  BY DEF BudgetInv, PurgeAlone, EndsWell
<1>8. WaitersAreQueued'
  BY <1>1 DEF BudgetInv, WaitersAreQueued
<1>9. CheckpointIsBacked'
  BY DEF BudgetInv, CheckpointIsBacked
<1> QED
  BY <1>3, <1>4, <1>5, <1>6, <1>7, <1>8, <1>9 DEF BudgetInv

\* The steps of a client.
LEMMA ClientControl ==
    ASSUME StorageTypeOK, BudgetInv, NEW j \in Jobs, Client(j)
    PROVE  BudgetInv'
<1> SUFFICES StepFits(j)
  BY JobStep
<1> USE DEF StepFits, Alone, OpFits, KeepsOff, EndsWell, Active, disk,
            authority, Free, Quiet
<1>1. /\ op \in [Jobs -> Operations] /\ phase \in [Jobs -> Phases]
      /\ lock \in [Jobs -> {"none", "active", "finalizing", "released"}]
      /\ mode \in [Jobs -> {"capture", "cleanup"}]
  BY DEF StorageTypeOK, Operations
<1>2. /\ OpFits(j) /\ (j \in Watched => KeepsOff(j))
      /\ turn.step = "purging" => EndsWell(j)
      /\ lock[j] = "finalizing" => op[j].step = "waiting"
      /\ turn.step = "purging" => j \in Watched
  BY DEF BudgetInv, WaitersAreQueued, PurgeAlone, Watched
<1>3. CASE Plan(j)
  BY <1>1, <1>2, <1>3 DEF Plan, Enters
<1>4. CASE Start(j) \/ Relaunch(j)
  BY <1>1, <1>2, <1>4 DEF Start, Relaunch, Ensures, Goes, Enters, Operations
<1>5. CASE StoreArtifact(j)
  BY <1>1, <1>2, <1>5 DEF StoreArtifact, Capturing, Goes, Operations
<1>6. CASE Rest(j)
  BY <1>1, <1>2, <1>6 DEF Rest, Capturing, Enters
<1>7. CASE Fail(j)
  BY <1>1, <1>2, <1>7 DEF Fail, Capturing, Finalizes, Rests, Retained, Enters
<1>8. CASE Commit(j)
  BY <1>1, <1>2, <1>8 DEF Commit, Finalizes, Rests, Enters
<1>9. CASE Discard(j)
  BY <1>1, <1>2, <1>9 DEF Discard, Goes, Operations, Enters
<1> QED
  BY <1>3, <1>4, <1>5, <1>6, <1>7, <1>8, <1>9 DEF Client

\* The steps of a storage operation but those that enter the queue, and of
\* the recovery.
LEMMA OperateControl ==
    ASSUME StorageTypeOK, BudgetInv, NEW j \in Jobs,
           \/ Acquire(j) \/ AcquireFails(j) \/ AcquireCleanup(j)
           \/ RecordArtifact(j) \/ Recover(j)
    PROVE  BudgetInv'
<1> SUFFICES StepFits(j)
  BY JobStep
<1> USE DEF StepFits, Alone, OpFits, KeepsOff, EndsWell, Active, opFrame,
            disk, authority, Quiet
<1>1. /\ op \in [Jobs -> Operations] /\ phase \in [Jobs -> Phases]
      /\ lock \in [Jobs -> {"none", "active", "finalizing", "released"}]
      /\ mode \in [Jobs -> {"capture", "cleanup"}]
  BY DEF StorageTypeOK, Operations
<1>2. /\ OpFits(j) /\ (j \in Watched => KeepsOff(j))
      /\ turn.step = "purging" => EndsWell(j)
      /\ lock[j] = "finalizing" => op[j].step = "waiting"
      /\ turn.step = "purging" => j \in Watched
  BY DEF BudgetInv, WaitersAreQueued, PurgeAlone, Watched
<1>3. CASE Acquire(j)
  BY <1>1, <1>2, <1>3 DEF Acquire, Goes, Operations
<1>4. CASE AcquireFails(j)
  BY <1>1, <1>2, <1>4 DEF AcquireFails, Unstored, Rests, Enters
<1>5. CASE AcquireCleanup(j)
  BY <1>1, <1>2, <1>5 DEF AcquireCleanup, Operations
<1>6. CASE RecordArtifact(j)
  BY <1>1, <1>2, <1>6 DEF RecordArtifact, Rests
<1>7. CASE Recover(j)
  BY <1>1, <1>2, <1>7 DEF Recover, Recovering, Unlocked, Goes, Operations
<1> QED
  BY <1>3, <1>4, <1>5, <1>6, <1>7

-----------------------------------------------------------------------------
(* The steps that enter the queue.                                         *)

\* A step with which a task of a job, or the startup's, enters the queue.
LEMMA EnterStep ==
    ASSUME StorageTypeOK, BudgetInv, NEW j \in Jobs \union {Nobody},
           NEW kind \in Kinds, NEW refs \in SUBSET Jobs,
           Enqueue(kind, j, refs),
           UNCHANGED <<checkpoint, turn, stored>>,
           boot = "collected" => boot' = "collected",
           \A i \in 1..Len(queue) : queue[i].job # j,
           \A i \in Jobs \ {j} : /\ op'[i] = op[i] /\ lock'[i] = lock[i]
                                 /\ phase'[i] = phase[i] /\ mode'[i] = mode[i],
           j \in Jobs => op'[j].step = "waiting",
           kind = "startup" <=> j = Nobody,
           kind = "startup" => boot' = "collected",
           kind = "preflight" => lock'[j] = "active",
           kind \in Outcomes => lock'[j] = "finalizing",
           kind = "failed" => refs \subseteq stored /\ turn.step # "purging"
    PROVE  BudgetInv'
<1> DEFINE last == Len(queue) + 1
<1>1. /\ queue' # <<>> /\ Len(queue) \in Nat /\ Len(queue') = last
      /\ \A i \in 1..Len(queue) : queue'[i] = queue[i]
      /\ queue'[last].kind = kind /\ queue'[last].job = j
      /\ queue'[last].refs = refs
      /\ queue # <<>> => Head(queue') = Head(queue)
  BY EnqueueFacts, QueueFacts DEF StorageTypeOK
<1>2. \A i \in 1..Len(queue) : queue[i].job \in Jobs \union {Nobody}
                               /\ queue[i].kind \in Kinds
  BY QueueFacts DEF StorageTypeOK, Tasks
<1>3. \A i \in 1..Len(queue') : i = last \/ i \in 1..Len(queue)
  BY <1>1
<1>4. \A k \in Outcomes : k \notin {"startup", "preflight"}
  BY DEF Outcomes
<1>5. TasksFit'
  <2>1. TasksFit
    BY DEF BudgetInv
  <2>2. \A i \in 1..Len(queue) : queue[i].kind # "startup" =>
           lock'[queue[i].job] = lock[queue[i].job]
    BY <1>2, <2>1 DEF TasksFit
  <2>3. ASSUME NEW i \in 1..Len(queue)
        PROVE  LET task == queue'[i] IN
               /\ task.kind = "startup" <=> task.job = Nobody
               /\ task.kind = "startup" => boot' = "collected"
               /\ task.kind = "preflight" => lock'[task.job] = "active"
               /\ task.kind \in Outcomes =>
                     \/ lock'[task.job] = "finalizing"
                     \/ /\ i = 1 /\ lock'[task.job] = "released"
                        /\ turn'.step \notin {"waiting", "recording"}
               /\ task.kind = "failed" => task.refs \subseteq stored'
    BY <1>1, <1>4, <2>1, <2>2 DEF TasksFit
  <2> QED
    BY <1>1, <1>3, <1>4, <2>3 DEF TasksFit
<1>6. (\A i \in Jobs : OpFits(i))'
  BY DEF BudgetInv, OpFits
<1>7. TurnFits'
  BY <1>1 DEF BudgetInv, TurnFits
<1>8. (\A i \in Watched : KeepsOff(i))'
  BY DEF BudgetInv, KeepsOff, Active, Watched
<1>9. PurgeAlone'
  <2>1. \A i \in 2..Len(queue') : i = last \/ i \in 2..Len(queue)
    BY <1>1
  <2> QED
    BY <1>1, <2>1 DEF BudgetInv, PurgeAlone, EndsWell
<1>10. WaitersAreQueued'
  <2>1. WaitersAreQueued
    BY DEF BudgetInv
  <2>2. last \in 1..Len(queue')
    BY <1>1
  <2>3. ASSUME NEW i \in Jobs
        PROVE  /\ op'[i].step = "waiting" <=>
                     \E k \in 1..Len(queue') : queue'[k].job = i
               /\ lock'[i] = "finalizing" => op'[i].step = "waiting"
    BY <1>1, <1>3, <2>1, <2>2 DEF WaitersAreQueued
  <2>4. \A i, k \in 1..Len(queue') : queue'[i].job = queue'[k].job => i = k
    BY <1>1, <1>3, <2>1 DEF WaitersAreQueued
  <2> QED
    BY <2>3, <2>4 DEF WaitersAreQueued
<1>11. CheckpointIsBacked'
  BY DEF BudgetInv, CheckpointIsBacked
<1> QED
  BY <1>5, <1>6, <1>7, <1>8, <1>9, <1>10, <1>11 DEF BudgetInv

\* A preflight, or a finalization of a job, enters the queue.
LEMMA EnterControl ==
    ASSUME StorageTypeOK, BudgetInv, NEW j \in Jobs, Reserve(j) \/ Finalize(j)
    PROVE  BudgetInv'
<1> USE DEF opFrame, disk, Quiet
<1>1. /\ op \in [Jobs -> Operations]
      /\ lock \in [Jobs -> {"none", "active", "finalizing", "released"}]
  BY DEF StorageTypeOK, Operations
<1>2. /\ OpFits(j) /\ (j \in Watched => KeepsOff(j))
      /\ turn.step = "purging" => EndsWell(j)
      /\ lock[j] = "finalizing" => op[j].step = "waiting"
  BY DEF BudgetInv, WaitersAreQueued, PurgeAlone
<1>3. op[j].step # "waiting" => \A i \in 1..Len(queue) : queue[i].job # j
  BY DEF BudgetInv, WaitersAreQueued
<1>4. Kinds = {"failed", "succeeded", "cancelled", "preflight", "startup"}
      /\ Outcomes = {"failed", "succeeded", "cancelled"}
  BY DEF Kinds, Outcomes
<1>5. j # Nobody
  BY StorageAssumption
<1>6. CASE Reserve(j)
  <2>1. /\ Enqueue("preflight", j, {})
        /\ op[j].step = "reserving" /\ op'[j].step = "waiting"
        /\ \A i \in Jobs \ {j} : op'[i] = op[i]
        /\ UNCHANGED <<phase, lock, mode, checkpoint, turn, stored, boot>>
    BY <1>1, <1>6 DEF Reserve, Goes, Operations
  <2>2. lock'[j] = "active"
    BY <1>2, <2>1 DEF OpFits
  <2>3. "preflight" \in Kinds /\ {} \in SUBSET Jobs
    BY <1>4
  <2> QED
    BY <1>3, <1>4, <1>5, <2>1, <2>2, <2>3, EnterStep
<1>7. CASE Finalize(j) /\ lock[j] = "active"
  <2> DEFINE outcome == op[j].outcome
             refs == op[j].refs
  <2>1. /\ Enqueue(outcome, j, refs)
        /\ op[j].step = "ending" /\ op'[j].step = "waiting"
        /\ lock'[j] = "finalizing"
        /\ \A i \in Jobs \ {j} : op'[i] = op[i] /\ lock'[i] = lock[i]
        /\ UNCHANGED <<phase, mode, checkpoint, turn, stored, boot>>
    BY <1>1, <1>7 DEF Finalize, Operations
  <2>2. outcome \in Outcomes /\ refs \in SUBSET Jobs
    BY <1>1 DEF Operations
  <2>3. outcome = "failed" => refs \subseteq stored /\ turn.step # "purging"
    BY <1>2, <1>7, <2>1 DEF OpFits, EndsWell
  <2>4. outcome \in Kinds /\ outcome \notin {"startup", "preflight"}
    BY <1>4, <2>2
  <2> HIDE DEF outcome, refs
  <2> QED
    BY <1>3, <1>5, <2>1, <2>2, <2>3, <2>4, EnterStep
<1>8. CASE Finalize(j) /\ lock[j] # "active"
  <2>1. StepFits(j)
    BY <1>1, <1>2, <1>8 DEF Finalize, Rests, StepFits, Alone, OpFits, KeepsOff,
       EndsWell, Active
  <2> QED
    BY <2>1, JobStep
<1> QED
  BY <1>6, <1>7, <1>8

\* Time, a crash, and the start of a sidecar.
LEMMA LifeControl ==
    ASSUME StorageTypeOK, BudgetInv,
           TtlPasses \/ Crash \/ Serve \/ CollectAtStartup
    PROVE  BudgetInv'
<1> USE DEF disk
<1>1. CASE TtlPasses \/ Serve
  <2>1. /\ UNCHANGED <<phase, stored, lock, mode, op, queue, turn>>
        /\ checkpoint'.job = checkpoint.job
        /\ checkpoint'.refs = checkpoint.refs
    BY <1>1 DEF TtlPasses, Serve, StorageTypeOK
  <2>2. boot = "collected" => boot' = "collected"
    BY <1>1 DEF TtlPasses, Serve
  <2>3. TasksFit' /\ TurnFits' /\ WaitersAreQueued' /\ CheckpointIsBacked'
    BY <2>1, <2>2 DEF BudgetInv, TasksFit, TurnFits, WaitersAreQueued,
       CheckpointIsBacked
  <2>4. (\A j \in Jobs : OpFits(j))' /\ PurgeAlone'
    BY <2>1 DEF BudgetInv, OpFits, PurgeAlone, EndsWell
  <2>5. (\A j \in Watched : KeepsOff(j))'
    BY <2>1 DEF BudgetInv, KeepsOff, Watched, Active
  <2> QED
    BY <2>3, <2>4, <2>5 DEF BudgetInv
<1>2. CASE Crash
  <2>1. /\ queue' = <<>> /\ Len(queue') = 0 /\ turn'.step = "waiting"
        /\ \A j \in Jobs : lock'[j] = "none" /\ op'[j].step = "idle"
        /\ UNCHANGED <<stored, checkpoint>>
    BY <1>2 DEF Crash, AtRest, Quiet
  <2>2. \A i \in 1..Len(queue') : FALSE
    BY <2>1
  <2>3. TasksFit' /\ TurnFits' /\ WaitersAreQueued'
    BY <2>1, <2>2 DEF TasksFit, TurnFits, WaitersAreQueued
  <2>4. (\A j \in Jobs : OpFits(j))'
    BY <2>1 DEF OpFits
  <2>5. (\A j \in Watched : KeepsOff(j))'
    BY <2>1 DEF KeepsOff, Watched, Active
  <2>6. PurgeAlone' /\ CheckpointIsBacked'
    BY <2>1 DEF BudgetInv, PurgeAlone, CheckpointIsBacked
  <2> QED
    BY <2>3, <2>4, <2>5, <2>6 DEF BudgetInv
<1>3. CASE CollectAtStartup
  <2>1. /\ Enqueue("startup", Nobody, {})
        /\ boot = "serving" /\ boot' = "collected"
        /\ UNCHANGED <<phase, stored, checkpoint, lock, mode, op, turn>>
    BY <1>3 DEF CollectAtStartup
  <2>2. \A i \in 1..Len(queue) : queue[i].job # Nobody
    BY <2>1 DEF BudgetInv, TasksFit
  <2>3. /\ "startup" \in Kinds /\ Nobody \in Jobs \union {Nobody}
        /\ Nobody \notin Jobs /\ {} \in SUBSET Jobs
        /\ "startup" \notin Outcomes
    BY StorageAssumption DEF Kinds, Outcomes
  <2> QED
    BY <2>1, <2>2, <2>3, EnterStep
<1> QED
  BY <1>1, <1>2, <1>3

-----------------------------------------------------------------------------
(* The steps of the task at the head.                                      *)

\* What is said of the task at the head.
LEMMA HeadFacts ==
    ASSUME StorageTypeOK, BudgetInv, queue # <<>>
    PROVE  /\ Head1 = queue[1] /\ 1 \in 1..Len(queue)
           /\ Head1.kind \in Kinds /\ Head1.refs \in SUBSET Jobs
           /\ Head1.job \in Jobs \union {Nobody}
           /\ Head1.kind = "startup" <=> Head1.job = Nobody
           /\ Head1.kind = "preflight" => lock[Head1.job] = "active"
           /\ Head1.kind = "failed" => Head1.refs \subseteq stored
           /\ Head1.job \in Jobs => op[Head1.job].step = "waiting"
<1>1. /\ Head1 = queue[1] /\ 1 \in 1..Len(queue) /\ Head1 \in Tasks
  BY QueueFacts DEF StorageTypeOK, Head1
<1>2. /\ Head1.kind = "startup" <=> Head1.job = Nobody
      /\ Head1.kind = "preflight" => lock[Head1.job] = "active"
      /\ Head1.kind = "failed" => Head1.refs \subseteq stored
  BY <1>1 DEF BudgetInv, TasksFit
<1>3. Head1.job \in Jobs => op[Head1.job].step = "waiting"
  BY <1>1 DEF BudgetInv, WaitersAreQueued
<1> QED
  BY <1>1, <1>2, <1>3 DEF Tasks

\* A step after which the task is still at the head: it may have released the
\* lock of its job, and what it still may delete is of jobs that are not
\* active, or was among that before.
LEMMA TurnStep ==
    ASSUME StorageTypeOK, BudgetInv, queue # <<>>,
           UNCHANGED <<phase, stored, mode, op, queue, boot>>,
           turn'.step # "waiting",
           turn'.step = "recording" =>
              Head1.kind = "failed" /\ turn.step = "waiting" /\ lock' = lock,
           \/ lock' = lock
           \/ Head1.kind \in Outcomes /\ Releases /\ turn'.step = "planning",
           turn'.step = "purging" => Active' = {},
           \A j \in Watched' : j \notin Active'
                               \/ (j \in Watched /\ lock' = lock),
           checkpoint'.refs \subseteq stored
    PROVE  BudgetInv'
<1>1. /\ Head1 = queue[1] /\ 1 \in 1..Len(queue)
      /\ Head1.kind = "startup" <=> Head1.job = Nobody
      /\ Head1.job \in Jobs \union {Nobody}
      /\ Head1.job \in Jobs => op[Head1.job].step = "waiting"
  BY HeadFacts
<1>2. /\ lock \in [Jobs -> {"none", "active", "finalizing", "released"}]
      /\ Len(queue) \in Nat
      /\ \A i \in 1..Len(queue) : queue[i].job \in Jobs \union {Nobody}
                                  /\ queue[i].kind \in Kinds
  BY QueueFacts DEF StorageTypeOK, Tasks
<1>3. \A kind \in Outcomes : kind \notin {"startup", "preflight"}
  BY DEF Outcomes
<1>4. \A i, k \in 1..Len(queue) : queue[i].job = queue[k].job => i = k
  BY DEF BudgetInv, WaitersAreQueued
<1>5. \A j \in Jobs : j # Head1.job => lock'[j] = lock[j]
  BY <1>2 DEF Releases
<1>6. Head1.kind \in Outcomes /\ lock' # lock => lock'[Head1.job] = "released"
  BY <1>1, <1>2, <1>3 DEF Releases
<1>7. TasksFit'
  <2>1. TasksFit
    BY DEF BudgetInv
  <2>2. ASSUME NEW i \in 1..Len(queue), queue[i].kind \in Outcomes
        PROVE  \/ lock'[queue[i].job] = "finalizing"
               \/ /\ i = 1 /\ lock'[queue[i].job] = "released"
                  /\ turn'.step \notin {"waiting", "recording"}
    <3>1. CASE i = 1 /\ lock' # lock
      BY <1>1, <1>6, <2>2, <3>1
    <3>2. CASE i = 1 /\ lock' = lock
      BY <1>1, <2>1, <2>2, <3>2 DEF TasksFit
    <3>3. CASE i # 1
      <4>1. queue[i].job \in Jobs /\ queue[i].job # Head1.job
        BY <1>1, <1>2, <1>3, <1>4, <2>1, <2>2, <3>3 DEF TasksFit
      <4> QED
        BY <1>5, <2>1, <2>2, <3>3, <4>1 DEF TasksFit
    <3> QED
      BY <3>1, <3>2, <3>3
  <2>3. ASSUME NEW i \in 1..Len(queue), queue[i].kind = "preflight"
        PROVE  lock'[queue[i].job] = "active"
    <3>1. queue[i].job \in Jobs /\ lock[queue[i].job] = "active"
      BY <1>2, <2>1, <2>3 DEF TasksFit
    <3>2. lock' = lock \/ queue[i].job # Head1.job
      BY <1>1, <1>3, <1>4, <2>3
    <3> QED
      BY <1>5, <3>1, <3>2
  <2> QED
    BY <2>1, <2>2, <2>3 DEF TasksFit
<1>8. (\A j \in Jobs : OpFits(j))'
  <2>1. ASSUME NEW j \in Jobs PROVE OpFits(j)'
    <3>1. OpFits(j)
      BY DEF BudgetInv
    <3>2. CASE j = Head1.job
      BY <1>1, <3>2 DEF OpFits
    <3>3. CASE j # Head1.job
      BY <1>5, <3>1, <3>3 DEF OpFits
    <3> QED
      BY <3>2, <3>3
  <2> QED
    BY <2>1
<1>9. TurnFits'
  BY DEF TurnFits, Head1
<1>10. (\A j \in Watched : KeepsOff(j))'
  <2>1. \A j \in Watched' : KeepsOff(j)'
    BY DEF BudgetInv, KeepsOff, Active
  <2> QED
    BY <2>1
<1>11. PurgeAlone'
  <2> SUFFICES ASSUME turn'.step = "purging"
               PROVE  /\ \A i \in 2..Len(queue) : queue[i].kind # "failed"
                      /\ \A j \in Jobs : EndsWell(j)'
    BY DEF PurgeAlone
  <2>1. \A j \in Jobs : lock'[j] \notin {"active", "finalizing"}
    BY DEF Active
  <2>2. ASSUME NEW i \in 2..Len(queue), queue[i].kind = "failed"
        PROVE  FALSE
    <3>1. i \in 1..Len(queue) /\ i # 1
      BY <1>2
    <3>2. "failed" \in Outcomes
      BY DEF Outcomes
    <3>3. lock'[queue[i].job] = "finalizing"
      BY <1>7, <2>2, <3>1, <3>2 DEF TasksFit
    <3>4. queue[i].job \in Jobs
      BY <1>2, <1>3, <2>2, <3>1, <3>2 DEF BudgetInv, TasksFit
    <3> QED
      BY <2>1, <3>3, <3>4
  <2> QED
    BY <2>1, <2>2 DEF EndsWell
<1>12. WaitersAreQueued'
  <2>1. \A j \in Jobs : lock'[j] = "finalizing" => op'[j].step = "waiting"
    BY <1>1, <1>5 DEF BudgetInv, WaitersAreQueued
  <2> QED
    BY <2>1 DEF BudgetInv, WaitersAreQueued
<1>13. CheckpointIsBacked'
  BY DEF CheckpointIsBacked
<1> QED
  BY <1>7, <1>8, <1>9, <1>10, <1>11, <1>12, <1>13 DEF BudgetInv

\* The task leaves the queue with its result; what the others and the
\* checkpoint need is still in the store.
LEMMA ResolveStep ==
    ASSUME StorageTypeOK, BudgetInv, queue # <<>>,
           NEW ok \in BOOLEAN, Resolves(ok), UNCHANGED <<checkpoint, boot>>,
           \/ stored' = stored
           \/ turn.step = "purging" /\ checkpoint.refs \subseteq stored'
    PROVE  BudgetInv'
<1> DEFINE j == Head(queue).job
<1>1. /\ Head(queue) = queue[1] /\ 1 \in 1..Len(queue)
      /\ Head(queue).kind \in Kinds /\ j \in Jobs \union {Nobody}
      /\ Head(queue).kind = "startup" <=> j = Nobody
      /\ Head(queue).kind = "preflight" => lock[j] = "active"
      /\ j \in Jobs => op[j].step = "waiting"
      /\ Nobody \notin Jobs
  BY HeadFacts, StorageAssumption DEF Head1
<1>2. /\ lock \in [Jobs -> {"none", "active", "finalizing", "released"}]
      /\ op \in [Jobs -> Operations] /\ Len(queue) \in Nat
      /\ phase \in [Jobs -> Phases]
      /\ \A i \in 1..Len(queue) : queue[i].job \in Jobs \union {Nobody}
                                  /\ queue[i].kind \in Kinds
  BY QueueFacts DEF StorageTypeOK, Tasks, Operations
<1>3. /\ Outcomes = {"failed", "succeeded", "cancelled"}
      /\ Kinds = Outcomes \union {"preflight", "startup"}
  BY DEF Outcomes, Kinds
<1>4. /\ queue' = Tail(queue) /\ turn' = AtRest
      /\ Len(queue') = Len(queue) - 1
      /\ \A i \in 1..Len(queue') : /\ i + 1 \in 2..Len(queue)
                                   /\ i + 1 \in 1..Len(queue)
                                   /\ queue'[i] = queue[i + 1]
      /\ \A i \in 2..Len(queue) : i - 1 \in 1..Len(queue')
                                  /\ queue'[i - 1] = queue[i]
  BY <1>2, TailFacts DEF Resolves, StorageTypeOK
<1>5. /\ \A i \in Jobs \ {j} : op'[i] = op[i] /\ lock'[i] = lock[i]
      /\ j \in Jobs => /\ lock'[j] # "finalizing"
                       /\ \/ op'[j] = Quiet
                          \/ op'[j].step = "ending"
                             /\ op'[j].outcome = "cancelled"
  <2>1. queue \in Seq(Tasks) /\ Answers(ok)
    BY DEF StorageTypeOK, Resolves
  <2>2. CASE UNCHANGED <<phase, lock, mode, op, recorded>> /\ j = Nobody
    BY <1>1, <2>2
  <2>3. CASE /\ Head(queue).kind = "preflight"
             /\ Enters(j, "running") /\ Rests(j)
             /\ UNCHANGED <<lock, mode, recorded>>
    BY <1>1, <1>2, <2>3 DEF Rests
  <2>4. CASE /\ Head(queue).kind = "preflight"
             /\ Finalizes(j, "cancelled", Retained)
             /\ UNCHANGED <<phase, lock, mode, recorded>>
    BY <1>1, <1>2, <2>4 DEF Finalizes, Rests
  <2>5. CASE Head(queue).kind \in Outcomes /\ Finalized(j, ok) /\ Rests(j)
    <3>1. j \in Jobs
      BY <1>1, <1>3, <2>5
    <3> QED
      BY <1>2, <2>5, <3>1, FinalizedFacts DEF Rests
  <2> QED
    BY <1>1, <2>1, <2>2, <2>3, <2>4, <2>5, AnswerCases
<1>6. \A i \in 2..Len(queue) : i \in 1..Len(queue) /\ queue[i].job # j
  BY <1>1, <1>2 DEF BudgetInv, WaitersAreQueued
<1>7. TasksFit'
  <2>1. ASSUME NEW i \in 2..Len(queue)
        PROVE  LET task == queue[i] IN
               /\ task.kind = "startup" <=> task.job = Nobody
               /\ task.kind = "startup" => boot = "collected"
               /\ task.kind = "preflight" => lock[task.job] = "active"
               /\ task.kind \in Outcomes => lock[task.job] = "finalizing"
               /\ task.kind = "failed" => task.refs \subseteq stored'
    <3>1. i \in 1..Len(queue) /\ i # 1
      BY <1>2
    <3> QED
      BY <3>1 DEF BudgetInv, TasksFit, PurgeAlone
  <2>2. \A i \in 2..Len(queue) : queue[i].kind # "startup" =>
           lock'[queue[i].job] = lock[queue[i].job]
    BY <1>2, <1>5, <1>6, <2>1
  <2>3. \A kind \in Outcomes : kind \notin {"startup", "preflight"}
    BY <1>3
  <2> QED
    BY <1>4, <2>1, <2>2, <2>3 DEF TasksFit
<1>8. (\A i \in Jobs : OpFits(i))'
  <2>1. ASSUME NEW i \in Jobs PROVE OpFits(i)'
    <3>1. CASE i = j
      BY <1>5, <3>1 DEF OpFits, Quiet
    <3>2. CASE i # j
      <4>1. op'[i] = op[i] /\ lock'[i] = lock[i] /\ OpFits(i)
        BY <1>5, <3>2 DEF BudgetInv
      <4>2. phase'[i] = phase[i]
        <5>1. queue \in Seq(Tasks) /\ Answers(ok)
          BY DEF StorageTypeOK, Resolves
        <5>2. j \in Jobs /\ Finalized(j, ok) => phase'[i] = phase[i]
          BY <3>2, FinalizedFacts
        <5> QED
          BY <1>1, <1>2, <1>3, <3>2, <5>1, <5>2, AnswerCases DEF Enters
      <4>3. turn.step = "purging" => EndsWell(i)
        BY DEF BudgetInv, PurgeAlone
      <4> QED
        BY <4>1, <4>2, <4>3 DEF OpFits, EndsWell
    <3> QED
      BY <3>1, <3>2
  <2> QED
    BY <2>1
<1>9. TurnFits' /\ PurgeAlone' /\ (\A i \in Watched : KeepsOff(i))'
  BY <1>4 DEF TurnFits, PurgeAlone, Watched, AtRest
<1>10. WaitersAreQueued'
  <2>1. WaitersAreQueued
    BY DEF BudgetInv
  <2>2. ASSUME NEW i \in Jobs
        PROVE  /\ op'[i].step = "waiting" <=>
                     \E k \in 1..Len(queue') : queue'[k].job = i
               /\ lock'[i] = "finalizing" => op'[i].step = "waiting"
    <3>1. CASE i = j
      BY <1>4, <1>5, <1>6, <3>1 DEF Quiet
    <3>2. CASE i # j
      <4>1. (\E k \in 1..Len(queue) : queue[k].job = i) <=>
               \E k \in 2..Len(queue) : queue[k].job = i
        BY <1>1, <1>2, <3>2
      <4>2. (\E k \in 2..Len(queue) : queue[k].job = i) <=>
               \E k \in 1..Len(queue') : queue'[k].job = i
        BY <1>4
      <4> QED
        BY <1>5, <2>1, <3>2, <4>1, <4>2 DEF WaitersAreQueued
    <3> QED
      BY <3>1, <3>2
  <2>3. ASSUME NEW i \in 1..Len(queue'), NEW k \in 1..Len(queue'),
               queue'[i].job = queue'[k].job
        PROVE  i = k
    <3>1. /\ i + 1 \in 1..Len(queue) /\ k + 1 \in 1..Len(queue)
          /\ queue[i + 1].job = queue[k + 1].job
      BY <1>4, <2>3
    <3>2. i + 1 = k + 1
      BY <2>1, <3>1 DEF WaitersAreQueued
    <3> QED
      BY <1>2, <1>4, <3>2
  <2> QED
    BY <2>2, <2>3 DEF WaitersAreQueued
<1>11. CheckpointIsBacked'
  BY DEF BudgetInv, CheckpointIsBacked
<1> QED
  BY <1>7, <1>8, <1>9, <1>10, <1>11 DEF BudgetInv

\* Every step of the task at the head is one or the other.
LEMMA TurnControl ==
    ASSUME StorageTypeOK, BudgetInv, Turn
    PROVE  BudgetInv'
<1> USE DEF turnFrame, TurnGoes, Head1
<1>1. queue # <<>>
  BY DEF Turn, TaskGoesOn, Retain, WriteCheckpoint, Reclaim, Collect,
         PlanCleanup,
         ExpireCheckpoint, Sweep, EndSweep, Purge, TaskFails, AtTurn
<1>2. /\ turn \in [step : Turns, doomed : SUBSET Jobs]
      /\ checkpoint.refs \subseteq stored /\ TurnFits
      /\ Head(queue).kind = "failed" => Head(queue).refs \subseteq stored
  BY <1>1, HeadFacts DEF BudgetInv, StorageTypeOK, CheckpointIsBacked
<1>3. {"failed", "succeeded", "cancelled"} = Outcomes
  BY DEF Outcomes
<1>4. CASE Retain \/ WriteCheckpoint \/ Reclaim \/ Collect
  <2>1. /\ turn'.step \in {"recording", "planning"}
        /\ turn'.step = "recording" =>
              /\ Head(queue).kind = "failed" /\ turn.step = "waiting"
              /\ lock' = lock
        /\ \/ lock' = lock
           \/ /\ Head(queue).kind \in Outcomes /\ Releases
              /\ turn'.step = "planning"
        /\ UNCHANGED <<phase, stored, mode, op, queue, boot>>
    BY <1>2, <1>3, <1>4
       DEF Retain, WriteCheckpoint, Reclaim, Collect, AtTurn, TurnFits
  <2>2. checkpoint'.refs \subseteq stored
    BY <1>2, <1>4
       DEF Retain, WriteCheckpoint, Reclaim, Collect, AtTurn, TurnFits
  <2>3. Watched' = {}
    BY <2>1 DEF Watched
  <2> QED
    BY <1>1, <2>1, <2>2, <2>3, TurnStep
<1>5. CASE PlanCleanup
  <2>1. /\ turn'.step \in {"expiring", "sweeping"}
        /\ turn'.doomed = staged \ Protected
        /\ turn'.step = "expiring" => Expired
        /\ UNCHANGED <<phase, stored, checkpoint, lock, mode, op, queue, boot>>
    BY <1>5 DEF PlanCleanup
  <2>2. \A j \in Watched' : j \notin Active'
    BY <2>1 DEF Watched, Protected, Expired, Active
  <2> QED
    BY <1>1, <1>2, <2>1, <2>2, TurnStep
<1>6. CASE ExpireCheckpoint
  <2>1. /\ turn.step = "expiring" /\ turn'.step = "sweeping"
        /\ turn'.doomed = turn.doomed /\ checkpoint'.refs = {}
        /\ UNCHANGED <<phase, stored, lock, mode, op, queue, boot>>
    BY <1>2, <1>6 DEF ExpireCheckpoint, AtTurn, NoCheckpoint
  <2>2. \A j \in Watched' : j \in Watched
    BY <2>1 DEF Watched
  <2> QED
    BY <1>1, <2>1, <2>2, TurnStep
<1>7. CASE Sweep
  <2>1. /\ turn.step = "sweeping" /\ turn'.step = "sweeping"
        /\ turn'.doomed \subseteq turn.doomed
        /\ UNCHANGED <<phase, stored, checkpoint, lock, mode, op, queue, boot>>
    BY <1>2, <1>7 DEF Sweep, AtTurn
  <2>2. \A j \in Watched' : j \in Watched
    BY <2>1 DEF Watched
  <2> QED
    BY <1>1, <1>2, <2>1, <2>2, TurnStep
<1>8. CASE EndSweep
  <2>1. CASE Active = {} /\ TurnGoes("purging")
             /\ UNCHANGED <<phase, lock, mode, op, queue, recorded>>
    <3>1. /\ turn'.step = "purging" /\ Active' = {}
          /\ UNCHANGED <<stored, checkpoint, boot>>
      BY <1>2, <1>8, <2>1 DEF EndSweep, Active
    <3>2. \A j \in Watched' : j \notin Active'
      BY <3>1
    <3> QED
      BY <1>1, <1>2, <2>1, <3>1, <3>2, TurnStep
  <2>2. CASE \E ok \in BOOLEAN : Resolves(ok)
    <3>1. UNCHANGED <<stored, checkpoint, boot>>
      BY <1>8 DEF EndSweep
    <3> QED
      BY <1>1, <2>2, <3>1, ResolveStep
  <2> QED
    BY <1>8, <2>1, <2>2 DEF EndSweep
<1>9. CASE Purge
  <2>1. PICK ok \in BOOLEAN : Resolves(ok)
    BY <1>9 DEF Purge
  <2>2. turn.step = "purging" /\ UNCHANGED <<checkpoint, boot>>
    BY <1>9 DEF Purge, AtTurn
  <2>3. stored' = stored \/ checkpoint.refs \subseteq stored'
    BY <1>9 DEF Purge, Kept
  <2> QED
    BY <1>1, <2>1, <2>2, <2>3, ResolveStep
<1>10. CASE TaskFails
  <2>1. Resolves(FALSE) /\ UNCHANGED <<stored, checkpoint, boot>>
    BY <1>10 DEF TaskFails
  <2> QED
    BY <1>1, <2>1, ResolveStep
<1> QED
  BY <1>4, <1>5, <1>6, <1>7, <1>8, <1>9, <1>10 DEF Turn, TaskGoesOn

-----------------------------------------------------------------------------
(* The theorems.                                                           *)

\* The invariant holds when the sidecar first starts.
LEMMA InvInit == StorageInit => StorageInv
<1> SUFFICES ASSUME StorageInit PROVE StorageInv
  OBVIOUS
<1> USE DEF StorageInit, NoCheckpoint, AtRest
<1>1. StorageTypeOK
  <2>1. Quiet \in Operations
    BY DEF Quiet, Operations, Ops, Outcomes
  <2>2. op \in [Jobs -> Operations] /\ phase \in [Jobs -> Phases]
    BY <2>1 DEF Phases
  <2>3. turn \in [step : Turns, doomed : SUBSET Jobs]
    BY DEF Turns
  <2>4. checkpoint \in Checkpoints /\ queue \in Seq(Tasks)
    BY EmptySeq DEF Checkpoints
  <2> QED
    BY <2>2, <2>3, <2>4 DEF StorageTypeOK, Operations, Checkpoints
<1>2. \A i \in 1..Len(queue) : FALSE
  OBVIOUS
<1>3. TasksFit /\ TurnFits /\ PurgeAlone /\ CheckpointIsBacked
  BY <1>2 DEF TasksFit, TurnFits, PurgeAlone, CheckpointIsBacked
<1>4. WaitersAreQueued /\ \A j \in Jobs : OpFits(j)
  BY <1>2 DEF WaitersAreQueued, OpFits, Quiet
<1>5. \A j \in Watched : KeepsOff(j)
  BY DEF Watched, KeepsOff, Active
<1> QED
  BY <1>1, <1>3, <1>4, <1>5 DEF StorageInv, BudgetInv

\* Every step preserves it.
LEMMA InvStep == StorageInv /\ [StorageNext]_storageVars => StorageInv'
<1> SUFFICES ASSUME StorageInv, [StorageNext]_storageVars
             PROVE  StorageInv'
  OBVIOUS
<1> USE DEF StorageInv
<1>1. TasksFit /\ TurnFits
  BY DEF BudgetInv
<1>2. CASE \E j \in Jobs : Client(j)
  BY <1>2, StorageAssumption, ClientTypes, ClientControl
<1>3. CASE \E j \in Jobs : Operate(j)
  <2>1. PICK j \in Jobs : Operate(j)
    BY <1>3
  <2>2. BudgetInv'
    BY <2>1, OperateControl, EnterControl DEF Operate
  <2> QED
    BY <2>1, <2>2, OperateTypes
<1>4. CASE \E j \in Jobs : Recover(j)
  BY <1>4, OperateTypes, OperateControl
<1>5. CASE Turn
  BY <1>1, <1>5, TurnTypes, TurnControl
<1>6. CASE TtlPasses \/ Crash \/ Serve \/ CollectAtStartup
  BY <1>6, LifeTypes, LifeControl
<1>7. CASE UNCHANGED storageVars
  <2>1. StorageTypeOK'
    BY <1>7 DEF StorageTypeOK, storageVars
  <2>2. TasksFit' /\ TurnFits' /\ WaitersAreQueued' /\ CheckpointIsBacked'
    BY <1>7 DEF BudgetInv, TasksFit, TurnFits, WaitersAreQueued,
       CheckpointIsBacked, storageVars
  <2>3. (\A j \in Jobs : OpFits(j))' /\ PurgeAlone'
    BY <1>7 DEF BudgetInv, OpFits, PurgeAlone, EndsWell, storageVars
  <2>4. (\A j \in Watched : KeepsOff(j))'
    BY <1>7 DEF BudgetInv, KeepsOff, Watched, Active, storageVars
  <2> QED
    BY <2>1, <2>2, <2>3, <2>4 DEF BudgetInv
<1> QED
  BY <1>2, <1>3, <1>4, <1>5, <1>6, <1>7 DEF StorageNext

\* The inductive invariant of the storage authority.
THEOREM StorageInvariant == StorageSpec => []StorageInv
  BY InvInit, InvStep, PTL DEF StorageSpec

\* Every variable has its type, for any number of jobs and of queued tasks.
THEOREM StorageTypeCorrect == StorageSpec => []StorageTypeOK
<1>1. StorageInv => StorageTypeOK
  BY DEF StorageInv
<1> QED
  BY <1>1, StorageInvariant, PTL

\* The artifacts that the checkpoint of the last failed import refers to are
\* in the store.
THEOREM CheckpointBacked == StorageSpec => []CheckpointIsBacked
<1>1. StorageInv => CheckpointIsBacked
  BY DEF StorageInv, BudgetInv
<1> QED
  BY <1>1, StorageInvariant, PTL

\* A job waits for the mutation queue exactly when one task of its own is in
\* it.
THEOREM WaitersQueued == StorageSpec => []WaitersAreQueued
<1>1. StorageInv => WaitersAreQueued
  BY DEF StorageInv, BudgetInv
<1> QED
  BY <1>1, StorageInvariant, PTL

\* What a collection deletes is what the task at the head may still delete.
LEMMA CollectionTakes ==
    ASSUME StorageTypeOK, turn.step \in {"expiring", "sweeping"},
           [StorageNext]_storageVars, NEW j \in staged \ staged'
    PROVE  j \in Watched
<1>1. j \in Jobs /\ staged' # staged
  BY DEF StorageTypeOK
<1>2. CASE ExpireCheckpoint
  BY <1>1, <1>2 DEF ExpireCheckpoint, AtTurn, Watched
<1>3. CASE Sweep
  BY <1>1, <1>3 DEF Sweep, AtTurn, Watched
<1>4. CASE \E i \in Jobs : Client(i) \/ Operate(i) \/ Recover(i)
  BY <1>1, <1>4 DEF Client, Plan, Start, Relaunch, StoreArtifact, Rest, Fail,
     Commit, Discard, Operate, Acquire, AcquireFails, Reserve, AcquireCleanup,
     Finalize, RecordArtifact, Recover, opFrame
<1>5. CASE Turn
  <2>1. ~ (Retain \/ WriteCheckpoint \/ Reclaim)
    BY DEF Retain, WriteCheckpoint, Reclaim, AtTurn
  <2> QED
    BY <1>1, <1>2, <1>3, <1>5, <2>1 DEF Turn, TaskGoesOn, Collect,
         PlanCleanup, EndSweep,
       Purge, TaskFails
<1>6. CASE \/ TtlPasses \/ Crash \/ Serve \/ CollectAtStartup
           \/ UNCHANGED storageVars
  BY <1>1, <1>6 DEF TtlPasses, Crash, Serve, CollectAtStartup, storageVars
<1> QED
  BY <1>4, <1>5, <1>6 DEF StorageNext

\* A collection never deletes the managed copy of a run that captures under
\* its lock, although it does not see a lock that is acquired meanwhile.
THEOREM CollectionSpares == StorageSpec => CollectionSparesCaptures
<1> DEFINE Spares ==
      turn.step \in {"expiring", "sweeping"} =>
         \A j \in staged \ staged' : ~ (Capturing(j) /\ lock[j] = "active")
<1>1. StorageInv /\ [StorageNext]_storageVars => [Spares]_storageVars
  <2> SUFFICES ASSUME StorageInv, [StorageNext]_storageVars,
                      turn.step \in {"expiring", "sweeping"},
                      NEW j \in staged \ staged',
                      Capturing(j), lock[j] = "active"
               PROVE  FALSE
    OBVIOUS
  <2>1. j \in Watched /\ j \in Jobs
    BY CollectionTakes DEF StorageInv, StorageTypeOK
  <2>2. KeepsOff(j)
    BY <2>1 DEF StorageInv, BudgetInv
  <2> QED
    BY <2>1, <2>2 DEF KeepsOff, Capturing, Active
<1> QED
  BY <1>1, StorageInvariant, PTL DEF StorageSpec, CollectionSparesCaptures
=============================================================================
