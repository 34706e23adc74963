--------------------------- MODULE StorageBudget ---------------------------
(***************************************************************************)
(* The storage authority of imports: its job locks, its queue of           *)
(* mutations, the checkpoint of the last failed import, and the collection *)
(* of what no job holds; used by the import jobs of one sidecar as         *)
(* ImportCoordinatorStorage uses it.                                       *)
(*                                                                         *)
(* Only the tasks of withMutationLock wait for each other.  A lock is      *)
(* acquired beside them, and a collection that is under way does not see   *)
(* it: what protects the new holder is that it waits, in the same queue,   *)
(* for its preflight.  Every action ends where the code awaits.            *)
(***************************************************************************)
EXTENDS Integers, Sequences

CONSTANTS
    Jobs,       \* import jobs; each has one managed copy
    Capturers,  \* the jobs that capture an artifact
    Nobody      \* no job

ASSUME StorageAssumption == Capturers \subseteq Jobs /\ Nobody \notin Jobs

VARIABLES
    phase,       \* the state of each job's row, "planned" before it has one
    staged,      \* the jobs whose managed copy exists
    stored,      \* the jobs whose artifact is in the artifact store
    recorded,    \* the jobs whose row refers to their artifact
    checkpoint,  \* the failed retry checkpoint
    lock,        \* the job's entry of #locks and the state of that lock
    mode,        \* its entry of #lockModes
    op,          \* where the storage operation of each job is
    queue,       \* the mutation queue, the task at its head under way
    turn,        \* where the task at the head is
    boot         \* startup of the sidecar

storageVars == <<phase, staged, stored, recorded, checkpoint, lock, mode, op,
                 queue, turn, boot>>

Phases == {"new", "planned", "queued", "running", "resting", "failed",
           "committed", "cancelled", "gone"}
Ops == {"idle", "storing", "acquiring", "reserving", "cleaning", "waiting",
        "ending"}
Outcomes == {"failed", "succeeded", "cancelled"}
Kinds == Outcomes \union {"preflight", "startup"}
Turns == {"waiting", "recording", "planning", "expiring", "sweeping",
          "purging"}

Tasks == [kind : Kinds, job : Jobs \union {Nobody}, refs : SUBSET Jobs]

NoCheckpoint == [job |-> Nobody, refs |-> {}, expired |-> FALSE]

AtRest == [step |-> "waiting", doomed |-> {}]

StorageTypeOK ==
    /\ phase \in [Jobs -> Phases]
    /\ staged \subseteq Jobs /\ stored \subseteq Jobs
    /\ recorded \subseteq Jobs
    /\ checkpoint \in [job : Jobs \union {Nobody}, refs : SUBSET Jobs,
                       expired : BOOLEAN]
    /\ lock \in [Jobs -> {"none", "active", "finalizing", "released"}]
    /\ mode \in [Jobs -> {"capture", "cleanup"}]
    /\ op \in [Jobs -> [step : Ops, outcome : Outcomes, refs : SUBSET Jobs]]
    /\ queue \in Seq(Tasks)
    /\ turn \in [step : Turns, doomed : SUBSET Jobs]
    /\ boot \in {"recovering", "serving", "collected"}

Quiet == [step |-> "idle", outcome |-> "failed", refs |-> {}]

StorageInit ==
    /\ phase = [j \in Jobs |-> "new"]
    /\ staged = {} /\ stored = {} /\ recorded = {}
    /\ checkpoint = NoCheckpoint
    /\ lock = [j \in Jobs |-> "none"]
    /\ mode = [j \in Jobs |-> "capture"]
    /\ op = [j \in Jobs |-> Quiet]
    /\ queue = <<>>
    /\ turn = AtRest
    /\ boot = "serving"

\* activeJobs
Active == {j \in Jobs : lock[j] \in {"active", "finalizing"}}

\* listRetainedArtifactReferences
Retained == recorded \intersect stored

Goes(j, step) == op' = [op EXCEPT ![j].step = step]

Rests(j) == op' = [op EXCEPT ![j] = Quiet]

Enters(j, to) == phase' = [phase EXCEPT ![j] = to]

Enqueue(kind, j, refs) ==
    queue' = Append(queue, [kind |-> kind, job |-> j, refs |-> refs])

Serving == boot \in {"serving", "collected"}

\* A client calls while the job has no storage operation.
Free(j) == Serving /\ op[j].step = "idle"

\* The job's run is past ensure.
Capturing(j) ==
    /\ phase[j] = "running" /\ lock[j] # "none"
    /\ op[j].step \in {"idle", "storing"}

-----------------------------------------------------------------------------
(* The life of a job, as far as its storage goes.                          *)

disk == <<stored, recorded, checkpoint>>
authority == <<checkpoint, queue, turn, boot>>

\* plan makes the managed copy; nothing locks it before start.
Plan(j) ==
    /\ Free(j)
    /\ phase[j] = "new" /\ j \notin staged
    /\ Enters(j, "planned")
    /\ staged' = staged \union {j}
    /\ UNCHANGED <<stored, recorded, lock, mode, op, authority>>

\* ensure keeps a capture lock, and releases a cleanup lock before it acquires
\* the job's lock again.
Ensures(j) ==
    /\ mode' = [mode EXCEPT ![j] = "capture"]
    /\ IF lock[j] # "none" /\ mode[j] = "capture"
       THEN UNCHANGED <<lock, op>>
       ELSE Goes(j, "acquiring") /\ lock' = [lock EXCEPT ![j] = "none"]

Start(j) ==
    /\ Free(j)
    /\ phase[j] = "planned"
    /\ Enters(j, "queued")
    /\ Ensures(j)
    /\ UNCHANGED <<staged, stored, recorded, authority>>

\* resume or retryFailed, and the run it launches.
Relaunch(j) ==
    /\ Free(j)
    /\ phase[j] \in {"resting", "failed"}
    /\ Enters(j, "running")
    /\ Ensures(j)
    /\ UNCHANGED <<staged, stored, recorded, authority>>

\* The run puts an artifact into the store, and then saves the job with it.
StoreArtifact(j) ==
    /\ Capturing(j) /\ op[j].step = "idle"
    /\ j \in Capturers \ recorded
    /\ stored' = stored \union {j}
    /\ Goes(j, "storing")
    /\ UNCHANGED <<phase, staged, recorded, lock, mode, authority>>

RecordArtifact(j) ==
    /\ op[j].step = "storing"
    /\ recorded' = recorded \union {j}
    /\ Rests(j)
    /\ UNCHANGED <<phase, staged, stored, lock, mode, authority>>

\* The run is done, or the job is cancelled: it is ready or paused.
Rest(j) ==
    /\ op[j].step = "idle"
    /\ Capturing(j) \/ (Serving /\ phase[j] = "queued")
    /\ Enters(j, "resting")
    /\ UNCHANGED <<staged, stored, recorded, lock, mode, op, authority>>

\* finalize: it lists what to keep, then it asks for its turn.
Finalizes(j, outcome, refs) ==
    IF lock[j] = "none" THEN Rests(j)
    ELSE op' = [op EXCEPT ![j] =
                  [step |-> "ending", outcome |-> outcome, refs |-> refs]]

Fail(j) ==
    /\ Capturing(j) /\ op[j].step = "idle"
    /\ Enters(j, "failed")
    /\ Finalizes(j, "failed", Retained)
    /\ UNCHANGED <<staged, stored, recorded, lock, mode, authority>>

Commit(j) ==
    /\ Free(j)
    /\ phase[j] = "resting"
    /\ Enters(j, "committed")
    /\ Finalizes(j, "succeeded", Retained)
    /\ UNCHANGED <<staged, stored, recorded, lock, mode, authority>>

\* discard, after the run that it aborts has ended: ensureCleanup first.
Discard(j) ==
    /\ Free(j)
    /\ phase[j] \in {"queued", "resting", "failed", "cancelled"}
    /\ Enters(j, "cancelled")
    /\ Goes(j, "cleaning")
    /\ UNCHANGED <<staged, stored, recorded, lock, mode, authority>>

Client(j) ==
    \/ Plan(j) \/ Start(j) \/ Relaunch(j) \/ StoreArtifact(j) \/ Rest(j)
    \/ Fail(j) \/ Commit(j) \/ Discard(j)

-----------------------------------------------------------------------------
(* ensure, ensureCleanup and finalize.                                     *)

opFrame == <<staged, disk, turn, boot>>

\* Mutant: the preflight is not waited for.
AcquireOnly(j) ==
    /\ op[j].step = "acquiring"
    /\ lock' = [lock EXCEPT ![j] = "active"]
    /\ mode' = [mode EXCEPT ![j] = "capture"]
    /\ Enters(j, "running")
    /\ Rests(j)
    /\ UNCHANGED <<queue, opFrame>>

\* acquireJobLock, whose last checks and entry are one step.
Acquire(j) ==
    /\ op[j].step = "acquiring"
    /\ lock' = [lock EXCEPT ![j] = "active"]
    /\ mode' = [mode EXCEPT ![j] = "capture"]
    /\ Goes(j, "reserving")
    /\ UNCHANGED <<phase, queue, opFrame>>

\* Mutant: the job keeps a state of its own for it.
UnstoredDenied(j) == IF phase[j] = "queued" THEN "denied" ELSE "failed"

\* A start that gets no storage gives its plan up, and the job is over; a run
\* fails its job.
Unstored(j) == IF phase[j] = "queued" THEN "gone" ELSE "failed"

\* The lock cannot be had.  A discard throws.
AcquireFails(j) ==
    /\ \/ op[j].step = "acquiring" /\ Enters(j, Unstored(j))
       \/ op[j].step = "cleaning" /\ phase[j] = "cancelled"
          /\ lock[j] = "none" /\ UNCHANGED phase
    /\ Rests(j)
    /\ UNCHANGED <<lock, mode, queue, opFrame>>

Reserve(j) ==
    /\ op[j].step = "reserving"
    /\ Enqueue("preflight", j, {})
    /\ Goes(j, "waiting")
    /\ UNCHANGED <<phase, lock, mode, opFrame>>

\* ensureCleanup; a discard goes on with its finalization.
AcquireCleanup(j) ==
    /\ op[j].step = "cleaning"
    /\ lock' = [lock EXCEPT ![j] = IF @ = "none" THEN "active" ELSE @]
    /\ mode' = [mode EXCEPT ![j] = IF lock[j] = "none" THEN "cleanup" ELSE @]
    /\ op' = [op EXCEPT ![j] =
                IF phase[j] = "cancelled"
                THEN [step |-> "ending", outcome |-> "cancelled",
                      refs |-> Retained \ {j}]
                ELSE Quiet]
    /\ UNCHANGED <<phase, queue, opFrame>>

\* finalize of the lock: it throws unless the lock is active.
Finalize(j) ==
    /\ op[j].step = "ending"
    /\ IF lock[j] = "active"
       THEN /\ lock' = [lock EXCEPT ![j] = "finalizing"]
            /\ Enqueue(op[j].outcome, j, op[j].refs)
            /\ op' = [op EXCEPT ![j] = [Quiet EXCEPT !.step = "waiting"]]
       ELSE Rests(j) /\ UNCHANGED <<lock, queue>>
    /\ UNCHANGED <<phase, mode, opFrame>>

Operate(j) ==
    \/ Acquire(j) \/ AcquireFails(j) \/ Reserve(j) \/ AcquireCleanup(j)
    \/ Finalize(j) \/ RecordArtifact(j)

-----------------------------------------------------------------------------
(* The task at the head of the queue.                                      *)

Head1 == Head(queue)
Finalization == Head1.kind \in Outcomes

turnFrame == boot

AtTurn(step) == queue # <<>> /\ turn.step = step

TurnGoes(step) == turn' = [turn EXCEPT !.step = step]

\* The lock leaves activeJobs before what nobody holds is collected.
Releases == lock' = [lock EXCEPT ![Head1.job] = "released"]

\* retainFailure, first half.  What an oversized import left is deleted, and
\* so is the copy that the checkpoint of another job keeps.
Retain ==
    /\ AtTurn("waiting") /\ Head1.kind = "failed"
    /\ \/ /\ staged' = staged \ ({checkpoint.job} \ {Head1.job})
          /\ TurnGoes("recording")
          /\ UNCHANGED lock
       \/ /\ staged' = staged \ {Head1.job}
          /\ TurnGoes("planning")
          /\ Releases
    /\ UNCHANGED <<phase, stored, checkpoint, op, queue, recorded, mode,
                   turnFrame>>

\* ... second half: the new checkpoint replaces the old one at once.
WriteCheckpoint ==
    /\ AtTurn("recording")
    /\ checkpoint' = [job |-> Head1.job, refs |-> Head1.refs,
                      expired |-> FALSE]
    /\ Releases
    /\ TurnGoes("planning")
    /\ UNCHANGED <<phase, staged, stored, op, queue, recorded, mode,
                   turnFrame>>

Reclaim ==
    /\ AtTurn("waiting") /\ Head1.kind \in {"succeeded", "cancelled"}
    /\ staged' = staged \ {Head1.job}
    /\ Releases
    /\ TurnGoes("planning")
    /\ UNCHANGED <<phase, stored, checkpoint, op, queue, recorded, mode,
                   turnFrame>>

\* A preflight or a collection at startup begins.
Collect ==
    /\ AtTurn("waiting") /\ Head1.kind \in {"preflight", "startup"}
    /\ TurnGoes("planning")
    /\ UNCHANGED <<phase, staged, stored, checkpoint, lock, op, queue,
                   recorded, mode, turnFrame>>

\* A retry that is under way keeps the checkpoint from expiring.
Expired ==
    /\ checkpoint.job # Nobody
    /\ checkpoint.expired
    /\ checkpoint.job \notin Active

Protected == Active \union (IF Expired THEN {} ELSE {checkpoint.job})

\* planTransientStorageCleanup, for the copies that nobody holds.
PlanCleanup ==
    /\ AtTurn("planning")
    /\ turn' = [step |-> IF Expired THEN "expiring" ELSE "sweeping",
                doomed |-> staged \ Protected]
    /\ UNCHANGED <<phase, staged, stored, checkpoint, lock, op, queue,
                   recorded, mode, turnFrame>>

ExpireCheckpoint ==
    /\ AtTurn("expiring")
    /\ staged' = staged \ {checkpoint.job}
    /\ checkpoint' = NoCheckpoint
    /\ TurnGoes("sweeping")
    /\ UNCHANGED <<phase, stored, lock, op, queue, recorded, mode,
                   turnFrame>>

Sweep ==
    /\ AtTurn("sweeping")
    /\ \E j \in turn.doomed :
          /\ staged' = staged \ {j}
          /\ turn' = [turn EXCEPT !.doomed = @ \ {j}]
    /\ UNCHANGED <<phase, stored, checkpoint, lock, op, queue, recorded, mode,
                   turnFrame>>

\* A denied job gives up its lock anyway; another keeps it when finalize threw,
\* active again unless it was released before.
Finalized(j, ok) ==
    LET denied == phase[j] \in {"queued", "running"}
        discarded == phase[j] = "cancelled" /\ ok IN
    /\ lock' = [lock EXCEPT ![j] =
          IF ok \/ denied THEN "none"
          ELSE IF @ = "finalizing" THEN "active" ELSE @]
    /\ mode' = [mode EXCEPT ![j] = IF ok \/ denied THEN "capture" ELSE @]
    /\ Enters(j, CASE denied -> Unstored(j)
                   [] discarded -> "gone"
                   [] OTHER -> phase[j])
    /\ recorded' = IF discarded THEN recorded \ {j} ELSE recorded

\* What the task was for goes on with its result or its error.
Answers(ok) ==
    LET j == Head1.job IN
    CASE Head1.kind = "startup" -> UNCHANGED <<phase, lock, mode, op, recorded>>
      [] Head1.kind = "preflight" /\ ok ->
            /\ Enters(j, "running")
            /\ Rests(j)
            /\ UNCHANGED <<lock, mode, recorded>>
      [] Head1.kind = "preflight" /\ ~ ok ->
            /\ Finalizes(j, "cancelled", Retained)
            /\ UNCHANGED <<phase, lock, mode, recorded>>
      [] Finalization -> Finalized(j, ok) /\ Rests(j)

\* The task is done, and the next one has its turn.
Resolves(ok) ==
    /\ Answers(ok)
    /\ queue' = Tail(queue)
    /\ turn' = AtRest

\* Nothing is purged while a job is active, nor by a preflight, which may
\* find the budget exceeded.
EndSweep ==
    /\ AtTurn("sweeping") /\ turn.doomed = {}
    /\ IF Finalization /\ Active = {}
       THEN TurnGoes("purging")
            /\ UNCHANGED <<phase, lock, mode, op, queue, recorded>>
       ELSE Resolves(TRUE) \/ (Head1.kind = "preflight" /\ Resolves(FALSE))
    /\ UNCHANGED <<staged, stored, checkpoint, turnFrame>>

\* Mutant: what the checkpoint needs is forgotten.
KeptListed == Head1.refs

Kept == Head1.refs \union checkpoint.refs

\* purgeUnreferenced throws when a reference to keep is not in the store.
Purge ==
    /\ AtTurn("purging")
    /\ IF Kept \subseteq stored
       THEN stored' = Kept /\ Resolves(TRUE)
       ELSE Resolves(FALSE) /\ UNCHANGED stored
    /\ UNCHANGED <<staged, checkpoint, turnFrame>>

\* Mutant: the next task does not get its turn when this one throws.
TaskFailsUnreleased ==
    /\ queue # <<>>
    /\ Answers(FALSE)
    /\ turn' = AtRest
    /\ UNCHANGED queue
    /\ UNCHANGED <<staged, stored, checkpoint, turnFrame>>

\* The file system refuses a step of the task.
TaskFails ==
    /\ queue # <<>>
    /\ Resolves(FALSE)
    /\ UNCHANGED <<staged, stored, checkpoint, turnFrame>>

\* The task takes its next step.
TaskGoesOn ==
    \/ Retain \/ WriteCheckpoint \/ Reclaim \/ Collect \/ PlanCleanup
    \/ ExpireCheckpoint \/ Sweep \/ EndSweep \/ Purge

Turn == TaskGoesOn \/ TaskFails

-----------------------------------------------------------------------------
(* Time, a crash, and the start of the next sidecar.                       *)

\* failedRetryTtlMs have passed.
TtlPasses ==
    /\ checkpoint.job # Nobody /\ ~ checkpoint.expired
    /\ checkpoint' = [checkpoint EXCEPT !.expired = TRUE]
    /\ UNCHANGED <<phase, staged, stored, recorded, lock, mode, op, queue,
                   turn, boot>>

Crash ==
    /\ phase' = [j \in Jobs |-> IF phase[j] = "planned" THEN "new"
                                ELSE phase[j]]
    /\ lock' = [j \in Jobs |-> "none"]
    /\ mode' = [j \in Jobs |-> "capture"]
    /\ op' = [j \in Jobs |-> Quiet]
    /\ queue' = <<>>
    /\ turn' = AtRest
    /\ boot' = "recovering"
    /\ UNCHANGED <<staged, disk>>

Unlocked(state) ==
    {j \in Jobs : phase[j] = state /\ lock[j] = "none"}

\* recoverInterrupted works on one job at a time: first on those that were
\* running, then on those at rest.
Recovering ==
    \E j \in Jobs : /\ phase[j] \in {"running", "resting"}
                   /\ op[j].step \notin {"idle", "storing"}

Recover(j) ==
    /\ boot = "recovering" /\ ~ Recovering
    /\ IF Unlocked("running") # {}
       THEN j \in Unlocked("running") /\ Goes(j, "acquiring")
       ELSE j \in Unlocked("resting") /\ Goes(j, "cleaning")
    /\ UNCHANGED <<phase, staged, recorded, stored, lock, mode, authority>>

Serve ==
    /\ boot = "recovering" /\ ~ Recovering
    /\ Unlocked("running") \union Unlocked("resting") = {}
    /\ boot' = "serving"
    /\ UNCHANGED <<phase, staged, disk, lock, mode, op, queue, turn>>

\* garbageCollectRuntimeAtStartup, while clients are served.
CollectAtStartup ==
    /\ boot = "serving"
    /\ boot' = "collected"
    /\ Enqueue("startup", Nobody, {})
    /\ UNCHANGED <<phase, staged, disk, lock, mode, op, turn>>

-----------------------------------------------------------------------------
StorageNext ==
    \/ \E j \in Jobs : Client(j) \/ Operate(j) \/ Recover(j)
    \/ Turn
    \/ TtlPasses \/ Crash \/ Serve \/ CollectAtStartup

StorageSpec == StorageInit /\ [][StorageNext]_storageVars

\* The calls of a task to the file system return or throw.
StorageFairSpec == StorageSpec /\ WF_storageVars(TaskGoesOn)

-----------------------------------------------------------------------------
(* Properties.                                                             *)

\* A collection never removes the managed copy that a run works in, although
\* the lock may be acquired after the collection decided what nobody holds:
\* the run comes after its own preflight, and that after the collection.
CollectionSparesCaptures ==
    [][turn.step \in {"expiring", "sweeping"} =>
         \A j \in staged \ staged' : ~ (Capturing(j) /\ lock[j] = "active")
      ]_storageVars

\* The artifacts that the checkpoint refers to are there, so that a purge that
\* must keep them does not throw, whichever jobs were discarded since.
CheckpointIsBacked == checkpoint.refs \subseteq stored

\* The queue never stands still while somebody waits: again and again it is
\* empty or gets shorter, although any task may throw at any step.  Tasks
\* leave it in their order, so that each waiter has its turn.
QueueMovesOn ==
    []<>(queue = <<>>) \/ []<><<Len(queue') < Len(queue)>>_storageVars

\* Active jobs are protected, as runtime-startup-recovery.ts says: nothing
\* removes the managed copy that a run with an active lock works in.
ActiveJobsProtected ==
    [][\A j \in staged \ staged' : ~ (Capturing(j) /\ lock[j] = "active")
      ]_storageVars
=============================================================================
