---------------------- MODULE ImportCoordinatorProofs ----------------------
(***************************************************************************)
(* Proofs about ImportCoordinator, for any set of scenarios and of calls   *)
(* and any number of changes and crashes: type correctness and the safety  *)
(* properties that the run checks.                                         *)
(*                                                                         *)
(* The argument is about who may write: the thread belongs to one handler  *)
(* at a time, and each handler that writes the job, the plan or the lock   *)
(* does so in states of the job that shut the others out.                  *)
(***************************************************************************)
EXTENDS ImportCoordinator, TLAPS

StartComputes == start \in {"submitted", "denied"}
RunComputes ==
    run.step \in {"advancing", "choosing", "blocking", "finishing", "failing",
                  "ending"}
CallComputes(k) == call[k].step \in {"removing", "deleting", "released"}

\* The thread is in one handler at a time.
OneThread ==
    /\ StartComputes => ~ RunComputes
    /\ \A k \in Calls : CallComputes(k) =>
          /\ ~ StartComputes /\ ~ RunComputes /\ boot # "repaused"
          /\ \A m \in Calls : CallComputes(m) => m = k

NothingElse ==
    run.step = "none" /\ \A k \in Calls : call[k].step = "idle"

\* A start call and the sidecar's startup have the job for themselves.
StartAlone ==
    /\ start # "none" =>
          job.state = "queued" /\ boot = "serving" /\ NothingElse
    /\ start = "reserving" => plan
    /\ job.state = "none" => NothingElse

BootAlone ==
    /\ boot \in {"recovering", "repaused", "resumed"} =>
          NothingElse /\ start = "none"
    /\ boot = "repaused" => job.state = "paused"
    /\ boot = "resumed" => job.state = "running"

CapturingSteps == {"advancing", "choosing", "executing", "blocking", "finishing"}

\* What a run that goes on finds, and when a run is over.
RunHasJob ==
    /\ run.step \in CapturingSteps => lock = "capture"
    /\ run.step \in CapturingSteps \union {"preparing"} => plan
    /\ run.step \in CapturingSteps \union {"preparing", "failing"} =>
          job.state \in {"running", "paused", "cancelled"}
    /\ run.step = "blocking" => job.state = "running"
    /\ run.step = "executing" /\ Continues => job.current # None
    /\ job.state = "paused" /\ run.step # "none" => run.aborted
    /\ job.state \in {"none", "queued", "committed", "gone"} =>
          run.step = "none"
    /\ job.state = "ready-to-commit" => run.step \in {"none", "ending"}

DiscardSteps == {"reclaiming", "finalizing", "removing", "deleting"}

\* What the steps of discard and commit have settled.
CallHasJob ==
    \A k \in Calls :
        /\ call[k].step \in DiscardSteps \union {"awaiting"} =>
              job.state \in {"cancelled", "gone"}
        /\ call[k].step \in DiscardSteps => run.step = "none"
        /\ call[k].step \in {"removing", "deleting"} => lock # "capture"
        /\ call[k].step = "deleting" => ~ plan
        /\ call[k].step \in {"listing", "released", "closing"} =>
              job.state = "committed"

FreshIsReady == fresh # {} => job.state = "ready-to-commit"

ControlInv ==
    /\ OneThread
    /\ StartAlone
    /\ BootAlone
    /\ RunHasJob
    /\ CallHasJob
    /\ FreshIsReady
    /\ ReadyIsComplete
    /\ DiscardLeavesNothing

ImportInv == ImportTypeOK /\ ControlInv

-----------------------------------------------------------------------------
(* Lemmas about single definitions.                                        *)

\* The least stage of a set that has one.
LEMMA MinInRange ==
    ASSUME NEW S, S \subseteq 0..6, S # {}
    PROVE  Min(S) \in S
<1>1. \E x \in S : \A y \in S : x <= y
  <2>1. CASE 0 \in S
    BY <2>1
  <2>2. CASE 0 \notin S /\ 1 \in S
    BY <2>2
  <2>3. CASE 0 \notin S /\ 1 \notin S /\ 2 \in S
    BY <2>3
  <2>4. CASE S \intersect 0..2 = {} /\ 3 \in S
    BY <2>4
  <2>5. CASE S \intersect 0..3 = {} /\ 4 \in S
    BY <2>5
  <2>6. CASE S \intersect 0..4 = {} /\ 5 \in S
    BY <2>6
  <2>7. CASE S \intersect 0..5 = {}
    <3>1. \A x \in S : x = 6
      BY <2>7
    <3>2. PICK x \in S : x = 6
      BY <3>1
    <3> QED
      BY <3>1, <3>2
  <2> QED
    BY <2>1, <2>2, <2>3, <2>4, <2>5, <2>6, <2>7
<1> QED
  BY <1>1 DEF Min

-----------------------------------------------------------------------------
(* Types.                                                                  *)

Jobs == [state : JobStates, stage : Stages,
         captured : SUBSET Scenarios,
         failed : [Scenarios -> Stages \union {Ok, Final}],
         failure : Stages \union {Ok},
         current : Scenarios \union {None}]

\* A failure of the job at a stage.
LEMMA FailedAtTyped ==
    ASSUME job \in Jobs, NEW stage \in Stages
    PROVE  FailedAt(stage) \in Jobs
<1>1. job.failure \in 0..6 /\ stage \in 0..6
  BY DEF Jobs, Stages, Ok
<1>2. Min({job.failure, stage}) \in {job.failure, stage}
  BY <1>1, MinInRange
<1>3. Min({job.failure, stage}) \in Stages \union {Ok}
  BY <1>2 DEF Jobs
<1> QED
  BY <1>3 DEF FailedAt, Jobs, JobStates

\* A retry goes back to a stage that failed.
LEMMA RetryTyped ==
    ASSUME job \in Jobs
    PROVE  /\ job.failure # Ok => RetryJob \in Jobs
           /\ \A S \in SUBSET Retryable : RetryScenarios(S) \in Jobs
<1>1. ASSUME job.failure # Ok PROVE RetryJob \in Jobs
  <2>1. job.failure \in Stages /\ job.stage \in Stages
    BY <1>1 DEF Jobs
  <2>2. Min({job.stage, job.failure}) \in {job.stage, job.failure}
    BY <2>1, MinInRange DEF Stages
  <2>3. Min({job.stage, job.failure}) \in Stages
    BY <2>1, <2>2
  <2> QED
    BY <2>3 DEF RetryJob, Jobs, JobStates
<1>2. ASSUME NEW S \in SUBSET Retryable PROVE RetryScenarios(S) \in Jobs
  <2> DEFINE T == {job.stage} \union {job.failed[s] : s \in S}
  <2>1. T \subseteq Stages /\ T # {}
    BY DEF Jobs, Retryable
  <2>2. Min(T) \in Stages
    BY <2>1, MinInRange DEF Stages
  <2>3. [s \in Scenarios |-> IF s \in S THEN Ok ELSE job.failed[s]] \in
           [Scenarios -> Stages \union {Ok, Final}]
    BY DEF Jobs
  <2> HIDE DEF T
  <2>4. RetryScenarios(S) =
          [job EXCEPT !.state = "running", !.stage = Min(T),
             !.failed = [s \in Scenarios |->
                           IF s \in S THEN Ok ELSE job.failed[s]],
             !.current = None]
    BY DEF RetryScenarios, T, Jobs
  <2> QED
    BY <2>2, <2>3, <2>4 DEF Jobs, JobStates
<1> QED
  BY <1>1, <1>2

\* The types of a run and of a call.
Runs == [step : RunSteps, aborted : BOOLEAN, post : Stages]
CallRows == [step : CallSteps, planned : BOOLEAN]

\* A run goes to its next step.
LEMMA GoesTyped ==
    ASSUME run \in Runs, NEW step \in RunSteps, Goes(step)
    PROVE  run' \in Runs
  BY DEF Goes, Runs

\* A call goes to its next step.
LEMMA CallGoesTyped ==
    ASSUME call \in [Calls -> CallRows], NEW k \in Calls,
           NEW step \in CallSteps, CallGoes(k, step)
    PROVE  call' \in [Calls -> CallRows]
<1>1. [call[k] EXCEPT !.step = step] \in CallRows
  BY DEF CallRows
<1>2. call' = [call EXCEPT ![k] = [call[k] EXCEPT !.step = step]]
  BY DEF CallGoes
<1> QED
  BY <1>1, <1>2

\* A new entry of #runs.
LEMMA NewRunTyped ==
    ASSUME NEW step \in RunSteps
    PROVE  NoRun \in Runs /\ [NoRun EXCEPT !.step = step] \in Runs
<1>1. NoRun \in Runs
  BY DEF NoRun, Runs, RunSteps, Stages, ExtractLayers
<1>2. \A r \in Runs : [r EXCEPT !.step = step] \in Runs
  BY DEF Runs
<1> QED
  BY <1>1, <1>2

\* A run is launched or aborted.
LEMMA LaunchTyped ==
    ASSUME run \in Runs, LaunchRun \/ AbortRun
    PROVE  run' \in Runs
<1>1. CASE LaunchRun
  <2>1. "failing" \in RunSteps /\ "advancing" \in RunSteps
          /\ "preparing" \in RunSteps
    BY DEF RunSteps
  <2> QED
    BY <1>1, <2>1, NewRunTyped DEF LaunchRun
<1>2. CASE AbortRun
  BY <1>2 DEF AbortRun, Runs
<1> QED
  BY <1>1, <1>2

\* A start call keeps the types.
LEMMA StartTyped ==
    ASSUME ImportTypeOK, Start
    PROVE  ImportTypeOK'
<1>1. job \in Jobs /\ run \in Runs
  BY DEF ImportTypeOK, Jobs, Runs
<1>2. job' \in Jobs
  BY <1>1, FailedAtTyped DEF Start, Submit, PlanRefused, PlanApproved,
     StorePlan, StartRun, StorageDenied, DenialRecorded, Saves, Jobs,
     JobStates, Launch, Stages
<1>3. run' \in Runs
  <2>1. "advancing" \in RunSteps
    BY DEF RunSteps
  <2> QED
    BY <1>1, <2>1, NewRunTyped DEF Start, Submit, PlanRefused, PlanApproved,
       StorePlan, StartRun, StorageDenied, DenialRecorded
<1>4. /\ plan' \in BOOLEAN /\ lock' \in {"none", "capture", "cleanup"}
      /\ start' \in {"none", "submitted", "initializing", "reserving",
                     "denied"}
      /\ fresh' \subseteq Calls
      /\ UNCHANGED <<project, call, boot, changes, crashes>>
  BY DEF ImportTypeOK, Start, Submit, PlanRefused, PlanApproved, StorePlan,
     StartRun, StorageDenied, DenialRecorded, Saves
<1> QED
  BY <1>2, <1>3, <1>4 DEF ImportTypeOK, Jobs, Runs

\* A run keeps the types: what it captures or fails is a scenario.
LEMMA RunTyped ==
    ASSUME ImportTypeOK, RunHasJob, Run
    PROVE  ImportTypeOK'
<1>1. job \in Jobs /\ run \in Runs
  BY DEF ImportTypeOK, Jobs, Runs
<1>2. job' \in Jobs
  <2>1. CASE AdvanceStage
    BY <1>1, <2>1 DEF AdvanceStage, Saves, Jobs, Stages, Capture
  <2>2. CASE StartScenario
    BY <1>1, <2>2 DEF StartScenario, Saves, Jobs, Unresolved
  <2>3. CASE Captured \/ ScenarioFailed
    <3>1. job.current \in Scenarios
      BY <1>1, <2>3 DEF Captured, ScenarioFailed, RunHasJob, Jobs
    <3>2. CASE Captured
      BY <1>1, <2>3, <3>1, <3>2 DEF Captured, Saves, Jobs
    <3>3. CASE ScenarioFailed
      <4>1. PICK stage \in {Launch, Capture, ExtractLayers, Final} :
               job' = [job EXCEPT !.failed[job.current] = stage,
                                  !.current = None]
        BY <3>3 DEF ScenarioFailed, Saves
      <4>2. stage \in Stages \union {Ok, Final}
        BY DEF Launch, Capture, ExtractLayers, Stages
      <4> QED
        BY <1>1, <4>1, <4>2 DEF Jobs
    <3> QED
      BY <2>3, <3>2, <3>3
  <2>4. CASE BlockScenario
    <3>1. Launch \in Stages
      BY DEF Launch, Stages
    <3>2. CASE job.current # None
      <4>1. job' = [job EXCEPT !.failed[job.current] = Launch,
                               !.current = None]
        BY <2>4, <3>2 DEF BlockScenario, Saves
      <4> QED
        BY <1>1, <3>1, <4>1 DEF Jobs
    <3>3. CASE job.current = None
      BY <1>1, <2>4, <3>3 DEF BlockScenario, Saves, Jobs, Unresolved
    <3> QED
      BY <3>2, <3>3
  <2>5. CASE FinishStage
    BY <1>1, <2>5 DEF FinishStage, Saves, Jobs, Runs, StateAfter, JobStates
  <2>6. CASE RecordFailure
    BY <1>1, <2>6, FailedAtTyped DEF RecordFailure, Saves, Jobs
  <2> QED
    BY <1>1, <2>1, <2>2, <2>3, <2>4, <2>5, <2>6 DEF Run, Prepare,
       PrepareFails, RunStops, ScenariosDone, ExecutedInVain, SetupFailed,
       EndRun, FinalizeRun
<1>3. run' \in Runs
  <2>1. CASE ScenariosDone
    <3>1. "finishing" \in RunSteps /\ ExtractLayers \in Stages
      BY DEF RunSteps, Stages, ExtractLayers
    <3> QED
      BY <1>1, <2>1, <3>1 DEF ScenariosDone, Runs
  <2>3. CASE FinishStage
    <3>1. run.post \in Stages
      BY <1>1 DEF Runs
    <3>2. run.post # Save => run.post + 1 \in Stages
      BY <3>1 DEF Stages, Save
    <3>3. "ending" \in RunSteps /\ "failing" \in RunSteps
      BY DEF RunSteps
    <3> QED
      BY <1>1, <2>3, <3>2, <3>3 DEF FinishStage, Goes, Runs
  <2>2. CASE EndRun \/ FinalizeRun
    BY <1>1, <2>2, NewRunTyped DEF EndRun, FinalizeRun, Runs, RunSteps
  <2> QED
    BY <1>1, <2>1, <2>2, <2>3 DEF Run, Prepare, PrepareFails, RunStops,
       AdvanceStage, StartScenario, ExecutedInVain, Captured, ScenarioFailed,
       SetupFailed, BlockScenario, RecordFailure, Goes, Runs, RunSteps
<1>4. /\ lock' \in {"none", "capture", "cleanup"}
      /\ fresh' \subseteq Calls
      /\ UNCHANGED runFrame
  BY DEF ImportTypeOK, Run, Prepare, PrepareFails, RunStops, AdvanceStage,
     StartScenario, ScenariosDone, ExecutedInVain, Captured, ScenarioFailed,
     SetupFailed, BlockScenario, FinishStage, RecordFailure, EndRun,
     FinalizeRun, Saves
<1> QED
  BY <1>2, <1>3, <1>4 DEF ImportTypeOK, Jobs, Runs, runFrame

\* Cancel, resume and retry keep the types.
LEMMA ChangeTyped ==
    ASSUME ImportTypeOK, Cancel \/ Resume \/ RetryFailed
    PROVE  ImportTypeOK'
<1>1. job \in Jobs /\ run \in Runs
  BY DEF ImportTypeOK, Jobs, Runs
<1>2. job' \in Jobs
  <2>1. CASE Cancel \/ Resume
    BY <1>1, <2>1 DEF Cancel, Resume, Saves, Jobs, JobStates
  <2>2. CASE RetryFailed
    <3>1. \/ job.failure # Ok /\ job' = RetryJob
          \/ \E S \in SUBSET Retryable : job' = RetryScenarios(S)
      BY <2>2 DEF RetryFailed, Saves
    <3> QED
      BY <1>1, <3>1, RetryTyped
  <2> QED
    BY <2>1, <2>2
<1>3. run' \in Runs
  BY <1>1, LaunchTyped DEF Cancel, Resume, RetryFailed
<1>4. changes' \in 0..MaxChanges
  BY ImportAssumption DEF ImportTypeOK, Cancel, Resume, RetryFailed, Asked
<1>5. /\ fresh' \subseteq Calls
      /\ UNCHANGED <<plan, project, lock, start, call, boot, crashes>>
  BY DEF Cancel, Resume, RetryFailed, Saves
<1> QED
  BY <1>2, <1>3, <1>4, <1>5 DEF ImportTypeOK, Jobs, Runs

\* Discard and commit keep the types.
LEMMA CallTyped ==
    ASSUME ImportTypeOK, NEW k \in Calls,
           Discard(k) \/ Commit(k) \/ CallStep(k)
    PROVE  ImportTypeOK'
<1>1. job \in Jobs /\ run \in Runs /\ call \in [Calls -> CallRows]
  BY DEF ImportTypeOK, Jobs, Runs, CallRows
<1>2. job' \in Jobs
  BY <1>1 DEF Discard, Commit, CallStep, RunAwaited, Reclaim,
     FinalizeDiscarded, DeletePlan, DeleteRow, CommitJob, SaveProject,
     DeleteCommittedPlan, FinalizeCommitted, CallFails, callFrame, Saves,
     Jobs, JobStates
<1>3. run' \in Runs
  <2>1. CASE Discard(k)
    BY <1>1, <2>1, LaunchTyped DEF Discard
  <2> QED
    BY <1>1, <2>1 DEF Commit, CallStep, RunAwaited, Reclaim,
       FinalizeDiscarded, DeletePlan, DeleteRow, CommitJob, SaveProject,
       DeleteCommittedPlan, FinalizeCommitted, CallFails
<1>4. call' \in [Calls -> CallRows]
  <2>1. CASE Discard(k)
    <3>1. [step |-> DiscardStep, planned |-> plan] \in CallRows
      BY DEF ImportTypeOK, DiscardStep, CallRows, CallSteps
    <3> QED
      BY <1>1, <2>1, <3>1 DEF Discard
  <2>2. CASE ~ Discard(k)
    <3>1. PICK step \in CallSteps : CallGoes(k, step)
      BY <2>2 DEF Commit, CallStep, RunAwaited, Reclaim, FinalizeDiscarded,
         DeletePlan, DeleteRow, CommitJob, SaveProject, DeleteCommittedPlan,
         FinalizeCommitted, CallFails, CallSteps
    <3> QED
      BY <1>1, <3>1, CallGoesTyped
  <2> QED
    BY <2>1, <2>2
<1>5. changes' \in 0..MaxChanges
  BY ImportAssumption DEF ImportTypeOK, Discard, Commit, CallStep, RunAwaited,
     Reclaim, FinalizeDiscarded, DeletePlan, DeleteRow, CommitJob,
     SaveProject, DeleteCommittedPlan, FinalizeCommitted, CallFails,
     callFrame, Asked
<1>6. /\ plan' \in BOOLEAN /\ project' \in BOOLEAN
      /\ lock' \in {"none", "capture", "cleanup"}
      /\ fresh' \subseteq Calls
      /\ UNCHANGED <<start, boot, crashes>>
  BY DEF ImportTypeOK, Discard, Commit, CallStep, RunAwaited, Reclaim,
     FinalizeDiscarded, DeletePlan, DeleteRow, CommitJob, SaveProject,
     DeleteCommittedPlan, FinalizeCommitted, CallFails, callFrame, Saves
<1> QED
  BY <1>2, <1>3, <1>4, <1>5, <1>6 DEF ImportTypeOK, Jobs, Runs, CallRows

\* A crash and what recovers from it keep the types.
LEMMA RecoverTyped ==
    ASSUME ImportTypeOK, Crash \/ Recover
    PROVE  ImportTypeOK'
<1>1. job \in Jobs /\ run \in Runs
  BY DEF ImportTypeOK, Jobs, Runs
<1>2. job' \in Jobs
  BY <1>1, FailedAtTyped DEF Crash, Recover, Repause, ResumeRecovered,
     RelaunchRecovered, RecoveryFails, NothingToRecover, Settle, Saves, Jobs,
     JobStates
<1>3. run' \in Runs
  <2>1. "advancing" \in RunSteps
    BY DEF RunSteps
  <2> QED
    BY <1>1, <2>1, NewRunTyped DEF Crash, Recover, Repause, ResumeRecovered,
       RelaunchRecovered, RecoveryFails, NothingToRecover, Settle
<1>4. call' \in [Calls -> CallRows]
  <2>1. NoCall \in CallRows
    BY DEF NoCall, CallRows, CallSteps
  <2>2. call \in [Calls -> CallRows]
    BY DEF ImportTypeOK, CallRows
  <2>3. call' = [k \in Calls |-> NoCall] \/ UNCHANGED call
    BY DEF Crash, Recover, Repause, ResumeRecovered, RelaunchRecovered,
       RecoveryFails, NothingToRecover, Settle, bootFrame
  <2> QED
    BY <2>1, <2>2, <2>3
<1>5. crashes' \in 0..MaxCrashes
  BY ImportAssumption DEF ImportTypeOK, Crash, Recover, Repause,
     ResumeRecovered, RelaunchRecovered, RecoveryFails, NothingToRecover,
     Settle, bootFrame
<1>6. /\ lock' \in {"none", "capture", "cleanup"}
      /\ start' \in {"none", "submitted", "initializing", "reserving",
                     "denied"}
      /\ fresh' \subseteq Calls /\ boot' \in BootSteps
      /\ UNCHANGED <<plan, project, changes>>
  BY DEF ImportTypeOK, BootSteps, Crash, Recover, Repause, ResumeRecovered,
     RelaunchRecovered, RecoveryFails, NothingToRecover, Settle, bootFrame,
     Saves
<1> QED
  BY <1>2, <1>3, <1>4, <1>5, <1>6 DEF ImportTypeOK, Jobs, Runs, CallRows

-----------------------------------------------------------------------------
(* Who has the thread, and in which states of the job it writes.           *)

\* A start call has the job for itself until its run starts.
LEMMA StartInv ==
    ASSUME ImportInv, Start
    PROVE  ControlInv'
<1> USE DEF ImportInv, ImportTypeOK, ControlInv, OneThread, StartAlone,
            BootAlone, RunHasJob, CallHasJob, FreshIsReady, ReadyIsComplete,
            DiscardLeavesNothing, StartComputes, RunComputes, CallComputes,
            NothingElse, CapturingSteps, DiscardSteps
<1> USE DEF Saves, Goes, CallGoes, FailedAt, LaunchRun, NoRun, NoCall, Asked,
            Idle, Computing, AbortRun, RetryJob, RetryScenarios, Retryable,
            Continues, runFrame, callFrame, bootFrame, StateAfter, DiscardStep,
            Resumable, Unresolved
<1>1. CASE Submit
  BY <1>1, ImportAssumption DEF Submit
<1>2. CASE PlanRefused
  BY <1>2, ImportAssumption DEF PlanRefused
<1>3. CASE PlanApproved
  BY <1>3, ImportAssumption DEF PlanApproved
<1>4. CASE StorePlan
  BY <1>4, ImportAssumption DEF StorePlan
<1>5. CASE StartRun
  BY <1>5, ImportAssumption DEF StartRun
<1>6. CASE StorageDenied
  BY <1>6, ImportAssumption DEF StorageDenied
<1>7. CASE DenialRecorded
  BY <1>7, ImportAssumption DEF DenialRecorded
<1> QED
  BY <1>1, <1>2, <1>3, <1>4, <1>5, <1>6, <1>7 DEF Start

\* A run writes the job only while it is running.
LEMMA RunInv ==
    ASSUME ImportInv, Run
    PROVE  ControlInv'
<1> USE DEF ImportInv, ImportTypeOK, ControlInv, OneThread, StartAlone,
            BootAlone, RunHasJob, CallHasJob, FreshIsReady, ReadyIsComplete,
            DiscardLeavesNothing, StartComputes, RunComputes, CallComputes,
            NothingElse, CapturingSteps, DiscardSteps
<1> USE DEF Saves, Goes, CallGoes, FailedAt, LaunchRun, NoRun, NoCall, Asked,
            Idle, Computing, AbortRun, RetryJob, RetryScenarios, Retryable,
            Continues, runFrame, callFrame, bootFrame, StateAfter, DiscardStep,
            Resumable, Unresolved
<1>1. CASE Prepare
  BY <1>1, ImportAssumption DEF Prepare
<1>2. CASE PrepareFails
  BY <1>2, ImportAssumption DEF PrepareFails
<1>3. CASE RunStops
  BY <1>3, ImportAssumption DEF RunStops
<1>4. CASE AdvanceStage
  BY <1>4, ImportAssumption DEF AdvanceStage
<1>5. CASE StartScenario
  BY <1>5, ImportAssumption DEF StartScenario
<1>6. CASE ScenariosDone
  BY <1>6, ImportAssumption DEF ScenariosDone
<1>7. CASE ExecutedInVain
  BY <1>7, ImportAssumption DEF ExecutedInVain
<1>8. CASE Captured
  BY <1>8, ImportAssumption DEF Captured
<1>9. CASE ScenarioFailed
  BY <1>9, ImportAssumption DEF ScenarioFailed
<1>10. CASE SetupFailed
  BY <1>10, ImportAssumption DEF SetupFailed
<1>11. CASE BlockScenario
  BY <1>11, ImportAssumption DEF BlockScenario
<1>12. CASE FinishStage
  <2>1. /\ run.step = "finishing" /\ job.state = "running"
        /\ lock = "capture" /\ plan
        /\ UNCHANGED <<lock, plan, start, call, boot>>
    BY <1>12 DEF FinishStage
  <2>2. CASE run' = [run EXCEPT !.step = "failing"] /\ UNCHANGED <<job, fresh>>
    BY <1>12, <2>1, <2>2
  <2>3. CASE /\ run.post # Save /\ run' = [run EXCEPT !.post = run.post + 1]
             /\ job' = [job EXCEPT !.stage = run.post] /\ fresh' = {}
    BY <1>12, <2>1, <2>3
  <2>4. CASE /\ Unresolved = {} /\ run' = [run EXCEPT !.step = "ending"]
             /\ job' = [job EXCEPT !.stage = Save, !.state = StateAfter(Save)]
             /\ fresh' = {}
    BY <1>12, <2>1, <2>4
  <2> QED
    BY <1>12, <2>2, <2>3, <2>4 DEF FinishStage
<1>13. CASE RecordFailure
  BY <1>13, ImportAssumption DEF RecordFailure
<1>14. CASE EndRun
  BY <1>14, ImportAssumption DEF EndRun
<1>15. CASE FinalizeRun
  BY <1>15, ImportAssumption DEF FinalizeRun
<1> QED
  BY <1>1, <1>2, <1>3, <1>4, <1>5, <1>6, <1>7, <1>8, <1>9, <1>10, <1>11, <1>12,
     <1>13, <1>14, <1>15 DEF Run

\* What a client asks comes when the thread is free and no start is under way.
LEMMA ChangeInv ==
    ASSUME ImportInv, Cancel \/ Resume \/ RetryFailed
    PROVE  ControlInv'
<1> USE DEF ImportInv, ImportTypeOK, ControlInv, OneThread, StartAlone,
            BootAlone, RunHasJob, CallHasJob, FreshIsReady, ReadyIsComplete,
            DiscardLeavesNothing, StartComputes, RunComputes, CallComputes,
            NothingElse, CapturingSteps, DiscardSteps
<1> USE DEF Saves, Goes, CallGoes, FailedAt, LaunchRun, NoRun, NoCall, Asked,
            Idle, Computing, AbortRun, RetryJob, RetryScenarios, Retryable,
            Continues, runFrame, callFrame, bootFrame, StateAfter, DiscardStep,
            Resumable, Unresolved
<1>1. CASE Cancel
  BY <1>1, ImportAssumption DEF Cancel
<1>2. CASE Resume
  <2>1. (OneThread /\ StartAlone /\ BootAlone)'
    BY <1>2 DEF Resume
  <2>2. RunHasJob'
    <3>1. CASE run.step # "none"
      BY <1>2, <3>1 DEF Resume
    <3>2. CASE run.step = "none" /\ plan /\ lock = "capture"
      BY <1>2, <3>2 DEF Resume
    <3>3. CASE run.step = "none" /\ ~ (plan /\ lock = "capture")
      BY <1>2, <3>3 DEF Resume
    <3> QED
      BY <3>1, <3>2, <3>3
  <2>4. (CallHasJob /\ FreshIsReady)'
    BY <1>2 DEF Resume
  <2>3. (ReadyIsComplete /\ DiscardLeavesNothing)'
    BY <1>2 DEF Resume
  <2> QED
    BY <2>1, <2>2, <2>3, <2>4
<1>3. CASE RetryFailed
  BY <1>3, ImportAssumption DEF RetryFailed
<1> QED
  BY <1>1, <1>2, <1>3

\* Discard works on a cancelled job without a run, commit on a ready one.
LEMMA CallInv ==
    ASSUME ImportInv, NEW k \in Calls, Discard(k) \/ Commit(k) \/ CallStep(k)
    PROVE  ControlInv'
<1> USE DEF ImportInv, ImportTypeOK, ControlInv, OneThread, StartAlone,
            BootAlone, RunHasJob, CallHasJob, FreshIsReady, ReadyIsComplete,
            DiscardLeavesNothing, StartComputes, RunComputes, CallComputes,
            NothingElse, CapturingSteps, DiscardSteps
<1> USE DEF Saves, Goes, CallGoes, FailedAt, LaunchRun, NoRun, NoCall, Asked,
            Idle, Computing, AbortRun, RetryJob, RetryScenarios, Retryable,
            Continues, runFrame, callFrame, bootFrame, StateAfter, DiscardStep,
            Resumable, Unresolved
<1>1. CASE Discard(k)
  BY <1>1, ImportAssumption DEF Discard
<1>2. CASE Commit(k)
  BY <1>2, ImportAssumption DEF Commit
<1>3. CASE RunAwaited(k)
  BY <1>3, ImportAssumption DEF RunAwaited
<1>4. CASE Reclaim(k)
  BY <1>4, ImportAssumption DEF Reclaim
<1>5. CASE FinalizeDiscarded(k)
  BY <1>5, ImportAssumption DEF FinalizeDiscarded
<1>6. CASE DeletePlan(k)
  BY <1>6, ImportAssumption DEF DeletePlan
<1>7. CASE DeleteRow(k)
  BY <1>7, ImportAssumption DEF DeleteRow
<1>8. CASE CommitJob(k)
  BY <1>8, ImportAssumption DEF CommitJob
<1>9. CASE SaveProject(k)
  BY <1>9, ImportAssumption DEF SaveProject
<1>10. CASE DeleteCommittedPlan(k)
  BY <1>10, ImportAssumption DEF DeleteCommittedPlan
<1>11. CASE FinalizeCommitted(k)
  BY <1>11, ImportAssumption DEF FinalizeCommitted
<1>12. CASE CallFails(k)
  BY <1>12, ImportAssumption DEF CallFails
<1> QED
  BY <1>1, <1>2, <1>3, <1>4, <1>5, <1>6, <1>7, <1>8, <1>9, <1>10, <1>11, <1>12
     DEF CallStep

\* After a crash nothing is under way but the startup.
LEMMA RecoverInv ==
    ASSUME ImportInv, Crash \/ Recover
    PROVE  ControlInv'
<1> USE DEF ImportInv, ImportTypeOK, ControlInv, OneThread, StartAlone,
            BootAlone, RunHasJob, CallHasJob, FreshIsReady, ReadyIsComplete,
            DiscardLeavesNothing, StartComputes, RunComputes, CallComputes,
            NothingElse, CapturingSteps, DiscardSteps
<1> USE DEF Saves, Goes, CallGoes, FailedAt, LaunchRun, NoRun, NoCall, Asked,
            Idle, Computing, AbortRun, RetryJob, RetryScenarios, Retryable,
            Continues, runFrame, callFrame, bootFrame, StateAfter, DiscardStep,
            Resumable, Unresolved
<1>1. CASE Crash
  BY <1>1, ImportAssumption DEF Crash
<1>2. CASE Repause
  BY <1>2, ImportAssumption DEF Repause
<1>3. CASE ResumeRecovered
  BY <1>3, ImportAssumption DEF ResumeRecovered
<1>4. CASE RelaunchRecovered
  BY <1>4, ImportAssumption DEF RelaunchRecovered
<1>5. CASE RecoveryFails
  BY <1>5, ImportAssumption DEF RecoveryFails
<1>6. CASE NothingToRecover
  BY <1>6, ImportAssumption DEF NothingToRecover
<1>7. CASE Settle
  BY <1>7, ImportAssumption DEF Settle
<1> QED
  BY <1>1, <1>2, <1>3, <1>4, <1>5, <1>6, <1>7 DEF Recover

-----------------------------------------------------------------------------
(* The invariant, and what no step may do.                                 *)

\* The invariant holds before the first import.
LEMMA ImportInitInv == ImportInit => ImportInv
<1> SUFFICES ASSUME ImportInit PROVE ImportInv
  OBVIOUS
<1>1. ImportTypeOK
  <2>1. job \in Jobs
    BY DEF ImportInit, Jobs, JobStates, Stages, Ok
  <2>2. run \in Runs
    BY NewRunTyped DEF ImportInit, RunSteps
  <2>3. NoCall \in CallRows
    BY DEF NoCall, CallRows, CallSteps
  <2>4. call \in [Calls -> CallRows]
    BY <2>3 DEF ImportInit
  <2>5. 0 \in 0..MaxChanges /\ 0 \in 0..MaxCrashes
    BY ImportAssumption
  <2> QED
    BY <2>1, <2>2, <2>4, <2>5
    DEF ImportInit, ImportTypeOK, BootSteps, Jobs, Runs, CallRows
<1>2. ControlInv
  BY DEF ImportInit, ControlInv, OneThread, StartAlone, BootAlone, RunHasJob,
     CallHasJob, FreshIsReady, ReadyIsComplete, DiscardLeavesNothing,
     StartComputes, RunComputes, CallComputes, NothingElse, CapturingSteps,
     DiscardSteps, NoRun, NoCall
<1> QED
  BY <1>1, <1>2 DEF ImportInv

\* Every step keeps the invariant.
LEMMA ImportStepInv == ImportInv /\ [ImportNext]_importVars => ImportInv'
<1> SUFFICES ASSUME ImportInv, [ImportNext]_importVars PROVE ImportInv'
  OBVIOUS
<1>1. ImportTypeOK /\ RunHasJob
  BY DEF ImportInv, ControlInv
<1>2. CASE Start
  BY <1>1, <1>2, StartTyped, StartInv DEF ImportInv
<1>3. CASE Run
  BY <1>1, <1>3, RunTyped, RunInv DEF ImportInv
<1>4. CASE Cancel \/ Resume \/ RetryFailed
  BY <1>1, <1>4, ChangeTyped, ChangeInv DEF ImportInv
<1>5. ASSUME NEW k \in Calls, Discard(k) \/ Commit(k) \/ CallStep(k)
      PROVE  ImportInv'
  BY <1>1, <1>5, CallTyped, CallInv DEF ImportInv
<1>6. CASE Crash \/ Recover
  BY <1>1, <1>6, RecoverTyped, RecoverInv DEF ImportInv
<1>7. CASE UNCHANGED importVars
  BY <1>7 DEF importVars, ImportInv, ImportTypeOK, ControlInv, OneThread,
     StartAlone, BootAlone, RunHasJob, CallHasJob, FreshIsReady,
     ReadyIsComplete, DiscardLeavesNothing, StartComputes, RunComputes,
     CallComputes, NothingElse, Continues, Unresolved
<1> QED
  BY <1>2, <1>3, <1>4, <1>5, <1>6, <1>7 DEF ImportNext

\* One handler at a time has the thread, and each finds the job in a state
\* that shuts the writers of the others out.
THEOREM ImportInvariant == ImportSpec => []ImportInv
<1> QED
  BY ImportInitInv, ImportStepInv, PTL DEF ImportSpec

\* The job, the run, the calls and the stored records keep their types.
THEOREM ImportTypeCorrect == ImportSpec => []ImportTypeOK
<1>1. ImportInv => ImportTypeOK
  BY DEF ImportInv
<1> QED
  BY <1>1, ImportInvariant, PTL

\* What captures holds the capture lock and its plan, and no discard or commit
\* gives the lock back meanwhile.
THEOREM CaptureLocked == ImportSpec => []CaptureHoldsLock
<1>1. ImportInv => CaptureHoldsLock
  BY DEF ImportInv, ControlInv, RunHasJob, CallHasJob, CapturingSteps,
     DiscardSteps, CaptureHoldsLock
<1> QED
  BY <1>1, ImportInvariant, PTL

\* A job that is ready or committed has an outcome for every scenario, and one
\* that was captured.
THEOREM ReadyComplete == ImportSpec => []ReadyIsComplete
<1>1. ImportInv => ReadyIsComplete
  BY DEF ImportInv, ControlInv
<1> QED
  BY <1>1, ImportInvariant, PTL

\* A deleted job leaves no plan, no run and no capture lock.
THEOREM DiscardComplete == ImportSpec => []DiscardLeavesNothing
<1>1. ImportInv => DiscardLeavesNothing
  BY DEF ImportInv, ControlInv
<1> QED
  BY <1>1, ImportInvariant, PTL

\* The steps that write the job keep its captures and its outcome.
JobKept ==
    /\ job.captured \subseteq job'.captured
    /\ job.state = "cancelled" => job'.state \in {"cancelled", "gone"}
    /\ job.state \in {"gone", "committed"} => job' = job

\* What every step keeps of the job.
LEMMA JobIsKept ==
    ASSUME ImportInv, [ImportNext]_importVars
    PROVE  JobKept
<1>1. job \in Jobs /\ StartAlone /\ BootAlone /\ RunHasJob /\ FreshIsReady
  BY DEF ImportInv, ImportTypeOK, ControlInv, Jobs
<1>2. CASE UNCHANGED job
  BY <1>2 DEF JobKept
<1>3. CASE Start
  BY <1>1, <1>3 DEF JobKept, StartAlone, Jobs, Start, Submit, PlanRefused,
     PlanApproved, StorePlan, StartRun, StorageDenied, DenialRecorded, Saves,
     FailedAt
<1>4. CASE Run
  <2>1. CASE AdvanceStage \/ StartScenario \/ Captured \/ ScenarioFailed
               \/ FinishStage
    BY <1>1, <2>1 DEF JobKept, Jobs, AdvanceStage, StartScenario, Captured,
       ScenarioFailed, FinishStage, Continues, StateAfter, Saves
  <2>2. CASE BlockScenario \/ RecordFailure
    BY <1>1, <2>2 DEF JobKept, Jobs, RunHasJob, BlockScenario, RecordFailure,
       FailedAt, Saves
  <2>3. CASE UNCHANGED job
    BY <2>3 DEF JobKept
  <2> QED
    BY <1>4, <2>1, <2>2, <2>3 DEF Run, Prepare, PrepareFails, RunStops,
       ScenariosDone, ExecutedInVain, SetupFailed, EndRun, FinalizeRun
<1>5. CASE Cancel \/ Resume \/ RetryFailed
  BY <1>1, <1>5 DEF JobKept, Jobs, Cancel, Resume, RetryFailed, RetryJob,
     RetryScenarios, Saves
<1>6. ASSUME NEW k \in Calls, Discard(k) \/ Commit(k) \/ CallStep(k)
      PROVE  JobKept
  BY <1>1, <1>6 DEF JobKept, Jobs, FreshIsReady, Discard, Commit, CallStep,
     RunAwaited, Reclaim, FinalizeDiscarded, DeletePlan, DeleteRow, CommitJob,
     SaveProject, DeleteCommittedPlan, FinalizeCommitted, CallFails, Saves
<1>7. CASE Crash \/ Recover
  BY <1>1, <1>7 DEF JobKept, Jobs, BootAlone, Crash, Recover, Repause,
     ResumeRecovered, RelaunchRecovered, RecoveryFails, NothingToRecover,
     Settle, FailedAt, Saves
<1> QED
  BY <1>2, <1>3, <1>4, <1>5, <1>6, <1>7 DEF ImportNext, importVars

\* Retries, pauses and restarts throw no capture away.
THEOREM WorkKept == ImportSpec => WorkIsKept
<1>1. ImportInv /\ [ImportNext]_importVars =>
        [job'.state = "gone" \/ job.captured \subseteq job'.captured]_importVars
  BY JobIsKept DEF JobKept
<1> QED
  BY <1>1, ImportInvariant, PTL DEF ImportSpec, WorkIsKept

\* No step leaves an outcome: what is discarded or committed stays so.
THEOREM OutcomesFinal == ImportSpec => OutcomesAreFinal
<1>1. ImportInv /\ [ImportNext]_importVars =>
        [/\ job.state = "cancelled" => job'.state \in {"cancelled", "gone"}
         /\ job.state \in {"gone", "committed"} => job' = job]_importVars
  BY JobIsKept DEF JobKept
<1> QED
  BY <1>1, ImportInvariant, PTL DEF ImportSpec, OutcomesAreFinal

=============================================================================
