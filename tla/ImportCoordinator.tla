------------------------- MODULE ImportCoordinator -------------------------
(***************************************************************************)
(* One import job from start to commit or discard: ImportCoordinator with  *)
(* its storage locks, the transitions of capture-import and the durable    *)
(* job, plan and project stores.                                           *)
(*                                                                         *)
(* The sidecar runs one thread, and its stores are synchronous SQLite: a   *)
(* handler goes on until it waits for the file system, Git, a simulator or *)
(* another promise, and nothing but a crash comes between two of its store *)
(* calls.  A step in Computing is inside such a stretch; an action that    *)
(* begins one requires Idle.                                               *)
(***************************************************************************)
EXTENDS Integers, FiniteSetsExt

CONSTANTS
    Scenarios,    \* the capture scenarios, all of one application
    Calls,        \* discard and commit calls that may be in progress
    None,         \* no scenario
    MaxChanges,   \* bound of the client's calls that change the job
    MaxCrashes    \* bound of the crashes of the sidecar

ASSUME ImportAssumption ==
    /\ None \notin Scenarios
    /\ MaxChanges \in Nat
    /\ MaxCrashes \in Nat

VARIABLES
    job,       \* the row of import_jobs_v2
    plan,      \* is its execution plan stored?
    project,   \* is its committed project record stored?
    lock,      \* the job's storage lock and its mode
    start,     \* the start call in progress
    run,       \* the entry of #runs
    call,      \* discard and commit calls, and if they read a plan
    fresh,     \* the calls whose snapshot of the job is still the stored one
    boot,      \* where the sidecar's startup is
    changes,   \* calls of the client so far
    crashes    \* crashes so far

importVars == <<job, plan, project, lock, start, run, call, fresh, boot,
                changes, crashes>>

\* "validate", "launch" (for inventory to launch, which only follow each
\* other), "capture", "extract-layers", "verify", "save".
Stages == 0..5
Launch == 1
Capture == 2
ExtractLayers == 3
Save == 5

\* In failed and failure: not failed, and failed for good.
Ok == 6
Final == 7

JobStates == {"none", "queued", "running", "paused", "ready-to-commit",
              "failed", "committed", "cancelled", "gone"}
RunSteps == {"none", "preparing", "advancing", "choosing", "executing",
             "blocking", "finishing", "failing", "ending", "finalizing"}
CallSteps == {"idle", "awaiting", "reclaiming", "finalizing", "removing",
              "deleting", "validating", "listing", "closing", "released"}
BootSteps == {"recovering", "repaused", "resumed", "settling", "serving",
              "refused"}

ImportTypeOK ==
    /\ job \in [state : JobStates, stage : Stages,
                captured : SUBSET Scenarios,
                failed : [Scenarios -> Stages \union {Ok, Final}],
                failure : Stages \union {Ok},
                current : Scenarios \union {None}]
    /\ plan \in BOOLEAN /\ project \in BOOLEAN
    /\ lock \in {"none", "capture", "cleanup"}
    /\ start \in {"none", "submitted", "initializing", "reserving", "denied"}
    /\ run \in [step : RunSteps, aborted : BOOLEAN, post : Stages]
    /\ call \in [Calls -> [step : CallSteps, planned : BOOLEAN]]
    /\ fresh \subseteq Calls
    /\ boot \in BootSteps
    /\ changes \in 0..MaxChanges
    /\ crashes \in 0..MaxCrashes

NoRun == [step |-> "none", aborted |-> FALSE, post |-> ExtractLayers]

NoCall == [step |-> "idle", planned |-> FALSE]

ImportInit ==
    /\ job = [state |-> "none", stage |-> 0, captured |-> {},
              failed |-> [s \in Scenarios |-> Ok], failure |-> Ok,
              current |-> None]
    /\ plan = FALSE /\ project = FALSE
    /\ lock = "none"
    /\ start = "none"
    /\ run = NoRun
    /\ call = [k \in Calls |-> NoCall]
    /\ fresh = {}
    /\ boot = "serving"
    /\ changes = 0
    /\ crashes = 0

-----------------------------------------------------------------------------
(* Handlers and the thread they share.                                     *)

Computing ==
    \/ start \in {"submitted", "denied"}
    \/ run.step \in {"advancing", "choosing", "blocking", "finishing",
                     "failing", "ending"}
    \/ \E k \in Calls : call[k].step \in {"removing", "deleting", "released"}
    \/ boot = "repaused"

Idle == ~ Computing

\* Compare-and-save: every save outdates the snapshots others hold.
Saves(to) == job' = to /\ fresh' = {}

Goes(step) == run' = [run EXCEPT !.step = step]

CallGoes(k, step) == call' = [call EXCEPT ![k].step = step]

Unresolved ==
    {s \in Scenarios : s \notin job.captured /\ job.failed[s] = Ok}

\* #fail with a retryable failure of the job at a stage.
FailedAt(stage) ==
    [job EXCEPT !.state = "failed", !.failure = Min({@, stage}),
                !.current = None]

\* #launch: nothing when the job still has a run.  A new one takes its plan
\* from #jobPlans, which is kept as long as the capture lock, or restores it.
LaunchRun ==
    run' = IF run.step # "none" THEN run
           ELSE [NoRun EXCEPT !.step =
                   IF ~ plan THEN "failing"
                   ELSE IF lock = "capture" THEN "advancing"
                   ELSE "preparing"]

-----------------------------------------------------------------------------
(* start.  The client learns the job's id from its answer.                 *)

Submit ==
    /\ boot = "serving" /\ Idle
    /\ job.state = "none"
    /\ Saves([job EXCEPT !.state = "queued"])
    /\ start' = "submitted"
    /\ UNCHANGED <<plan, project, lock, run, call, boot, changes, crashes>>

\* The plan has errors, or the recipes or dependencies are not approved.
PlanRefused ==
    /\ start = "submitted"
    /\ \/ Saves(FailedAt(Launch))
       \/ Saves([job EXCEPT !.state = "failed"])
    /\ start' = "none"
    /\ UNCHANGED <<plan, project, lock, run, call, boot, changes, crashes>>

PlanApproved ==
    /\ start = "submitted"
    /\ start' = "initializing"
    /\ UNCHANGED <<job, plan, project, lock, run, call, fresh, boot, changes,
                   crashes>>

\* artifactStore.initialize is done, and the plan is stored.
StorePlan ==
    /\ start = "initializing" /\ Idle
    /\ plan' = TRUE
    /\ start' = "reserving"
    /\ UNCHANGED <<job, project, lock, run, call, fresh, boot, changes,
                   crashes>>

StartRun ==
    /\ start = "reserving" /\ Idle
    /\ lock' = "capture"
    /\ Saves([job EXCEPT !.state = "running"])
    /\ run' = [NoRun EXCEPT !.step = "advancing"]
    /\ start' = "none"
    /\ UNCHANGED <<plan, project, call, boot, changes, crashes>>

\* Storage is denied: the plan is deleted, and then the job fails.
StorageDenied ==
    /\ start = "reserving" /\ Idle
    /\ plan' = FALSE
    /\ start' = "denied"
    /\ UNCHANGED <<job, project, lock, run, call, fresh, boot, changes,
                   crashes>>

DenialRecorded ==
    /\ start = "denied"
    /\ Saves(FailedAt(Launch))
    /\ start' = "none"
    /\ UNCHANGED <<plan, project, lock, run, call, boot, changes, crashes>>

Start == \/ Submit \/ PlanRefused \/ PlanApproved \/ StorePlan \/ StartRun
         \/ StorageDenied \/ DenialRecorded

-----------------------------------------------------------------------------
(* #run.  Between its waits it only goes on if its job is still running    *)
(* and its signal is not aborted.                                          *)

runFrame == <<plan, project, start, call, boot, changes, crashes>>

\* Mutant: the signal is not asked.
ContinuesAborted == job.state = "running"

Continues == job.state = "running" /\ ~ run.aborted

Prepare ==
    /\ run.step = "preparing" /\ Idle
    /\ lock' = "capture"
    /\ Goes("advancing")
    /\ UNCHANGED <<job, fresh, runFrame>>

\* The plan cannot be restored, or storage is denied and given back.
PrepareFails ==
    /\ run.step = "preparing" /\ Idle
    /\ lock' \in {lock, "none"}
    /\ Goes("failing")
    /\ UNCHANGED <<job, fresh, runFrame>>

RunStops ==
    /\ run.step \in {"advancing", "choosing", "finishing"}
    /\ ~ Continues
    /\ Goes("ending")
    /\ UNCHANGED <<job, lock, fresh, runFrame>>

AdvanceStage ==
    /\ run.step = "advancing" /\ Continues
    /\ IF job.stage < Capture
       THEN Saves([job EXCEPT !.stage = @ + 1]) /\ UNCHANGED run
       ELSE Goes("choosing") /\ UNCHANGED <<job, fresh>>
    /\ UNCHANGED <<lock, runFrame>>

StartScenario ==
    /\ run.step = "choosing" /\ Continues
    /\ IF job.current # None
       THEN Goes("failing") /\ UNCHANGED <<job, fresh>>
       ELSE \E s \in Unresolved :
               Saves([job EXCEPT !.current = s]) /\ Goes("executing")
    /\ UNCHANGED <<lock, runFrame>>

ScenariosDone ==
    /\ run.step = "choosing" /\ Continues
    /\ Unresolved = {}
    /\ run' = [run EXCEPT !.step = "finishing", !.post = ExtractLayers]
    /\ UNCHANGED <<job, lock, fresh, runFrame>>

\* The adapter is done, too late.
ExecutedInVain ==
    /\ run.step = "executing" /\ Idle
    /\ ~ Continues
    /\ Goes("ending")
    /\ UNCHANGED <<job, lock, fresh, runFrame>>

Captured ==
    /\ run.step = "executing" /\ Idle
    /\ Continues
    /\ Saves([job EXCEPT !.captured = @ \union {job.current},
                         !.current = None])
    /\ Goes("choosing")
    /\ UNCHANGED <<lock, runFrame>>

\* Failed while preparing fixtures, capturing or extracting; or for good.
ScenarioFailed ==
    /\ run.step = "executing" /\ Idle
    /\ Continues
    /\ \E stage \in {Launch, Capture, ExtractLayers, Final} :
          Saves([job EXCEPT !.failed[job.current] = stage, !.current = None])
    /\ Goes("choosing")
    /\ UNCHANGED <<lock, runFrame>>

\* The application could not be set up: every unresolved scenario of it
\* fails, one started and failed after another.
SetupFailed ==
    /\ run.step = "executing" /\ Idle
    /\ Continues
    /\ Goes("blocking")
    /\ UNCHANGED <<job, lock, fresh, runFrame>>

BlockScenario ==
    /\ run.step = "blocking"
    /\ IF job.current # None
       THEN /\ Saves([job EXCEPT !.failed[job.current] = Launch,
                                 !.current = None])
            /\ UNCHANGED run
       ELSE IF Unresolved # {}
       THEN /\ \E s \in Unresolved : Saves([job EXCEPT !.current = s])
            /\ UNCHANGED run
       ELSE Goes("choosing") /\ UNCHANGED <<job, fresh>>
    /\ UNCHANGED <<lock, runFrame>>

\* Mutant: a job without any capture is ready, too.
ReadyAfter(stage) == IF stage = Save THEN "ready-to-commit" ELSE job.state

StateAfter(stage) ==
    IF stage # Save THEN job.state
    ELSE IF job.captured = {} THEN "failed" ELSE "ready-to-commit"

\* advance-stage through the stages after capture: it throws when the stage is
\* not the next one, and when there is something left to save.
FinishStage ==
    /\ run.step = "finishing" /\ Continues
    /\ IF run.post = job.stage + 1 /\ (run.post = Save => Unresolved = {})
       THEN /\ Saves([job EXCEPT !.stage = run.post,
                                 !.state = StateAfter(run.post)])
            /\ run' = IF run.post = Save
                      THEN [run EXCEPT !.step = "ending"]
                      ELSE [run EXCEPT !.post = @ + 1]
       ELSE Goes("failing") /\ UNCHANGED <<job, fresh>>
    /\ UNCHANGED <<lock, runFrame>>

\* #recordUnexpectedFailure
RecordFailure ==
    /\ run.step = "failing"
    /\ IF job.state \in {"queued", "running", "paused"}
       THEN Saves(FailedAt(job.stage))
       ELSE UNCHANGED <<job, fresh>>
    /\ Goes("ending")
    /\ UNCHANGED <<lock, runFrame>>

\* Mutant: the entry of #runs stays.
EndRunKept ==
    /\ run.step = "ending"
    /\ Goes(IF job.state \in {"failed", "committed"} /\ lock # "none"
            THEN "finalizing" ELSE "ending")
    /\ UNCHANGED <<job, lock, fresh, runFrame>>

\* finalizeTerminal
EndRun ==
    /\ run.step = "ending"
    /\ run' = IF job.state \in {"failed", "committed"} /\ lock # "none"
              THEN [run EXCEPT !.step = "finalizing"] ELSE NoRun
    /\ UNCHANGED <<job, lock, fresh, runFrame>>

\* The lock is given up, or finalize throws and it stays.
FinalizeRun ==
    /\ run.step = "finalizing" /\ Idle
    /\ lock' \in {lock, "none"}
    /\ run' = NoRun
    /\ UNCHANGED <<job, fresh, runFrame>>

Run == \/ Prepare \/ PrepareFails \/ RunStops \/ AdvanceStage \/ StartScenario
       \/ ScenariosDone \/ ExecutedInVain \/ Captured \/ ScenarioFailed
       \/ SetupFailed \/ BlockScenario \/ FinishStage \/ RecordFailure
       \/ EndRun \/ FinalizeRun

-----------------------------------------------------------------------------
(* What a client asks of a job it knows.                                   *)

Asked ==
    /\ boot = "serving" /\ Idle
    /\ start = "none"
    /\ changes < MaxChanges
    /\ changes' = changes + 1

AbortRun == run' = [run EXCEPT !.aborted = run.step # "none"]

Cancel ==
    /\ Asked
    /\ job.state \in {"queued", "running"}
    /\ Saves([job EXCEPT !.state = "paused", !.current = None])
    /\ AbortRun
    /\ UNCHANGED <<plan, project, lock, start, call, boot, crashes>>

Resume ==
    /\ Asked
    /\ job.state = "paused"
    /\ Saves([job EXCEPT !.state = "running"])
    /\ LaunchRun
    /\ UNCHANGED <<plan, project, lock, start, call, boot, crashes>>

Retryable == {s \in Scenarios : job.failed[s] \in Stages}

\* prepareFailedScenarioRetry for the job's own failures, when no scenario is
\* named: back to the earliest stage that failed.
RetryJob ==
    [job EXCEPT !.state = "running", !.stage = Min({@, job.failure}),
                !.failure = Ok, !.current = None]

\* Mutant: what was captured is captured again.
RetryScenariosAfresh(S) ==
    [job EXCEPT !.state = "running", !.stage = Launch, !.captured = {},
                !.failed = [s \in Scenarios |-> Ok], !.current = None]

\* ... and for scenarios that failed: they are open again.
RetryScenarios(S) ==
    [job EXCEPT !.state = "running",
                !.stage = Min({@} \union {job.failed[s] : s \in S}),
                !.failed = [s \in Scenarios |-> IF s \in S THEN Ok ELSE @[s]],
                !.current = None]

RetryFailed ==
    /\ Asked
    /\ job.state \in {"ready-to-commit", "failed"}
    /\ \/ job.failure # Ok /\ Saves(RetryJob)
       \/ \E S \in SUBSET Retryable \ {{}} : Saves(RetryScenarios(S))
    /\ LaunchRun
    /\ UNCHANGED <<plan, project, lock, start, call, boot, crashes>>

-----------------------------------------------------------------------------
(* discard: it waits for the run, reclaims the storage, and then deletes   *)
(* the plan and the row.                                                   *)

callFrame == <<project, start, boot, changes, crashes>>

\* Mutant: the aborted run is not waited for.
DiscardAtOnce == "reclaiming"

DiscardStep == IF run.step # "none" THEN "awaiting" ELSE "reclaiming"

Discard(k) ==
    /\ Asked
    /\ call[k].step = "idle"
    /\ \/ /\ job.state \in {"queued", "running", "paused", "ready-to-commit",
                            "failed"}
          /\ Saves([job EXCEPT !.state = "cancelled", !.current = None])
       \/ job.state = "cancelled" /\ UNCHANGED <<job, fresh>>
    /\ AbortRun
    /\ call' = [call EXCEPT ![k] =
         [step |-> DiscardStep, planned |-> plan]]
    /\ UNCHANGED <<plan, project, lock, start, boot, crashes>>

RunAwaited(k) ==
    /\ call[k].step = "awaiting" /\ Idle
    /\ run.step = "none"
    /\ CallGoes(k, "reclaiming")
    /\ UNCHANGED <<job, plan, lock, run, fresh, callFrame>>

\* ensureCleanup, when the discarded job had a plan.
Reclaim(k) ==
    /\ call[k].step = "reclaiming" /\ Idle
    /\ lock' = IF call[k].planned /\ lock = "none" THEN "cleanup" ELSE lock
    /\ CallGoes(k, "finalizing")
    /\ UNCHANGED <<job, plan, run, fresh, callFrame>>

FinalizeDiscarded(k) ==
    /\ call[k].step = "finalizing" /\ Idle
    /\ lock' = "none"
    /\ CallGoes(k, "removing")
    /\ UNCHANGED <<job, plan, run, fresh, callFrame>>

\* Mutant: the plan is left to somebody else.
KeepPlan(k) ==
    /\ call[k].step = "removing"
    /\ CallGoes(k, "deleting")
    /\ UNCHANGED <<job, plan, lock, run, fresh, callFrame>>

DeletePlan(k) ==
    /\ call[k].step = "removing"
    /\ plan' = FALSE
    /\ CallGoes(k, "deleting")
    /\ UNCHANGED <<job, lock, run, fresh, callFrame>>

\* Another discard may have been faster; then this one throws.
DeleteRow(k) ==
    /\ call[k].step = "deleting"
    /\ IF job.state = "cancelled"
       THEN Saves([job EXCEPT !.state = "gone"])
       ELSE UNCHANGED <<job, fresh>>
    /\ CallGoes(k, "idle")
    /\ UNCHANGED <<plan, lock, run, callFrame>>

-----------------------------------------------------------------------------
(* commit: it validates the stored plan, and saves job, project and plan   *)
(* one after the other.                                                    *)

Commit(k) ==
    /\ Asked
    /\ call[k].step = "idle"
    /\ job.state = "ready-to-commit"
    /\ plan
    /\ CallGoes(k, "validating")
    /\ fresh' = fresh \union {k}
    /\ UNCHANGED <<job, plan, project, lock, start, run, boot, crashes>>

\* Mutant: committed on a snapshot that others have changed since.
CommitStale(k) ==
    /\ call[k].step = "validating" /\ Idle
    /\ Saves([job EXCEPT !.state = "committed"])
    /\ CallGoes(k, "listing")
    /\ UNCHANGED <<plan, lock, run, callFrame>>

\* A job saved by another handler meanwhile is a conflict.
CommitJob(k) ==
    /\ call[k].step = "validating" /\ Idle
    /\ IF k \in fresh
       THEN Saves([job EXCEPT !.state = "committed"])
            /\ CallGoes(k, "listing")
       ELSE CallGoes(k, "idle") /\ UNCHANGED <<job, fresh>>
    /\ UNCHANGED <<plan, lock, run, callFrame>>

\* The artifact references are listed, and the project record is stored.
SaveProject(k) ==
    /\ call[k].step = "listing" /\ Idle
    /\ project' = TRUE
    /\ CallGoes(k, "released")
    /\ UNCHANGED <<job, plan, lock, start, run, fresh, boot, changes, crashes>>

DeleteCommittedPlan(k) ==
    /\ call[k].step = "released"
    /\ plan' = FALSE
    /\ CallGoes(k, "closing")
    /\ UNCHANGED <<job, lock, run, fresh, callFrame>>

FinalizeCommitted(k) ==
    /\ call[k].step = "closing" /\ Idle
    /\ lock' = "none"
    /\ CallGoes(k, "idle")
    /\ UNCHANGED <<job, plan, run, fresh, callFrame>>

\* The file system fails the call, or the run it waits for ended with an error.
CallFails(k) ==
    /\ \/ call[k].step \in {"reclaiming", "finalizing", "validating",
                            "listing", "closing"}
       \/ call[k].step = "awaiting" /\ run.step = "none"
    /\ Idle
    /\ CallGoes(k, "idle")
    /\ UNCHANGED <<job, plan, lock, run, fresh, callFrame>>

CallStep(k) ==
    \/ RunAwaited(k) \/ Reclaim(k) \/ FinalizeDiscarded(k) \/ DeletePlan(k)
    \/ DeleteRow(k) \/ CommitJob(k) \/ SaveProject(k)
    \/ DeleteCommittedPlan(k) \/ FinalizeCommitted(k) \/ CallFails(k)

-----------------------------------------------------------------------------
(* A crash, and recoverInterrupted before the sidecar serves again.        *)

bootFrame == <<plan, project, start, call, changes, crashes>>

Crash ==
    /\ crashes < MaxCrashes
    /\ crashes' = crashes + 1
    /\ lock' = "none"
    /\ start' = "none"
    /\ run' = NoRun
    /\ call' = [k \in Calls |-> NoCall]
    /\ fresh' = {}
    /\ boot' = "recovering"
    /\ UNCHANGED <<job, plan, project, changes>>

\* A running job is cancelled and resumed, one save after the other.
Repause ==
    /\ boot = "recovering"
    /\ job.state = "running"
    /\ Saves([job EXCEPT !.state = "paused", !.current = None])
    /\ boot' = "repaused"
    /\ UNCHANGED <<lock, run, bootFrame>>

ResumeRecovered ==
    /\ boot = "repaused"
    /\ Saves([job EXCEPT !.state = "running"])
    /\ boot' = "resumed"
    /\ UNCHANGED <<lock, run, bootFrame>>

RelaunchRecovered ==
    /\ boot = "resumed"
    /\ plan
    /\ lock' = "capture"
    /\ run' = [NoRun EXCEPT !.step = "advancing"]
    /\ boot' = "settling"
    /\ UNCHANGED <<job, fresh, bootFrame>>

\* #recordRecoveryFailure
RecoveryFails ==
    /\ boot = "resumed"
    /\ Saves(FailedAt(job.stage))
    /\ boot' = "settling"
    /\ UNCHANGED <<lock, run, bootFrame>>

NothingToRecover ==
    /\ boot = "recovering"
    /\ job.state # "running"
    /\ boot' = "settling"
    /\ UNCHANGED <<job, lock, run, fresh, bootFrame>>

Resumable == job.state \in {"paused", "ready-to-commit"}

\* A job at rest gets its cleanup lock.  Without its plan, or when the lock
\* cannot be had, the start of the sidecar fails.
Settle ==
    /\ boot = "settling"
    /\ Idle
    /\ IF ~ Resumable
       THEN boot' = "serving" /\ UNCHANGED lock
       ELSE \/ /\ plan
               /\ boot' = "serving"
               /\ lock' = IF lock = "none" THEN "cleanup" ELSE lock
            \/ boot' = "refused" /\ UNCHANGED lock
    /\ UNCHANGED <<job, run, fresh, bootFrame>>

Recover == \/ Repause \/ ResumeRecovered \/ RelaunchRecovered
           \/ RecoveryFails \/ NothingToRecover \/ Settle

-----------------------------------------------------------------------------
ImportNext ==
    \/ Start
    \/ Run
    \/ Cancel \/ Resume \/ RetryFailed
    \/ \E k \in Calls : Discard(k) \/ Commit(k) \/ CallStep(k)
    \/ Crash
    \/ Recover

ImportSpec == ImportInit /\ [][ImportNext]_importVars

\* A run and a call that are under way go on: whatever they wait for, the
\* adapter of an aborted capture included, ends or throws.
ImportFairSpec ==
    /\ ImportSpec
    /\ WF_importVars(Run)
    /\ \A k \in Calls : WF_importVars(CallStep(k))

-----------------------------------------------------------------------------
(* Properties.                                                             *)

\* A run captures only while its job holds the capture lock and its plan, and
\* nothing gives the lock back meanwhile: discard waits for the run that it
\* aborts, and a commit finds no run that still captures.
CaptureHoldsLock ==
    run.step = "executing" =>
        /\ lock = "capture"
        /\ plan
        /\ \A k \in Calls : call[k].step \notin {"finalizing", "closing"}

\* A job that is ready or committed has an outcome for every scenario and at
\* least one capture, whatever was retried, paused or crashed on the way.
ReadyIsComplete ==
    job.state \in {"ready-to-commit", "committed"} =>
        /\ job.captured # {}
        /\ Unresolved = {}

\* Retries, pauses and restarts never throw away what was captured.
WorkIsKept ==
    [][job'.state = "gone" \/ job.captured \subseteq job'.captured]_importVars

\* A discarded job stays discarded, and a committed one committed, whichever
\* run, commit, discard or retry is still under way with an older snapshot.
OutcomesAreFinal ==
    [][/\ job.state = "cancelled" => job'.state \in {"cancelled", "gone"}
       /\ job.state \in {"gone", "committed"} => job' = job]_importVars

\* When a discard has deleted the job, its plan is deleted, no run is left, and
\* what the capture reserved is given back.  Only a second discard, which read
\* the plan before the first deleted it, can lock the storage once more.
DiscardLeavesNothing ==
    job.state = "gone" => ~ plan /\ run.step = "none" /\ lock # "capture"

\* A discard comes to its end: the run it waits for ends.
DiscardReturns ==
    \A k \in Calls : (call[k].step = "awaiting") ~> (call[k].step = "idle")

\* A paused or ready job can be resumed after a crash: it has its plan.  This
\* is what recoverInterrupted requires of every such job, once it has resumed
\* the one that it cancelled itself.
ResumableKeepsPlan == Resumable /\ boot # "repaused" => plan

\* A run that has an outcome for every scenario advances through the stages
\* that are left, after a retry as well.
RetryCanFinish ==
    run.step = "finishing" /\ Continues => run.post = job.stage + 1
=============================================================================
