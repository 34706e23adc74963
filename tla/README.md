# Memi Canvas: models and proofs of the durable runtime

TLA+ modules for the core logic of this repository, the TLC runs that check
them on small instances, and TLAPS proofs of the properties that matter most.
Definitions are translated from the source; `PROJECT.json` ("map") names the
lines behind each of them.

## 1. The system

Memi Canvas is a local design tool. A macOS shell (Rust, `apps/macos/src-tauri`)
shows a web application (`apps/web`) and starts one **sidecar** process
(`apps/macos/runtime-sidecar`). The sidecar hosts the **durable runtime**
(`packages/runtime`), which takes commands from people, importers and agent
harnesses, and applies their effects to canvas documents kept by a **target
authority** (`packages/canvas-target`). Runtime and target each own a SQLite
file; no transaction spans both. That, and the fact that claims, leases and
grants expire while a call is under way, is where the difficulty lies.

### Inventory

| Part | State | Operations | What is hard | What makes it correct |
|---|---|---|---|---|
| Leases (`lease-store.ts`), fence handshake (`canvas-fence-coordinator.ts`) | `leases` row: holder, epoch, expiry, phase; `target_fences` row | acquire, assert, prepare, activate at the target, record, finalise | the handshake spans two stores; requests arrive late; crash between any two steps | an active lease is backed by the target's fence, which only rises |
| Schedule (`target-schedule-store.ts`) | outbox rows, one latch per target | nextCandidate, exactCandidate, claim | claims expire while their worker runs | one command at a time per target |
| Effect coordinator and store (`canvas-effect-*.ts`) | outbox phase, claim, latch state, receipts | prepare, apply, recordApplied / NotApplied / Unknown | answers lost or late; process dies between target commit and record | at most once, and reported as it was |
| Target authority, reader (`canvas-target`) | document, idempotency ledger, fence | activateFence, compareAndApply, lookup, verify | repeated calls with an older lease | writes only for its fence |
| Recovery (`canvas-recovery-*.ts`) | pending challenge on the latch, evidence rows | nextRecovery, lookup, record found / not found / blocked | stale evidence, two recoverers, a worker still running | a retry only of what is not applied |
| Trace commit (`canvas-trace-commit-*.ts`, `canvas-verification-journal.ts`) | commit claims, verification attempts, trace events | claim, prepareVerification, verify, reject, commit, replay | claim taken over during verification; repeated calls; lost responses | one event per effect, backed by fresh evidence of the claim that committed |
| Sidecar lease (`runtime-lease.ts`) | one lease file | acquire, release | file-system calls of several processes interleave; kill anywhere | one sidecar serves; a crash locks nobody out |
| Command admission (`runtime.ts`, `authority-store.ts`, `policy.ts`) | commands, grants, approval uses | submitCommand, reserve | replays, use limits, expiry | a use is counted once per command |
| Trusted authority (`trusted-authority-store.ts`, `execution-authority-store.ts`) | reservations, snapshots | reserve, issue, consume | time fence between reserving and using | no use outside the window |
| Legacy runner (`legacy-effect-runner.ts`, `effect-commit-store.ts`) | the same outbox | dispatch, retry decisions | outcomes it cannot know | no silent repetition |
| Import coordinator (`imports/import-coordinator.ts`, `capture-import`) | job revision, state and stage, plan, run map, storage lock | start, cancel, discard, resume, retryFailed, commit, recoverInterrupted | compare-and-save between awaits; runs that outlive a cancel; crash between saves | captures only under the lock, finished work is kept, outcomes are final, a dormant job has its plan |
| Import purge | purge marker, every import resource | purgeAll, resume after restart | one resource of several fails | nothing is left when it says complete |
| Storage budget (`storage-budget-policy.ts`, `import-coordinator-storage.ts`) | job locks, one queue of mutations, retry checkpoint, managed copies, artifacts | ensure, finalize, ensureCleanup, collect, purge | locks are acquired beside the queue; tasks throw; a failure, a retry and an expiry meet | what a run captures in, and what the checkpoint refers to, is not removed; nobody waits for a turn that never comes |
| Harness lifecycle (`harness-lifecycle-store.ts`) | tasks, runs with a dispatch epoch and a cursor, a log of signals, checkpoints | create, start, pause, resume, stop, resolveApproval, createHandoff, drain | sessions that answer after a pause or a resumption; check and transaction are separate | each signal counts once, for the epoch that is current; no effect without its approval; what is over stays over |
| Canvas v3 journal (`canvas-document-v3-store.ts` and its clients in sidecar and web) | snapshot, operations since; the document, stacks and queue of each window | open, commit, undo, redo, checkpoint | two windows, lost and repeated requests, a checkpoint beside an append | one chain that holds what was acknowledged; stacks that fit the operations |
| Workspace session (`workspace-session-store.ts`) | one row with a revision | save | two writers | no lost update |
| Source worktrees | worktree records, approvals | create, approve, compose, retire | crash between Git and database | no orphan, no second use of an approval |
| Startup recovery, RPC, shell bridge | socket, child process | recover before serving, stop, restart | stop of one sidecar beside the start of the next | serving implies recovered |
| Capture, discovery, compilers, protocol, document engine, web user interface | mostly none that outlives a call | pure or driving external tools | | |

Components interact as follows. `DurableRuntime` composes lease store, schedule,
effect coordinator and commit coordinator over one database. A client submits a
command that names its lease; a worker claims it (which takes the latch of the
target), calls the target *outside* any runtime transaction, and records the
answer. A claim whose worker went silent is recovered: the target is asked,
under a fresh challenge, whether it has the effect. An applied effect keeps its
latch until a commit claim verifies it at the target and appends its event to
the trace. The import coordinator and the harnesses produce commands; the
sidecar lease keeps a second process away from both databases. An import calls
the storage budget when it starts, resumes, fails, commits and is discarded;
that part keeps its own locks and its own queue. Windows of the web
application reach the journal of a document through requests to the sidecar,
which may be lost or outlive the window.

## 2. Modules

| Module | Models | EXTENDS |
|---|---|---|
| `LeaseFence` | lease row, target fence and handshake of one target | |
| `LeaseFenceProofs` | its theorems | `LeaseFence`, TLAPS |
| `EffectOnce` | abstract: what the effect pipeline promises | |
| `CanvasEffect` | schedule, claims, apply, target, recovery of one target; composes `LeaseFence` | `LeaseFence` |
| `MCCanvasEffect` | its instances | `CanvasEffect` |
| `CanvasEffectProofs` | its theorems, with the refinement of `EffectOnce` | `LeaseFenceProofs` |
| `CommitLog` | abstract: what the commit promises | |
| `TraceCommit` | commit claims, verification attempts, trace of one project | |
| `MCTraceCommit` | its instances | `TraceCommit` |
| `TraceCommitProofs` | its theorems, with the refinement of `CommitLog` | `TraceCommit`, TLAPS |
| `SidecarLease` | the sidecar's lease file, one action per file-system call | |
| `SidecarLeaseProofs` | its theorems | `SidecarLease`, TLAPS |
| `ImportCoordinator` | one import job: client calls, run, storage lock, durable stores, recovery | |
| `ImportCoordinatorProofs` | its theorems | `ImportCoordinator`, TLAPS |
| `StorageBudget` | the storage of several import jobs: locks, queue, checkpoint, collection, restart | |
| `StorageBudgetProofs` | its theorems | `StorageBudget`, TLAPS |
| `HarnessLifecycle` | the runs of one harness task, the sessions of their adapters, several hosts | |
| `MCHarness` | its instances | `HarnessLifecycle` |
| `HarnessLifecycleProofs` | its theorems | `HarnessLifecycle`, TLAPS |
| `CanvasJournal` | the journal of one document and the windows on it | |
| `MCCanvasJournal` | its instances | `CanvasJournal` |
| `CanvasJournalProofs` | its theorems | `CanvasJournal`, TLAPS |

Everywhere, **a database transaction is one action**: both stores run each
between `BEGIN IMMEDIATE` and `COMMIT`. What the code does between two
transactions (a target call, an `await`) is where other actions come in. A call
that throws before it has written anything is a disabled action, or ends the
call; a call that throws and then writes something else (`recordApplied`
followed by `recordUnknown`) is two actions, because a crash may fall between.
Time is one integer clock that never goes back, shared by runtime and target
(both take the same injected clock in one process); a *ttl* and a freshness
window keep their comparison (`<` or `<=`) from the source. Definitions marked
`Mutant:` are deliberate mistakes, named in `PROJECT.json`; no action uses them.

**LeaseFence.** `lease` is the row of `leases`, `fence` that of
`target_fences`, `call` the `activateCanvasLease` calls. A call of an outdated
lease is in the model as a call that was started while it was current.
`Abandon` is a crash or a target that throws. `acquireLease` is modelled as
it runs with a platform target (phase `pending-fence`); the fixture mode that
grants `active` at once has no fence.

**CanvasEffect.** `outbox` and `latch` are the rows, `worker` a claim holder
and its call, `recovery` a call of `reconcileNext`. `Claim` covers
`claimNextEffect` and the exact path; `Prepare` to `RecordUnknown` are
`CanvasEffectCoordinator.apply`; `NextRecovery` to `RecordBlockedEvidence` are
`reconcileNext`. The document is abstracted to the command whose result it
holds, and its revision. What a command does to the document is not modelled, so
the target may refuse one that is not in its ledger though the baseline fits
(`TargetRefuses`). `VerifyAndCommit` is the commit in one step: its own
protocol is `TraceCommit`. Two assumptions are named. *One call per claim at a
time*: the runtime makes a claim and applies it in one call (`applyNextEffect`,
`applyEffect`); a caller that uses `claimNextEffect` and `applyClaimedEffect`
can also repeat a call that was cut short, and `Reapply` says whether it does.
*The target runs in the sidecar's process*, so a worker that dies takes its
target call with it.

**TraceCommit.** `claims` are values their holders keep and may use in several
calls at once, also when they have run out. `EffectApplied`, `LeaseExpires` and
`LateUnknown` are the environment: what `CanvasEffect` and `LeaseFence` do to
the rows this part reads, with fewer restrictions than they do it. Validating an
answer and committing are one action, for nothing awaits in between. The
evidence of an attempt is identified by its `checkedAt`.

**SidecarLease.** Each launch is a member of `Sidecars` with a pid of its own,
so a pid is never reused. `Concurrent` says whether launches may overlap.

**ImportCoordinator.** `job` is the row of `import_jobs_v2`, `plan` and `project`
whether the two other records exist, `run` the entry of `#runs`, `lock` the
entry of `#locks` and its mode, `call` the discards and commits in progress. The
sidecar has one thread and its stores are synchronous, so handlers only meet
where one waits for the file system, Git or a simulator: an action that
begins after such a wait requires `Idle`, and the steps of a stretch without one
(`Computing`) are separate actions only because a crash may fall between
their saves. A revision is abstracted to whether a call's snapshot is still the
stored one (`fresh`). The stages from inventory to launch are one, because
nothing tells them apart; those from capture on are kept. All scenarios belong
to one application. *Assumed:* a client acts on a job only after `start`
answered; several jobs, the purge and time (approvals that expire) are
left out, their effect on a run being that its plan cannot be restored
(`PrepareFails`).

**StorageBudget.** `queue` is `withMutationLock`: the task at its head is under
way, `turn` says where, and only its end lets the next begin. `lock` and `mode`
are the entries of `#locks` and `#lockModes` with the state of the lock object,
`op` the storage call each job waits in. An action ends where the code awaits.
What the module keeps from the source and what makes it hard: `acquireJobLock`
does not go through the queue, so a lock appears while a collection runs that
decided without it; `retainFailure` removes and records in two steps; the lock
leaves `activeJobs` before the collection that ends a finalization; any task
may throw (`TaskFails`). Bytes are abstracted to a preflight that is
refused or not, a copy that is too large to keep to the second branch of
`Retain`; a job has one managed copy and at most one artifact. `Crash` and
`Recover` are the restart; `recoverInterrupted` takes jobs one at a time.

**HarnessLifecycle.** `run` is the row, `log` its lifecycle events, `script` what
the adapter will say from signal one on, so that a session which is opened again
continues after the cursor. A call is two steps, as in the code: it reads and
checks, and then one transaction writes. Nothing in the same host comes
between (`Alone`), since neither part awaits; a call of another process on the
same database does (`HostOf`). Between two signals a session awaits its adapter.
The updates keep their `WHERE` clauses: which of them name the epoch, which the
state, and that nobody asks how many rows they changed.

**CanvasJournal.** `snapshot` and `log` are the two tables, `window` what
`CanonicalWorkbenchAuthorityV3` and the adapter under it hold. A document is its
revision, the operation that made it, and its edits; its hash covers all
three, so equal hashes are equal documents. `requests` are on their way. `GiveUp`
is a request or an answer that is lost or late: the window undoes what it did to
its stacks while the request may still be served. An append may arrive twice.
The time an answer takes is left out, for nothing else looks at what the window
holds meanwhile. `docs` is a history variable: every document the journal
has stood for.

## 3. Runs

| Run | Question | Result |
|---|---|---|
| `LeaseFence` | Does a handshake that is interrupted, late or reordered keep lease and fence together, and can it be completed by repetition? | holds |
| `MCCanvasEffect` | Two commands, the second on top of the first, two workers, a recoverer: does each effect happen once, and is it reported truly? | holds |
| `MCReapply` | Rival commands, one of them imported, repeated calls, a lease that is replaced: what still holds? | holds |
| `MCTraceCommit` | One target, two commands, two concurrent calls, claims that expire in the middle: what gets into the trace? | holds |
| `SidecarLease` | Launches one after another, killed anywhere: exclusive, and never locked out? | holds |
| `ImportCoordinator` | Does an import keep its work and its locks while discard, commit, cancel, retry and crashes race its run? | holds |
| `StorageBudget` | Two jobs: does a collection spare what a run works in, does the checkpoint keep what it refers to, does the queue move on whatever throws? | holds |
| `MCHarness` | Two runs in one host: does each signal count once, does nothing pass an approval, is what is over over? | holds |
| `MCCanvasJournal` | Two windows: is there one chain, and do the stacks fit it? | holds |
| `MCRefusedReplay` | Is a failed command one that was not applied, when calls are repeated? | violated, finding 1 |
| `MCTwoStarts` | Is the lease exclusive when starts overlap? | violated, finding 2 |
| `MCFailedRetry` | Is the copy of a job with an active lock always left alone? | violated, finding 3 |

**Bounds, and why they are enough.** The clock runs to 3, with ttls of 1 and 2:
a claim or a lease can expire before, during and after a call, its successor can
too where its ttl is 1 (not for commits, whose claims last 2), and evidence can
be fresh or one tick too old. `MaxEpoch` 2 (3 for commits, whose first epoch is
the effect's) gives each command a claim and the one that replaces it, and no
third. Two commands give a target that has to wait, a baseline that moved
(`RivalBase`) and one that must be met (`ChainBase`). `MaxChallenges` 2 gives a
recovery that has to be repeated. One abandoned handshake at a time is enough to
repeat it in any state. Four launches give a dead owner, a live one, a newcomer
and one after a crash of the newcomer. An import has two scenarios (one that
succeeds and one that fails), four calls of clients, two of which may be
discards or commits in progress at the same time, and one crash. The storage run
has two jobs, one of which captures: one fails, retries or ends while the other
holds the lock or the checkpoint; restarts are not bounded (1,355,290 states).
The harness run has two runs and two callers, which is what a handoff and two
overlapping sessions take, dispatch epochs to 3 and one crash. The journal run
has two windows, three operations (an edit, its undo and its redo, or edits of
both windows), a log of three, one checkpoint that waits and two requests on
their way, so that a late one meets a current one (601,692 states). Every bound
is a CONSTANT and none appears in a theorem's hypotheses. Deadlock is not
checked where clock, epochs or operations are bounded, or where what is done
rests. Where it is checked it says little of `StorageBudget`, in which a crash
is always possible: that its queue does not stop is `QueueMovesOn`.

**Symmetry** is used where no liveness is checked and the identities are only
compared: commit calls; runs and callers of the harness; windows. Two recoverers
at once are covered by the theorems, which hold for any number of them, and not
by a run.

**Fairness.** `LeaseFairSpec`: a started handshake goes on and a caller with a
pending lease starts one, unless it is abandoned; the platform repeats the
handshake (LR-LEASE-010 in `docs/product/LOCAL_RUNTIME_ACCEPTANCE.md`).
`SidecarFairSpec`: a launch that is not killed makes its next file-system call,
which an `await` does. `ImportFairSpec`: a run and a call under way go on.
`StorageFairSpec`: the task at the head of the queue takes its next step, whose
calls to the file system return or throw; nothing is assumed of the jobs. An
aborted capture ends, because the executor asks its signal between the calls of
an adapter and adapters bound what they start with timeouts
(`capture-execution/src/executor.ts`, `expo-maestro-adapter.ts`). No fairness is
put on the clock, on kills, on clients, or on the effect and commit parts, whose
callers are outside the runtime: nothing schedules a retry there, so no liveness
is claimed of them.

### Findings

1. The target rejects an attempt (`authority.ts:318`) before it answers from its
   ledger. A claim applied again after its lease was replaced is answered
   `not-applied` though the effect is there, and the command is recorded as
   failed. ADR 0010 reserves `not-applied` for what did not commit.
2. `acquireRuntimeLease` (`runtime-lease.ts:127`) removes whatever is at the path
   after it has read it, and takes a file that is still empty for no lease. Two
   overlapping starts both hold the lease.
3. `retainFailure` (`storage-budget-policy.ts:784`) removes the managed copy that
   the previous checkpoint names without looking whether its job is active again.
   A job fails and is retried; a second job fails while the first captures; the
   copy in which the first works is gone.
   `runtime-startup-recovery.ts:34` says that active jobs stay protected.

### Known divergences

Met while modelling. Those with a configuration beside the modules can be seen
with `tlc -config <file> <module>`; it is not part of the runs above.

* `MCLateRecorder.cfg` (MCCanvasEffect, `AppliedAwaitsCommit`): `recordUnknown`
  (`canvas-effect-store.ts:260`) recognises its latch by claim alone. A worker
  that is late with a failure moves the latch of an effect that recovery has
  bound already from `pending-commit` to `blocked-unknown`; neither commit nor
  recovery takes it from there. LR-REC-010 and -011 say that only verification
  follows.
* `MCRetryStages.cfg` (ImportCoordinator, `RetryCanFinish`): after its scenarios a
  run always advances from `extract-layers` (`import-coordinator.ts:1036`), but a
  retry puts the job back to the stage its scenario failed in (`retry.ts:59`). A
  scenario that failed in `extract-layers` can be retried and captured, and then
  the job fails at every attempt, since stages may not move backward. A crash
  between two of the last stages does the same to the job that is resumed.
* `MCPlanLost.cfg` (ImportCoordinator, `ResumableKeepsPlan`): `start` saves the
  job before its plan, with a wait between (`import-coordinator.ts:386`).
  Interrupted there, the job stays queued; cancelled by a client it is paused
  without a plan, and `recoverInterrupted` throws at the next start (line 627),
  so that the sidecar does not serve.
* `MCHarnessHosts.cfg` (MCHarness): with calls in two processes on one database,
  a run is changed between the check and the transaction of another call, and
  the updates do not ask whether they found their row: `RowFollowsLog`,
  `ApprovalsGate` and `OverIsOver` fail. `docs/PROGRAM_STATUS.md:71` says that process-race handling passes; the
  macOS shell starts one sidecar.
* `MCAskedTwice.cfg` (MCHarness, `ApprovalsGate`): whether a run still awaits an
  approval is a question about the id of its latest request
  (`#hasUnresolvedApproval`, `harness-lifecycle-store.ts:746`), and nothing refuses
  a signal with an approval id that was used before. An adapter that asks a
  second time under the id of an answered request is stopped at that request,
  and then resumed without a new answer, once it was paused.
* `MCUndoTwice.cfg` (MCCanvasJournal, `UndoIsPossible`): the inverse of an
  operation is only prepared while that operation is the one that made the
  document (`invertCanvasOperationV3`). After one undo that is the undo
  itself, so a second undo in a row is refused though the stack offers it.
  `docs/audits/MEMI_TARGET_EXPERIENCE.md:438` asks that every canvas operation be
  undoable.
* Storage: the managed copy of a plan is unprotected until `start` has the lock,
  and a collection that decided before the lock was acquired still removes it
  (the run then fails in its preparation). A finalization keeps the references
  it listed before its turn, and removes what another job stored and recorded
  meanwhile, which ADR 0014:38 rules out. When a finalization throws after the lock
  left `activeJobs`, the released lock stays in `#locks`, and a retry captures
  under it without protection. A preflight checks the budget and does not
  reserve, so two can pass on the same bytes.
* Harness: two handoffs of one run each give the child the whole remaining
  budget. A checkpoint id is a primary key over all runs: a second run whose
  adapter uses the same id (the demo adapter's `demo-checkpoint`) fails when it
  saves it. A run that was paused while it awaited approval can be neither
  approved nor resumed, only stopped.
* Journal: a commit that fails leaves the redo stack empty until the document is
  opened again. When the answer to an append is lost, its window is behind the
  journal and every commit of it is refused until it is opened again; when the
  answer to a checkpoint is lost, the window keeps stacks that a reload would not
  restore. An append that is sent again after a checkpoint is refused and not
  answered with its receipt.

## 4. Proofs

The theorems hold for every value of the constants, under the assumptions named
in the modules (`HolderAssumption`, `CommandAssumption`, `JournalAssumption`, ...:
bounds are naturals, ttls positive, `None` is nobody).

* **LeaseFenceProofs.** `FenceBacksLease` is not inductive: recording an answer
  is right only because of what answers under way say about the fence. `LeaseInv`
  adds that a call names the current lease or an older one (`CallsNameLeases`)
  and that an answer that is no rejection puts the fence at or past its epoch
  (`AnswersHold`). `FenceRises` follows from the type invariant.
* **CanvasEffectProofs.** `EffectInv` relates the four actors. The latch
  belongs to an open command, in a state of its phase (`LatchFollowsOutbox`); a
  claimed intent holds the latch under its latest epoch; an unclaimed one is
  not in the ledger; claims are never given twice (`ClaimsIssued`,
  `ClaimsDiffer`). The heart is `RecoveryKnows`: while the claim a recovery
  looks up is still the latest, that claim has run out or its latch has left
  `pending-fence`, so no call under it can apply any more, and "not found"
  stays true until the recovery records it. From it come `LiveClaimSafe`,
  `RetrySafe` and `AppliedKeepsReceipt`. `LeaseHolderWrites` also uses
  `LeaseInv`, which the pipeline keeps (`PipelineKeepsLease`).
* `FailedSafe` and `EffectsOnce` assume `~ Reapply`, and finding 1 shows why
  they must. They add `AnswersTrue`: a worker that has not got a positive
  answer under the latest claim has not applied. `EffectsOnce` is the refinement
  of `EffectOnce`: each step maps to one of its steps or to none.
* **SidecarLeaseProofs.** With launches that do not overlap (`~ Concurrent`,
  finding 2 shows the need), a launch that is about to remove a file has seen
  the file of a dead process, and nobody else can have replaced it since
  (`RemovesDead`); a launch that holds keeps its file (`KeepsFile`). `LeaseOwned`
  and `Exclusive` follow.

* **TraceCommitProofs.** `CommitInv` is the checked invariants together with what
  they rest on: a claim and an issued attempt name a command (`ClaimsAreReal`), an
  attempt was issued no later than now (`IssuedBefore`), a call that goes on has
  an attempt that was issued under its own claim, and evidence from after that
  (`CallHasAttempt`), and what is in the trace has its outbox row committed, so
  that it cannot be claimed again (`TraceIsCommitted`). `IssuedPending`,
  `EvidenceSound` and `ReceiptSound` follow, and `CommitsLogged` is the refinement
  of `CommitLog`.
* **ImportCoordinatorProofs.** One handler at a time has the thread (`OneThread`),
  and each handler that will still write the job knows a state that shuts out
  the others: a start and a boot are alone (`StartAlone`, `BootAlone`), a run and
  a call have the job in one of the states they check (`RunHasJob`,
  `CallHasJob`), and a snapshot is fresh only while the job is as it was read
  (`FreshIsReady`). From these come `CaptureLocked` and `OutcomesFinal`.
* **StorageBudgetProofs.** `StorageInv` says what three actors may assume of each
  other: a task in the queue of the lock of its job (`TasksFit`), an operation of a
  job of its lock and its row (`OpFits`), the task at the head of what it
  decided (`TurnFits`). `CollectionSpares` needs, beyond these, that a job whose copy
  the head may still delete does not capture under a lock (`Watched`, `KeepsOff`):
  it acquired its lock too late to be seen, so it still waits for its
  preflight. `CheckpointBacked` needs that no other failure waits in the queue
  while unreferenced artifacts are purged (`PurgeAlone`). `WaitersQueued`: a job
  waits exactly when one task of its own is in the queue; with `QueueMovesOn` and
  the order of the queue, nobody waits for a turn that never comes.
* **HarnessLifecycleProofs.** `HarnessTypes` needs no hypothesis: it holds for any
  hosts. `HarnessTypeInv` adds to the type invariant that a log and a script are
  sequences and what a call may have read at each place. The other three
  theorems are about one host (`OneHost`); `MCHarnessHosts.cfg` violates each
  of them otherwise. `SessionInv`: two calls are never both between their checks
  and their transaction (`OneCheck`), and a session about to write read a run
  that still runs (`WritersLive`); `OverInOneHost` follows.
  `RowFollowsLogInOneHost`: `FollowInv` says that no two sessions of a run are of
  one epoch (`OneSession`), that the session of the current epoch of a running
  run has heard as many signals as the cursor counts, and one more, which was
  checked against the row as it is, while it is about to accept that
  (`SessionOK`), and that a log adds up to its row (`Follows`). `ApprovalsGateInOneHost` also assumes that no adapter asks twice
  under one approval id (`AsksOnce`; `MCAskedTwice.cfg` is what happens if one
  does). `GateInv` strengthens the gate: each request has an id of its own and
  is the adapter's (`Asked`), a decision came after its request and is no
  rejection unless the run was stopped (`Decided`), no request but the latest is
  without an answer, and not that one either while the run is running
  (`Pending`); and a call that is about to resume a run has seen none
  unanswered, which is still so.
* **CanvasJournalProofs.** `JournalInv` states the chain link by link, from the
  snapshot to the last operation (`Chain`), that each request that is awaited fits
  the call of the one window that awaits it (`RequestsFit`), and that windows show
  documents of the chain (`WindowsFit`); `JournalIsOneChain` follows. For
  `HistoryIsRestored`, `HistoryInv` says that there is a set of operations that
  holds those of the log, of the requests and of every window (`Known`), in
  which numbers are unique and what undoes an operation is its inverse (`Kin`).
  Whatever part of it a window or the journal has since the last checkpoint
  restores a history of one shape (`HistoryOf`): what can be undone are the last
  edits of the document, and at most one operation can be redone, the one whose
  undoing made the document. One more operation made on that document
  leaves such a history. A window shows what it would restore, after a failed
  commit without the redo (`Settled`), or is one move ahead of it while it waits
  for an answer (`Ahead`); the answer makes the move true and a failure takes it
  back. `JournalTypes` is the rest of the same invariant.

What is computed over a log (`Tally`, `Restored`) is a recursive function of the
length of the log. That it is defined, and what one more event does to it, is
proved from the well-foundedness of the naturals, on sets: the lengths up to
which something fails have a least one (`LeastNat`, `EveryNat`).

Only model-checked: the four liveness properties (`RepeatedHandshakeActivates`,
`DiscardReturns`, `LoneStartClaims`, `QueueMovesOn`), since fairness is out of the prover's reach,
and `MCFailedRetry`, `MCTwoStarts` and `MCRefusedReplay`, which are
counterexamples. Every invariant and every action property of a passing run is a
theorem.

## 5. Not modelled, and why

`PROJECT.json` lists every component with its status. Left out for good: pure
I/O and external tools (capture adapters, native ports, RPC framing), which are
most of the repository's lines and keep no state between calls; stateless
compilation and parsing (discovery, product import, compilers, the document
engine), where the question is what a large record looks like and not what
happens in which order; schemas and digests (a hash is the identity of what it
hashes); the user interface. Of the modelled parts: integrity audits and corrupt
rows, migrations, clocks that go back, several canvas targets in one
schedule, byte counts of the storage budget, and size limits of the journal.

Parts with state of their own that have no module:

* **Command admission, trusted authority, legacy runner**: use limits, replays
  and reservations are each checked and written in one transaction. What is left
  is arithmetic over expiry times; a worthwhile module would need the trusted
  execution beside them.
* **Workspace sessions**: compare-and-save in one transaction; a module would
  restate it.
* **Import purge** and **startup recovery**: a resumable list of removals; hard
  only with several jobs, which `ImportCoordinator` does not have.
* **Source worktrees**: what Git leaves behind after a crash is the difficulty,
  and the code in `src/` says little of it.
* **Shell bridge, transport, pid reuse**: another process's behaviour; the kill of
  a sidecar is in `SidecarLease`.

## 6. Plan

What would be added next, in order of what matters:

1. Several jobs in `ImportCoordinator`, composed with `StorageBudget`, and the
   purge on top: interrupted purges, a dormant job whose plan is missing, clients
   that act on a job `start` has not answered yet.
2. **CommandAdmission** with grants, approvals and trusted reservations: a use is
   counted once per command, whatever is replayed.
3. **TargetSchedule**: several targets, to ask whether an expired claim on one
   starves the others.
4. **SourceWorktree**: crash between Git and database.
5. Theorems on several hosts of the harness, beyond its types, for what does hold
   there.
