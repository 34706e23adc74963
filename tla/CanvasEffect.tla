---------------------------- MODULE CanvasEffect ----------------------------
(***************************************************************************)
(* The durable effect pipeline of one canvas target: the outbox and the    *)
(* schedule latch in runtime SQLite (TargetScheduleStore,                  *)
(* CanvasEffectStore), the two-store protocol that applies a claimed       *)
(* effect and recovers an interrupted one (CanvasEffectCoordinator), and   *)
(* compare-and-apply with its idempotency ledger in target SQLite          *)
(* (CanvasTargetAuthority).  The lease and its fence come from LeaseFence  *)
(* and run concurrently.                                                   *)
(*                                                                         *)
(* A worker is one holder of a worker claim, a recoverer one call of       *)
(* reconcileNext; each database transaction is one action.  Target calls   *)
(* lie between two runtime transactions.                                   *)
(***************************************************************************)
EXTENDS LeaseFence

CONSTANTS
    NCommands,       \* the commands 1..NCommands, in outbox rowid order
    Base,            \* expectedBeforeHash: the command it is based on, or 0
    Imported,        \* the commands issued by "import-runtime"
    AuthorityUntil,  \* when the grant or the approval of a command expires
    Workers,         \* claim holders
    Recoverers,      \* calls of reconcileNext that may be in progress
    ClaimTTL,        \* claimTtlMilliseconds
    Freshness,       \* RECOVERY_EVIDENCE_FRESHNESS_MS
    Reapply,         \* may a claim holder repeat a call that was cut short?
    MaxEpoch,        \* bound of the claim epochs
    MaxChallenges    \* bound of the recovery challenges

Commands == 1..NCommands

ASSUME CommandAssumption ==
    /\ NCommands \in Nat
    /\ Base \in [Commands -> 0..NCommands]
    /\ \A c \in Commands : Base[c] # c
    /\ Imported \subseteq Commands
    /\ AuthorityUntil \in [Commands -> Nat]
ASSUME ClaimAssumption ==
    /\ None \notin Workers
    /\ ClaimTTL \in Nat \ {0}
    /\ Freshness \in Nat
    /\ Reapply \in BOOLEAN
    /\ MaxEpoch \in Nat
    /\ MaxChallenges \in Nat

VARIABLES
    outbox,      \* the outbox rows, with the worker claim on each
    bound,       \* the lease identity each command was submitted under
    latch,       \* the row of the target in target_schedule_latches
    challenges,  \* recovery challenges issued so far
    evidence,    \* target_recovery_evidence: the challenges answered
    ledger,      \* the target's idempotency ledger; claim 0: no entry
    document,    \* the target document: state hash and revision
    worker,      \* the claim holders and the calls they make
    recovery     \* the recoveries in progress

runtimeVars == <<outbox, bound, latch, challenges, evidence>>
targetVars == <<ledger, document>>
effectVars == <<runtimeVars, targetVars, worker, recovery>>
vars == <<leaseVars, effectVars>>

NoLatch == [command |-> 0, state |-> "none", claim |-> 0,
            challenge |-> 0, issued |-> 0]
NoEntry == [claim |-> 0, fence |-> 0, revision |-> 0]
IdleWorker == [step |-> "idle", command |-> 0, claim |-> 0, expires |-> 0,
               answer |-> "none"]
IdleRecovery == [step |-> "idle", command |-> 0, state |-> "none",
                 claim |-> 0, challenge |-> 0, issued |-> 0,
                 answer |-> "none"]

OutboxPhases == {"none", "intent", "effect-applied", "committed", "failed"}
LatchStates == {"none", "pending-fence", "blocked-unknown", "retry-ready",
                "pending-commit"}

LeaseIds == [holder : Holders \union {None}, epoch : Nat]
OutboxRows == [phase : OutboxPhases, worker : Workers \union {None},
               epoch : 0..MaxEpoch, expires : Nat]
LatchRows == [command : 0..NCommands, state : LatchStates,
              claim : 0..MaxEpoch, challenge : 0..MaxChallenges, issued : Nat]
LedgerEntries == [claim : 0..MaxEpoch, fence : Nat, revision : Nat]
Documents == [hash : 0..NCommands, revision : Nat]
WorkerCalls ==
    [step : {"idle", "claimed", "sent", "answered", "failing"},
     command : 0..NCommands, claim : 0..MaxEpoch, expires : Nat,
     answer : {"none", "applied", "replayed", "not-applied", "unknown"}]
RecoveryCalls ==
    [step : {"idle", "challenged", "answered"}, command : 0..NCommands,
     state : {"none", "pending-fence", "blocked-unknown"},
     claim : 0..MaxEpoch, challenge : 0..MaxChallenges, issued : Nat,
     answer : {"none", "found", "not-found", "other"}]

TypeOK ==
    /\ LeaseTypeOK
    /\ outbox \in [Commands -> OutboxRows]
    /\ bound \in [Commands -> LeaseIds]
    /\ latch \in LatchRows
    /\ challenges \in 0..MaxChallenges
    /\ evidence \subseteq 0..MaxChallenges
    /\ ledger \in [Commands -> LedgerEntries]
    /\ document \in Documents
    /\ worker \in [Workers -> WorkerCalls]
    /\ recovery \in [Recoverers -> RecoveryCalls]

Init ==
    /\ LeaseInit
    /\ outbox = [c \in Commands |->
          [phase |-> "none", worker |-> None, epoch |-> 0, expires |-> 0]]
    /\ bound = [c \in Commands |-> NoFence]
    /\ latch = NoLatch
    /\ challenges = 0
    /\ evidence = {}
    /\ ledger = [c \in Commands |-> NoEntry]
    /\ document = [hash |-> 0, revision |-> 0]
    /\ worker = [w \in Workers |-> IdleWorker]
    /\ recovery = [r \in Recoverers |-> IdleRecovery]

-----------------------------------------------------------------------------
(* Scheduling: which command the one latch of the target is taken for.     *)

\* submitCommand: the client binds the lease it reads; its outbox row comes
\* after every earlier one.  An idempotent replay changes nothing.
Submit(c) ==
    /\ outbox[c].phase = "none"
    /\ \A d \in 1..(c - 1) : outbox[d].phase # "none"
    /\ lease.epoch > 0
    /\ outbox' = [outbox EXCEPT ![c].phase = "intent"]
    /\ bound' = [bound EXCEPT
                   ![c] = [holder |-> lease.holder, epoch |-> lease.epoch]]
    /\ UNCHANGED <<leaseVars, latch, challenges, evidence, targetVars,
                   worker, recovery>>

Intent(c) == outbox[c].phase = "intent"
Claimable(c) == outbox[c].worker = None \/ outbox[c].expires <= now

\* Mutant: the latch of the target is not asked for.
LatchIgnored(c) == latch.command \in 0..NCommands

LatchAdmits(c) == latch.command \in {0, c}

\* nextCandidate: an import never goes this way, a local command waits behind
\* an earlier import, and a latch held blocked keeps the target shut.
ScheduleReady(c) ==
    /\ Intent(c)
    /\ c \notin Imported
    /\ ~ \E d \in Imported : d < c /\ Intent(d)
    /\ Claimable(c)
    /\ LatchAdmits(c)
    /\ ~ (latch.command = c /\ latch.state = "blocked-unknown")

NextCandidate(c) ==
    /\ ScheduleReady(c)
    /\ \A d \in Commands : ScheduleReady(d) => c <= d

\* exactCandidate: the trusted path names its command; nothing earlier waits.
ExactCandidate(c) ==
    /\ Intent(c)
    /\ Claimable(c)
    /\ LatchAdmits(c)
    /\ ~ \E d \in 1..(c - 1) : Intent(d)
    /\ ~ (latch.command = c /\ latch.state = "blocked-unknown")

\* TargetScheduleStore.claim.  A candidate that already had a worker is left
\* to recovery: claimNextEffect returns null, the exact path reconciles first.
Claim(w, c) ==
    /\ worker[w].step = "idle"
    /\ NextCandidate(c) \/ ExactCandidate(c)
    /\ outbox[c].worker = None
    /\ outbox[c].epoch < MaxEpoch
    /\ LET epoch == outbox[c].epoch + 1 IN
       /\ outbox' = [outbox EXCEPT ![c] =
                       [phase |-> "intent", worker |-> w, epoch |-> epoch,
                        expires |-> now + ClaimTTL]]
       /\ latch' = [command |-> c, state |-> "pending-fence",
                    claim |-> epoch, challenge |-> 0, issued |-> 0]
       /\ worker' = [worker EXCEPT ![w] =
                       [step |-> "claimed", command |-> c, claim |-> epoch,
                        expires |-> now + ClaimTTL, answer |-> "none"]]
    /\ UNCHANGED <<leaseVars, bound, challenges, evidence, targetVars,
                   recovery>>

-----------------------------------------------------------------------------
(* CanvasEffectCoordinator.apply: prepare, the target call, the record.    *)

\* CanvasEffectStore.#assertClaim
ClaimHeld(w) ==
    LET c == worker[w].command IN
    /\ Intent(c)
    /\ outbox[c].worker = w
    /\ outbox[c].epoch = worker[w].claim
    /\ outbox[c].expires = worker[w].expires
    /\ now < worker[w].expires

\* Mutant: the latch is recognised by its outbox alone.
NamesLatch(w) == latch.command = worker[w].command

OwnsLatch(w) ==
    latch.command = worker[w].command /\ latch.claim = worker[w].claim

\* A refusal here throws before anything is written: the caller may try again.
Prepare(w) ==
    /\ worker[w].step = "claimed"
    /\ ClaimHeld(w)
    /\ now < AuthorityUntil[worker[w].command]
    /\ Asserted(bound[worker[w].command].holder, bound[worker[w].command].epoch)
    /\ OwnsLatch(w) /\ latch.state = "pending-fence"
    /\ worker' = [worker EXCEPT ![w].step = "sent"]
    /\ UNCHANGED <<leaseVars, runtimeVars, targetVars, recovery>>

\* Mutant: the target does not compare its fence.
AttemptOutdated(w) == worker[w].expires <= now

\* #rejectedAttempt: the claim has run out at the target, or the target's
\* fence is not the lease the command is bound to.
AttemptRejected(w) ==
    worker[w].expires <= now \/ fence # bound[worker[w].command]

InLedger(c) == ledger[c].claim > 0

CallAt(w, step, answer) ==
    [worker[w] EXCEPT !.step = step, !.answer = answer]

\* The target's answer reaches the worker, or the acknowledgement is lost.
Answered(w, answer) ==
    worker' = [worker EXCEPT ![w] = CallAt(w, "answered", answer)]

\* Mutant: a call that threw is answered "not-applied".
TargetAppliesOrThrows(w) ==
    LET c == worker[w].command IN
    /\ worker[w].step = "sent"
    /\ ~ InLedger(c) /\ ~ AttemptRejected(w) /\ document.hash = Base[c]
    /\ document' = [hash |-> c, revision |-> document.revision + 1]
    /\ ledger' = [ledger EXCEPT ![c] =
                    [claim |-> worker[w].claim, fence |-> bound[c].epoch,
                     revision |-> document.revision + 1]]
    /\ Answered(w, "applied") \/ Answered(w, "not-applied")
    /\ UNCHANGED <<leaseVars, runtimeVars, recovery>>

TargetApplies(w) ==
    LET c == worker[w].command IN
    /\ worker[w].step = "sent"
    /\ ~ InLedger(c)
    /\ ~ AttemptRejected(w)
    /\ document.hash = Base[c]
    /\ document' = [hash |-> c, revision |-> document.revision + 1]
    /\ ledger' = [ledger EXCEPT ![c] =
                    [claim |-> worker[w].claim, fence |-> bound[c].epoch,
                     revision |-> document.revision + 1]]
    /\ Answered(w, "applied") \/ Answered(w, "unknown")
    /\ UNCHANGED <<leaseVars, runtimeVars, recovery>>

TargetReplays(w) ==
    /\ worker[w].step = "sent"
    /\ InLedger(worker[w].command)
    /\ ~ AttemptRejected(w)
    /\ Answered(w, "replayed")
    /\ UNCHANGED <<leaseVars, runtimeVars, targetVars, recovery>>

\* "not-applied".  The attempt is rejected whether or not the ledger already
\* has the command.  When it has not, the baseline may differ, and where it
\* does not, the operation or the request may be one the target cannot take.
TargetRefuses(w) ==
    /\ worker[w].step = "sent"
    /\ AttemptRejected(w) \/ ~ InLedger(worker[w].command)
    /\ Answered(w, "not-applied")
    /\ UNCHANGED <<leaseVars, runtimeVars, targetVars, recovery>>

\* Closed, or the transaction threw and rolled back: "outcome-unknown".
TargetFails(w) ==
    /\ worker[w].step = "sent"
    /\ Answered(w, "unknown")
    /\ UNCHANGED <<leaseVars, runtimeVars, targetVars, recovery>>

Done(w) == worker' = [worker EXCEPT ![w] = IdleWorker]

\* The receipt carries the claim it was applied under and must be this one's.
ReceiptExact(w) ==
    /\ worker[w].answer \in {"applied", "replayed"}
    /\ ledger[worker[w].command].claim = worker[w].claim

\* The row of a command whose worker claim is over; its epoch stays.
Unclaimed(c, phase) ==
    [phase |-> phase, worker |-> None, epoch |-> outbox[c].epoch,
     expires |-> 0]

\* The latch in another state, with its pending challenge cleared.
Moved(state, claim) ==
    [command |-> latch.command, state |-> state, claim |-> claim,
     challenge |-> 0, issued |-> 0]

\* Mutant: the latch lets go of the claim, as a release does.
EffectAppliedUnclaimed(c) ==
    /\ outbox' = [outbox EXCEPT ![c] = Unclaimed(c, "effect-applied")]
    /\ latch' = Moved("pending-commit", 0)

\* The write shared by recordApplied and recordRecoveredApplied.
EffectApplied(c) ==
    /\ outbox' = [outbox EXCEPT ![c] = Unclaimed(c, "effect-applied")]
    /\ latch' = Moved("pending-commit", latch.claim)

RecordApplied(w) ==
    /\ worker[w].step = "answered"
    /\ ReceiptExact(w)
    /\ ClaimHeld(w) /\ OwnsLatch(w)
    /\ EffectApplied(worker[w].command)
    /\ Done(w)
    /\ UNCHANGED <<leaseVars, bound, challenges, evidence, targetVars,
                   recovery>>

\* recordApplied throws and rolls back; recordUnknown is a second transaction.
RecordAppliedThrows(w) ==
    /\ worker[w].step = "answered"
    /\ worker[w].answer \in {"applied", "replayed"}
    /\ ~ (ReceiptExact(w) /\ ClaimHeld(w) /\ OwnsLatch(w))
    /\ worker' = [worker EXCEPT ![w].step = "failing"]
    /\ UNCHANGED <<leaseVars, runtimeVars, targetVars, recovery>>

\* A stale claim makes recordNotApplied throw, and nothing is recorded.
RecordNotApplied(w) ==
    LET c == worker[w].command IN
    /\ worker[w].step = "answered"
    /\ worker[w].answer = "not-applied"
    /\ IF ClaimHeld(w)
       THEN /\ outbox' = [outbox EXCEPT ![c] = Unclaimed(c, "failed")]
            /\ latch' = IF latch.command = c THEN NoLatch ELSE latch
       ELSE UNCHANGED <<outbox, latch>>
    /\ Done(w)
    /\ UNCHANGED <<leaseVars, bound, challenges, evidence, targetVars,
                   recovery>>

\* Mutant: the adapter's status is written where the latch state belongs.
RecordUnknownStatus(w) ==
    /\ \/ worker[w].step = "failing"
       \/ worker[w].step = "answered" /\ worker[w].answer = "unknown"
    /\ latch' = Moved("outcome-unknown", latch.claim)
    /\ Done(w)
    /\ UNCHANGED <<leaseVars, outbox, bound, challenges, evidence,
                   targetVars, recovery>>

\* The update names the outbox and the claim, and no state of either: the
\* claim need not be held any more, nor the command still be an intent.
RecordUnknown(w) ==
    /\ \/ worker[w].step = "failing"
       \/ worker[w].step = "answered" /\ worker[w].answer = "unknown"
    /\ latch' = IF OwnsLatch(w) THEN Moved("blocked-unknown", latch.claim)
                ELSE latch
    /\ Done(w)
    /\ UNCHANGED <<leaseVars, outbox, bound, challenges, evidence,
                   targetVars, recovery>>

\* The worker dies and its target call with it.  What it had not recorded is
\* lost; a holder that still has its claim may call again under it.
WorkerCrash(w) ==
    /\ worker[w].step # "idle"
    /\ \/ Done(w)
       \/ /\ Reapply
          /\ worker' = [worker EXCEPT ![w] = CallAt(w, "claimed", "none")]
    /\ UNCHANGED <<leaseVars, runtimeVars, targetVars, recovery>>

-----------------------------------------------------------------------------
(* CanvasEffectCoordinator.reconcileNext.                                  *)

\* Mutant: a claim that has not run out is recovered too.
RecoverableEarly(c) == latch.state \in {"blocked-unknown", "pending-fence"}

Recoverable(c) ==
    \/ latch.state = "blocked-unknown"
    \/ latch.state = "pending-fence" /\ outbox[c].expires <= now

\* nextRecovery picks the latched command of the target when its outcome is
\* unknown or its claim ran out, and persists the challenge it will answer.
\* A pending challenge still fresh is used again.
NextRecovery(r) ==
    LET c == latch.command
        reusable == latch.challenge > 0 /\ now - latch.issued <= Freshness
        challenge == IF reusable THEN latch.challenge ELSE challenges + 1
        issued == IF reusable THEN latch.issued ELSE now
    IN
    /\ recovery[r].step = "idle"
    /\ c # 0 /\ Intent(c) /\ Recoverable(c)
    /\ challenge <= MaxChallenges
    /\ challenges' = IF reusable THEN challenges ELSE challenge
    /\ latch' = [latch EXCEPT !.challenge = challenge, !.issued = issued]
    /\ recovery' = [recovery EXCEPT ![r] =
                      [step |-> "challenged", command |-> c,
                       state |-> latch.state, claim |-> latch.claim,
                       challenge |-> challenge, issued |-> issued,
                       answer |-> "none"]]
    /\ UNCHANGED <<leaseVars, outbox, bound, evidence, targetVars, worker>>

\* lookupTrusted reads document and ledger in one snapshot.  A receipt whose
\* result is no longer the document, and a changed document without one, are
\* mismatches; like an unavailable target they come back as "other".
LookupAnswer(c) ==
    IF InLedger(c) /\ document.hash = c THEN "found"
    ELSE IF ~ InLedger(c) /\ document.hash = Base[c] THEN "not-found"
    ELSE "other"

Lookup(r) ==
    /\ recovery[r].step = "challenged"
    /\ \E answer \in {LookupAnswer(recovery[r].command), "other"} :
          recovery' = [recovery EXCEPT
                ![r] = [@ EXCEPT !.step = "answered", !.answer = answer]]
    /\ UNCHANGED <<leaseVars, runtimeVars, targetVars, worker>>

\* #assertRecovery: the latch is as the recovery found it.  Its evidence row
\* is keyed by the challenge, so a challenge is answered once.
RecoveryHeld(r) ==
    /\ latch.command = recovery[r].command
    /\ latch.state = recovery[r].state
    /\ latch.claim = recovery[r].claim
    /\ recovery[r].challenge \notin evidence

Fresh(r) == now - recovery[r].issued <= Freshness

FoundExact(r) ==
    /\ recovery[r].answer = "found"
    /\ ledger[recovery[r].command].claim = recovery[r].claim

RecordEvidence(r) ==
    /\ recovery[r].step = "answered"
    /\ RecoveryHeld(r)
    /\ evidence' = evidence \union {recovery[r].challenge}
    /\ recovery' = [recovery EXCEPT ![r] = IdleRecovery]

\* The receipt row is keyed by the command, so this happens to an intent only.
RecordRecoveredApplied(r) ==
    /\ RecordEvidence(r)
    /\ Fresh(r)
    /\ FoundExact(r)
    /\ Intent(recovery[r].command)
    /\ EffectApplied(recovery[r].command)
    /\ UNCHANGED <<leaseVars, bound, challenges, targetVars, worker>>

ReleaseVerifiedNotApplied(r) ==
    /\ RecordEvidence(r)
    /\ Fresh(r)
    /\ recovery[r].answer = "not-found"
    /\ outbox' = [outbox EXCEPT ![recovery[r].command] =
                     Unclaimed(recovery[r].command,
                               outbox[recovery[r].command].phase)]
    /\ latch' = Moved("retry-ready", 0)
    /\ UNCHANGED <<leaseVars, bound, challenges, targetVars, worker>>

\* recordRejectedEvidence and recordBlockedEvidence: an answer too old, not
\* exact, or neither found nor not-found keeps the target shut.
RecordBlockedEvidence(r) ==
    /\ RecordEvidence(r)
    /\ ~ (Fresh(r) /\ (FoundExact(r) \/ recovery[r].answer = "not-found"))
    /\ latch' = Moved("blocked-unknown", latch.claim)
    /\ UNCHANGED <<leaseVars, outbox, bound, challenges, targetVars, worker>>

\* The recovery throws without writing, or its process dies.
RecoveryEnds(r) ==
    /\ recovery[r].step # "idle"
    /\ recovery' = [recovery EXCEPT ![r] = IdleRecovery]
    /\ UNCHANGED <<leaseVars, runtimeVars, targetVars, worker>>

-----------------------------------------------------------------------------
\* Commit as this component sees it: one command with its exact receipt, on a
\* latch pending commit, verified at the target under a live lease.  The
\* claim, the verification attempts and the trace are TraceCommit's.
VerifyAndCommit(c) ==
    /\ outbox[c].phase = "effect-applied"
    /\ latch.command = c /\ latch.state = "pending-commit"
    /\ latch.claim = ledger[c].claim
    /\ Asserted(bound[c].holder, bound[c].epoch)
    /\ InLedger(c) /\ document.hash = c
    /\ outbox' = [outbox EXCEPT ![c].phase = "committed"]
    /\ latch' = NoLatch
    /\ UNCHANGED <<leaseVars, bound, challenges, evidence, targetVars,
                   worker, recovery>>

Apply(w) ==
    \/ Prepare(w)
    \/ TargetApplies(w)
    \/ TargetReplays(w)
    \/ TargetRefuses(w)
    \/ TargetFails(w)
    \/ RecordApplied(w)
    \/ RecordAppliedThrows(w)
    \/ RecordNotApplied(w)
    \/ RecordUnknown(w)

Reconcile(r) ==
    \/ NextRecovery(r)
    \/ Lookup(r)
    \/ RecordRecoveredApplied(r)
    \/ ReleaseVerifiedNotApplied(r)
    \/ RecordBlockedEvidence(r)

Next ==
    \/ LeaseNext /\ UNCHANGED effectVars
    \/ \E c \in Commands : Submit(c) \/ VerifyAndCommit(c)
    \/ \E w \in Workers, c \in Commands : Claim(w, c)
    \/ \E w \in Workers : Apply(w) \/ WorkerCrash(w)
    \/ \E r \in Recoverers : Reconcile(r) \/ RecoveryEnds(r)

Spec == Init /\ [][Next]_vars

-----------------------------------------------------------------------------
(* Properties.                                                             *)

\* A command reported failed has not changed the document: "Only not-applied
\* may produce a definite pre-effect failure" (ADR 0010), whichever worker,
\* recovery or replacement lease came in between.
FailedNeverApplied ==
    \A c \in Commands : outbox[c].phase = "failed" => ~ InLedger(c)

\* A command handed out for a first claim or a retry has not been applied, and
\* nobody is left who could still apply it (releaseVerifiedNotApplied, claim).
RetryOnlyUnapplied ==
    \A c \in Commands : Intent(c) /\ outbox[c].worker = None =>
        /\ ~ InLedger(c)
        /\ \A w \in Workers : worker[w].step = "sent" /\ worker[w].command = c
                                => worker[w].expires <= now

\* A claim that has not run out keeps the target: while its holder is at work
\* the command is its intent and the latch is its own, pending its fence, so
\* neither recovery nor another command gets in between.
LiveClaimKeepsTarget ==
    \A w \in Workers : worker[w].step # "idle" /\ now < worker[w].expires =>
        ClaimHeld(w) /\ OwnsLatch(w) /\ latch.state = "pending-fence"

\* An applied effect waits for its commit on the latch of its target, under
\* the claim its receipt names: what loadAuthority of the commit requires.
AppliedKeepsReceiptClaim ==
    \A c \in Commands : outbox[c].phase = "effect-applied" =>
        /\ InLedger(c)
        /\ latch.command = c
        /\ latch.claim = ledger[c].claim

\* Only the holder of the lease writes: once the runtime calls a lease
\* activated or active, the document changes by commands bound to it and to no
\* older one, however late an old writer's call arrives (LR-LEASE-006).
OnlyTheLeaseHolderWrites ==
    [][document' # document /\ lease.phase \in {"target-activated", "active"}
         => bound[document'.hash] =
              [holder |-> lease.holder, epoch |-> lease.epoch]]_vars

\* The pipeline keeps the promise of EffectOnce.
Promise == INSTANCE EffectOnce WITH
    effect <- [c \in Commands |->
                 IF outbox[c].phase \in {"failed", "committed"}
                 THEN outbox[c].phase
                 ELSE IF InLedger(c) THEN "applied" ELSE "open"],
    head <- document.hash

EffectsHappenOnce == Promise!Spec

\* "Existing result reconciled ... only trusted verification runs next"
\* (LR-REC-010): whoever recorded it, an applied effect can be claimed for
\* verification and commit.
AppliedAwaitsCommit ==
    \A c \in Commands : outbox[c].phase = "effect-applied" =>
        latch.command = c /\ latch.state = "pending-commit"
=============================================================================
