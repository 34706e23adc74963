------------------------- MODULE CanvasEffectProofs -------------------------
(***************************************************************************)
(* Type correctness and the safety properties of CanvasEffect, for every   *)
(* number of commands, workers, recoverers, callers and holders, every     *)
(* ttl and every bound.                                                    *)
(***************************************************************************)
EXTENDS CanvasEffect, LeaseFenceProofs

-----------------------------------------------------------------------------
(* Type correctness.                                                       *)

\* The empty rows are rows.
LEMMA EmptyRows ==
    /\ NoLatch \in LatchRows
    /\ NoEntry \in LedgerEntries
    /\ NoFence \in LeaseIds
    /\ IdleWorker \in WorkerCalls
    /\ IdleRecovery \in RecoveryCalls
BY CommandAssumption, ClaimAssumption
   DEF NoLatch, LatchRows, LatchStates, NoEntry, LedgerEntries, NoFence,
       LeaseIds, IdleWorker, WorkerCalls, IdleRecovery, RecoveryCalls

\* The empty stores have the types of the schema.
LEMMA TypeInit == Init => TypeOK
<1> SUFFICES ASSUME Init PROVE TypeOK
  OBVIOUS
<1>1. LeaseTypeOK
  BY LeaseInitInv DEF Init, LeaseInv
<1>2. outbox \in [Commands -> OutboxRows]
  BY ClaimAssumption DEF Init, OutboxRows, OutboxPhases
<1>3. document \in Documents
  BY CommandAssumption DEF Init, Documents
<1>4. QED
  BY <1>1, <1>2, <1>3, EmptyRows, ClaimAssumption DEF Init, TypeOK

\* A step of the lease, or none at all, keeps the types of every variable.
LEMMA TypeLeaseStep ==
    ASSUME TypeOK, [LeaseNext]_leaseVars, UNCHANGED effectVars
    PROVE  TypeOK'
<1>1. LeaseTypeOK'
  BY LeaseTypeStep DEF TypeOK
<1>2. QED
  BY <1>1 DEF TypeOK, effectVars, runtimeVars, targetVars

\* A step of the pipeline leaves the lease and its clock alone.
LEMMA LeaseUntouched ==
    ASSUME TypeOK, UNCHANGED leaseVars
    PROVE  LeaseTypeOK'
BY LeaseTypeStep DEF TypeOK, leaseVars

\* Submission keeps the types.
LEMMA TypeSubmit ==
    ASSUME TypeOK, NEW c \in Commands, Submit(c)
    PROVE  TypeOK'
<1>1. LeaseTypeOK'
  BY LeaseUntouched DEF Submit
<1>2. outbox' \in [Commands -> OutboxRows]
  BY DEF Submit, TypeOK, OutboxRows, OutboxPhases
<1>3. bound' \in [Commands -> LeaseIds]
  BY DEF Submit, TypeOK, LeaseTypeOK, LeaseIds
<1>4. QED
  BY <1>1, <1>2, <1>3 DEF Submit, TypeOK, targetVars

\* A claim keeps the types.
LEMMA TypeClaim ==
    ASSUME TypeOK, NEW w \in Workers, NEW c \in Commands, Claim(w, c)
    PROVE  TypeOK'
<1>1. LeaseTypeOK'
  BY LeaseUntouched DEF Claim
<1>2. /\ now + ClaimTTL \in Nat
      /\ outbox[c].epoch + 1 \in 0..MaxEpoch
  BY ClaimAssumption DEF Claim, TypeOK, LeaseTypeOK, OutboxRows
<1>3. outbox' \in [Commands -> OutboxRows]
  BY <1>2 DEF Claim, TypeOK, OutboxRows, OutboxPhases
<1>4. latch' \in LatchRows
  BY <1>2, CommandAssumption, ClaimAssumption
     DEF Claim, LatchRows, LatchStates, Commands
<1>5. worker' \in [Workers -> WorkerCalls]
  BY <1>2, CommandAssumption DEF Claim, TypeOK, WorkerCalls, Commands
<1>6. QED
  BY <1>1, <1>3, <1>4, <1>5 DEF Claim, TypeOK, targetVars

\* A commit keeps the types.
LEMMA TypeCommit ==
    ASSUME TypeOK, NEW c \in Commands, VerifyAndCommit(c)
    PROVE  TypeOK'
<1>1. LeaseTypeOK'
  BY LeaseUntouched DEF VerifyAndCommit
<1>2. outbox' \in [Commands -> OutboxRows]
  BY DEF VerifyAndCommit, TypeOK, OutboxRows, OutboxPhases
<1>3. QED
  BY <1>1, <1>2, EmptyRows DEF VerifyAndCommit, TypeOK, targetVars

\* What a worker writes of its own call.
LEMMA TypeWorker ==
    ASSUME TypeOK, NEW w \in Workers,
           NEW step \in {"claimed", "sent", "answered", "failing"},
           NEW answer \in {"none", "applied", "replayed", "not-applied",
                           "unknown"}
    PROVE  /\ [worker EXCEPT ![w].step = step] \in [Workers -> WorkerCalls]
           /\ [worker EXCEPT ![w] = CallAt(w, step, answer)]
                 \in [Workers -> WorkerCalls]
           /\ [worker EXCEPT ![w] = IdleWorker] \in [Workers -> WorkerCalls]
<1>1. /\ [worker[w] EXCEPT !.step = step] \in WorkerCalls
      /\ CallAt(w, step, answer) \in WorkerCalls
  BY DEF TypeOK, WorkerCalls, CallAt
<1>2. QED
  BY <1>1, EmptyRows DEF TypeOK

\* An answer keeps the type of the call.
LEMMA TypeAnswered ==
    ASSUME TypeOK, NEW w \in Workers,
           NEW answer \in {"none", "applied", "replayed", "not-applied",
                           "unknown"},
           Answered(w, answer)
    PROVE  worker' \in [Workers -> WorkerCalls]
BY TypeWorker DEF Answered

\* What a store writes of an outbox row and of the latch.
LEMMA TypeRows ==
    ASSUME TypeOK
    PROVE  /\ \A c \in Commands, phase \in OutboxPhases :
                 Unclaimed(c, phase) \in OutboxRows
           /\ \A state \in LatchStates :
                 /\ Moved(state, latch.claim) \in LatchRows
                 /\ Moved(state, 0) \in LatchRows
<1>1. ASSUME NEW c \in Commands, NEW phase \in OutboxPhases
      PROVE  Unclaimed(c, phase) \in OutboxRows
  BY DEF TypeOK, Unclaimed, OutboxRows
<1>2. ASSUME NEW state \in LatchStates
      PROVE  /\ Moved(state, latch.claim) \in LatchRows
             /\ Moved(state, 0) \in LatchRows
  BY ClaimAssumption DEF TypeOK, Moved, LatchRows
<1>3. QED
  BY <1>1, <1>2

\* The write of an applied effect keeps the types of its two rows.
LEMMA TypeEffectApplied ==
    ASSUME TypeOK, NEW c \in Commands, EffectApplied(c)
    PROVE  outbox' \in [Commands -> OutboxRows] /\ latch' \in LatchRows
<1>1. outbox' \in [Commands -> OutboxRows]
  BY TypeRows DEF EffectApplied, TypeOK, OutboxPhases
<1>2. latch' \in LatchRows
  BY TypeRows DEF EffectApplied, LatchStates
<1>3. QED
  BY <1>1, <1>2

\* The target's transaction keeps the types of its two stores.
LEMMA TypeTargetApplies ==
    ASSUME TypeOK, NEW w \in Workers, TargetApplies(w),
           worker[w].command \in Commands
    PROVE  TypeOK'
<1> DEFINE c == worker[w].command
<1>1. LeaseTypeOK'
  BY LeaseUntouched DEF TargetApplies
<1>2. document' \in Documents
  BY CommandAssumption DEF TargetApplies, TypeOK, Documents, Commands
<1>3. [claim |-> worker[w].claim, fence |-> bound[c].epoch,
       revision |-> document.revision + 1] \in LedgerEntries
  BY DEF TypeOK, LedgerEntries, WorkerCalls, LeaseIds, Documents
<1>4. ledger' \in [Commands -> LedgerEntries]
  BY <1>3 DEF TargetApplies, TypeOK
<1>5. worker' \in [Workers -> WorkerCalls]
  <2>1. Answered(w, "applied") \/ Answered(w, "unknown")
    BY DEF TargetApplies
  <2>2. QED
    BY <2>1, TypeAnswered
<1>6. QED
  BY <1>1, <1>2, <1>4, <1>5 DEF TargetApplies, TypeOK, runtimeVars

\* Every other step of a worker keeps the types.
LEMMA TypeApply ==
    ASSUME TypeOK, NEW w \in Workers, Apply(w) \/ WorkerCrash(w),
           worker[w].step # "idle" => worker[w].command \in Commands
    PROVE  TypeOK'
<1>1. CASE Prepare(w)
  <2>1. LeaseTypeOK'
    BY <1>1, LeaseUntouched DEF Prepare
  <2>2. worker' \in [Workers -> WorkerCalls]
    BY <1>1, TypeWorker DEF Prepare
  <2>3. QED
    BY <1>1, <2>1, <2>2 DEF Prepare, TypeOK, runtimeVars, targetVars
<1>2. CASE TargetApplies(w)
  BY <1>2, TypeTargetApplies DEF TargetApplies
<1>3. CASE TargetReplays(w) \/ TargetRefuses(w) \/ TargetFails(w)
  <2>1. LeaseTypeOK'
    BY <1>3, LeaseUntouched DEF TargetReplays, TargetRefuses, TargetFails
  <2>2. worker' \in [Workers -> WorkerCalls]
    <3>1. \/ Answered(w, "replayed")
          \/ Answered(w, "not-applied")
          \/ Answered(w, "unknown")
      BY <1>3 DEF TargetReplays, TargetRefuses, TargetFails
    <3>2. QED
      BY <3>1, TypeAnswered
  <2>3. QED
    BY <1>3, <2>1, <2>2 DEF TargetReplays, TargetRefuses, TargetFails,
                            TypeOK, runtimeVars, targetVars
<1>4. CASE RecordApplied(w)
  <2>1. LeaseTypeOK'
    BY <1>4, LeaseUntouched DEF RecordApplied
  <2>2. outbox' \in [Commands -> OutboxRows] /\ latch' \in LatchRows
    BY <1>4, TypeEffectApplied DEF RecordApplied
  <2>3. worker' \in [Workers -> WorkerCalls]
    BY <1>4, TypeWorker DEF RecordApplied, Done
  <2>4. QED
    BY <1>4, <2>1, <2>2, <2>3 DEF RecordApplied, TypeOK, targetVars
<1>5. CASE RecordAppliedThrows(w)
  <2>1. LeaseTypeOK'
    BY <1>5, LeaseUntouched DEF RecordAppliedThrows
  <2>2. worker' \in [Workers -> WorkerCalls]
    BY <1>5, TypeWorker DEF RecordAppliedThrows
  <2>3. QED
    BY <1>5, <2>1, <2>2 DEF RecordAppliedThrows, TypeOK, runtimeVars,
                            targetVars
<1>6. CASE RecordNotApplied(w)
  <2>1. LeaseTypeOK'
    BY <1>6, LeaseUntouched DEF RecordNotApplied
  <2>2. outbox' \in [Commands -> OutboxRows]
    BY <1>6, TypeRows DEF RecordNotApplied, TypeOK, OutboxPhases
  <2>3. latch' \in LatchRows
    BY <1>6, EmptyRows DEF RecordNotApplied, TypeOK
  <2>4. worker' \in [Workers -> WorkerCalls]
    BY <1>6, TypeWorker DEF RecordNotApplied, Done
  <2>5. QED
    BY <1>6, <2>1, <2>2, <2>3, <2>4 DEF RecordNotApplied, TypeOK, targetVars
<1>7. CASE RecordUnknown(w)
  <2>1. LeaseTypeOK'
    BY <1>7, LeaseUntouched DEF RecordUnknown
  <2>2. latch' \in LatchRows
    BY <1>7, TypeRows DEF RecordUnknown, TypeOK, LatchStates
  <2>3. worker' \in [Workers -> WorkerCalls]
    BY <1>7, TypeWorker DEF RecordUnknown, Done
  <2>4. QED
    BY <1>7, <2>1, <2>2, <2>3 DEF RecordUnknown, TypeOK, targetVars
<1>8. CASE WorkerCrash(w)
  <2>1. LeaseTypeOK'
    BY <1>8, LeaseUntouched DEF WorkerCrash
  <2>2. worker' \in [Workers -> WorkerCalls]
    <3>1. \/ worker' = [worker EXCEPT ![w] = IdleWorker]
          \/ worker' = [worker EXCEPT ![w] = CallAt(w, "claimed", "none")]
      BY <1>8 DEF WorkerCrash, Done
    <3>2. CallAt(w, "claimed", "none") \in WorkerCalls
      BY DEF CallAt, TypeOK, WorkerCalls
    <3>3. QED
      BY <3>1, <3>2, EmptyRows DEF TypeOK
  <2>3. QED
    BY <1>8, <2>1, <2>2 DEF WorkerCrash, TypeOK, runtimeVars, targetVars
<1>9. QED
  BY <1>1, <1>2, <1>3, <1>4, <1>5, <1>6, <1>7, <1>8 DEF Apply

\* What a recovery writes of its own call.
LEMMA TypeRecovery ==
    ASSUME TypeOK, NEW r \in Recoverers, NEW call1 \in RecoveryCalls
    PROVE  [recovery EXCEPT ![r] = call1] \in [Recoverers -> RecoveryCalls]
BY DEF TypeOK

\* Every step of a recovery keeps the types.
LEMMA TypeReconcile ==
    ASSUME TypeOK, NEW r \in Recoverers, Reconcile(r) \/ RecoveryEnds(r),
           recovery[r].step # "idle" => recovery[r].command \in Commands
    PROVE  TypeOK'
<1>1. CASE NextRecovery(r)
  <2> DEFINE reusable ==
               latch.challenge > 0 /\ now - latch.issued <= Freshness
             challenge == IF reusable THEN latch.challenge ELSE challenges + 1
             issued == IF reusable THEN latch.issued ELSE now
  <2>1. LeaseTypeOK'
    BY <1>1, LeaseUntouched DEF NextRecovery
  <2>2. challenge \in 0..MaxChallenges /\ issued \in Nat
    BY <1>1, ClaimAssumption
       DEF NextRecovery, TypeOK, LeaseTypeOK, LatchRows
  <2>3. challenges' \in 0..MaxChallenges
    BY <1>1, ClaimAssumption DEF NextRecovery, TypeOK, LatchRows
  <2>4. latch' = [latch EXCEPT !.challenge = challenge, !.issued = issued]
    BY <1>1 DEF NextRecovery
  <2>5. latch' \in LatchRows
    BY <2>2, <2>4 DEF TypeOK, LatchRows
  <2>6. recovery' =
          [recovery EXCEPT ![r] =
             [step |-> "challenged", command |-> latch.command,
              state |-> latch.state, claim |-> latch.claim,
              challenge |-> challenge, issued |-> issued, answer |-> "none"]]
    BY <1>1 DEF NextRecovery
  <2>7. latch.state \in {"pending-fence", "blocked-unknown"}
    BY <1>1 DEF NextRecovery, Recoverable
  <2>8. recovery' \in [Recoverers -> RecoveryCalls]
    <3> HIDE DEF challenge, issued
    <3>1. [step |-> "challenged", command |-> latch.command,
           state |-> latch.state, claim |-> latch.claim,
           challenge |-> challenge, issued |-> issued, answer |-> "none"]
             \in RecoveryCalls
      BY <2>2, <2>7 DEF TypeOK, LatchRows, RecoveryCalls
    <3>2. QED
      BY <2>6, <3>1, TypeRecovery
  <2>9. QED
    BY <1>1, <2>1, <2>3, <2>5, <2>8 DEF NextRecovery, TypeOK, targetVars
<1>2. CASE Lookup(r)
  <2>1. LeaseTypeOK'
    BY <1>2, LeaseUntouched DEF Lookup
  <2>2. PICK answer \in {"found", "not-found", "other"} :
           recovery' = [recovery EXCEPT
             ![r] = [@ EXCEPT !.step = "answered", !.answer = answer]]
    BY <1>2 DEF Lookup, LookupAnswer
  <2>3. [recovery[r] EXCEPT !.step = "answered", !.answer = answer]
           \in RecoveryCalls
    BY DEF TypeOK, RecoveryCalls
  <2>4. recovery' \in [Recoverers -> RecoveryCalls]
    BY <2>2, <2>3 DEF TypeOK
  <2>5. QED
    BY <1>2, <2>1, <2>4 DEF Lookup, TypeOK, runtimeVars, targetVars
<1>3. ASSUME RecordEvidence(r)
      PROVE  /\ recovery' \in [Recoverers -> RecoveryCalls]
             /\ evidence' \subseteq 0..MaxChallenges
             /\ recovery[r].command \in Commands
  <2>1. recovery' \in [Recoverers -> RecoveryCalls]
    BY <1>3, EmptyRows, TypeRecovery DEF RecordEvidence
  <2>2. recovery[r].challenge \in 0..MaxChallenges
    BY DEF TypeOK, RecoveryCalls
  <2>3. QED
    BY <1>3, <2>1, <2>2 DEF RecordEvidence, TypeOK
<1>4. CASE RecordRecoveredApplied(r)
  <2>1. LeaseTypeOK'
    BY <1>4, LeaseUntouched DEF RecordRecoveredApplied
  <2>2. outbox' \in [Commands -> OutboxRows] /\ latch' \in LatchRows
    BY <1>3, <1>4, TypeEffectApplied DEF RecordRecoveredApplied
  <2>3. QED
    BY <1>3, <1>4, <2>1, <2>2 DEF RecordRecoveredApplied, TypeOK, targetVars
<1>5. CASE ReleaseVerifiedNotApplied(r)
  <2>1. LeaseTypeOK'
    BY <1>5, LeaseUntouched DEF ReleaseVerifiedNotApplied
  <2>2. Unclaimed(recovery[r].command, outbox[recovery[r].command].phase)
           \in OutboxRows
    BY <1>3, <1>5, TypeRows DEF ReleaseVerifiedNotApplied, TypeOK, OutboxRows
  <2>3. outbox' \in [Commands -> OutboxRows]
    BY <1>5, <2>2 DEF ReleaseVerifiedNotApplied, TypeOK
  <2>4. latch' \in LatchRows
    BY <1>5, TypeRows DEF ReleaseVerifiedNotApplied, LatchStates
  <2>5. QED
    BY <1>3, <1>5, <2>1, <2>3, <2>4
       DEF ReleaseVerifiedNotApplied, TypeOK, targetVars
<1>6. CASE RecordBlockedEvidence(r)
  <2>1. LeaseTypeOK'
    BY <1>6, LeaseUntouched DEF RecordBlockedEvidence
  <2>2. latch' \in LatchRows
    BY <1>6, TypeRows DEF RecordBlockedEvidence, LatchStates
  <2>3. QED
    BY <1>3, <1>6, <2>1, <2>2 DEF RecordBlockedEvidence, TypeOK, targetVars
<1>7. CASE RecoveryEnds(r)
  <2>1. LeaseTypeOK'
    BY <1>7, LeaseUntouched DEF RecoveryEnds
  <2>2. recovery' \in [Recoverers -> RecoveryCalls]
    BY <1>7, EmptyRows, TypeRecovery DEF RecoveryEnds
  <2>3. QED
    BY <1>7, <2>1, <2>2 DEF RecoveryEnds, TypeOK, runtimeVars, targetVars
<1>8. QED
  BY <1>1, <1>2, <1>4, <1>5, <1>6, <1>7 DEF Reconcile

-----------------------------------------------------------------------------
(* The inductive invariant of the pipeline.  The safety properties of       *)
(* CanvasEffect follow from who may hold the latch, what the epochs of the  *)
(* claims order, and what a recovery under way knows about the claim it     *)
(* looked up; none of them is inductive alone.                              *)

\* A command not yet submitted has left no trace anywhere.
RestingUntouched ==
    \A c \in Commands : outbox[c].phase = "none" =>
        outbox[c].worker = None /\ outbox[c].epoch = 0 /\ ~ InLedger(c)

\* The latch is kept for an open command, in a state of that command's phase.
LatchFollowsOutbox ==
    latch.command # 0 =>
        \/ /\ outbox[latch.command].phase = "intent"
           /\ latch.state \in {"pending-fence", "blocked-unknown",
                               "retry-ready"}
        \/ /\ outbox[latch.command].phase = "effect-applied"
           /\ latch.state \in {"pending-commit", "blocked-unknown"}

\* A claimed intent holds the latch under its latest claim.
ClaimHoldsLatch ==
    \A c \in Commands : Intent(c) /\ outbox[c].worker # None =>
        /\ outbox[c].epoch > 0
        /\ latch.command = c
        /\ latch.claim = outbox[c].epoch
        /\ latch.state \in {"pending-fence", "blocked-unknown"}

\* An unclaimed intent has not been applied; a latch on it waits for a retry.
UnclaimedUnapplied ==
    \A c \in Commands : Intent(c) /\ outbox[c].worker = None =>
        /\ ~ InLedger(c)
        /\ latch.command = c => latch.state = "retry-ready" /\ latch.claim = 0

\* An applied effect holds the latch under the claim of its receipt, which
\* is the latest one.
AppliedHoldsLatch ==
    \A c \in Commands : outbox[c].phase = "effect-applied" =>
        /\ InLedger(c)
        /\ latch.command = c
        /\ latch.claim = ledger[c].claim
        /\ latch.claim = outbox[c].epoch

\* A worker at work holds a claim its command was given, and no other worker
\* holds the same one.
ClaimsIssued ==
    \A w \in Workers : worker[w].step # "idle" =>
        /\ worker[w].command \in Commands
        /\ worker[w].claim > 0
        /\ worker[w].claim <= outbox[worker[w].command].epoch

ClaimsDiffer ==
    \A w, x \in Workers :
        /\ worker[w].step # "idle" /\ worker[x].step # "idle"
        /\ worker[w].command = worker[x].command
        /\ worker[w].claim = worker[x].claim
        => w = x

RecoveryNames(r) ==
    /\ recovery[r].command \in Commands
    /\ recovery[r].state # "none"
    /\ recovery[r].claim > 0
    /\ recovery[r].claim <= outbox[recovery[r].command].epoch

\* While the claim a recovery looks up is the latest one, nobody can apply the
\* command under it: the claim has run out, or the latch went to
\* "blocked-unknown" and only a new claim takes it back to "pending-fence".
\* So a "not-found" stays true.
RecoveryKnows(r) ==
    recovery[r].claim = outbox[recovery[r].command].epoch =>
        /\ recovery[r].state = "pending-fence" =>
             outbox[recovery[r].command].expires <= now
        /\ recovery[r].state = "blocked-unknown" =>
             ~ (/\ latch.command = recovery[r].command
                /\ latch.state = "pending-fence")
        /\ recovery[r].answer = "not-found" => ~ InLedger(recovery[r].command)

RecoverySound ==
    \A r \in Recoverers : recovery[r].step # "idle" =>
        RecoveryNames(r) /\ RecoveryKnows(r)

EffectInv ==
    /\ RestingUntouched
    /\ LatchFollowsOutbox
    /\ ClaimHoldsLatch
    /\ UnclaimedUnapplied
    /\ AppliedHoldsLatch
    /\ ClaimsIssued
    /\ ClaimsDiffer
    /\ RecoverySound
    /\ LiveClaimKeepsTarget

\* The types of the fields, one by one: what the steps below need of TypeOK.
LEMMA FieldTypes ==
    ASSUME TypeOK
    PROVE  /\ now \in Nat
           /\ \A c \in Commands :
                /\ c \in Nat /\ c > 0
                /\ outbox[c].epoch \in Nat
                /\ outbox[c].expires \in Nat
                /\ outbox[c].worker \in Workers \union {None}
                /\ ledger[c].claim \in Nat
           /\ latch.command \in Nat /\ latch.claim \in Nat
           /\ \A w \in Workers : /\ worker[w].claim \in Nat
                                 /\ worker[w].expires \in Nat
           /\ \A r \in Recoverers : recovery[r].claim \in Nat
<1>1. now \in Nat
  BY DEF TypeOK, LeaseTypeOK
<1>2. ASSUME NEW c \in Commands
      PROVE  /\ c \in Nat /\ c > 0
             /\ outbox[c].epoch \in Nat
             /\ outbox[c].expires \in Nat
             /\ outbox[c].worker \in Workers \union {None}
             /\ ledger[c].claim \in Nat
  <2>1. c \in Nat /\ c > 0
    BY CommandAssumption DEF Commands
  <2>2. outbox[c] \in OutboxRows /\ ledger[c] \in LedgerEntries
    BY DEF TypeOK
  <2>3. QED
    BY <2>1, <2>2, ClaimAssumption DEF OutboxRows, LedgerEntries
<1>3. latch.command \in Nat /\ latch.claim \in Nat
  BY ClaimAssumption, CommandAssumption DEF TypeOK, LatchRows
<1>4. ASSUME NEW w \in Workers
      PROVE  worker[w].claim \in Nat /\ worker[w].expires \in Nat
  BY ClaimAssumption DEF TypeOK, WorkerCalls
<1>5. ASSUME NEW r \in Recoverers PROVE recovery[r].claim \in Nat
  BY ClaimAssumption DEF TypeOK, RecoveryCalls
<1>6. QED
  BY <1>1, <1>2, <1>3, <1>4, <1>5

\* A claim is given on a free latch, or on the command's own, to a command
\* nobody holds; its epoch is above every claim that was given before.
LEMMA InvClaim ==
    ASSUME TypeOK, EffectInv, NEW w \in Workers, NEW c \in Commands,
           Claim(w, c)
    PROVE  EffectInv'
<1>1. /\ Intent(c) /\ outbox[c].worker = None /\ LatchAdmits(c)
      /\ worker[w].step = "idle"
  BY DEF Claim, NextCandidate, ExactCandidate, ScheduleReady
<1>2. /\ outbox'[c] = [phase |-> "intent", worker |-> w,
                       epoch |-> outbox[c].epoch + 1,
                       expires |-> now + ClaimTTL]
      /\ \A d \in Commands \ {c} : outbox'[d] = outbox[d]
      /\ latch' = [command |-> c, state |-> "pending-fence",
                   claim |-> outbox[c].epoch + 1, challenge |-> 0, issued |-> 0]
      /\ worker'[w] = [step |-> "claimed", command |-> c,
                       claim |-> outbox[c].epoch + 1,
                       expires |-> now + ClaimTTL, answer |-> "none"]
      /\ \A x \in Workers \ {w} : worker'[x] = worker[x]
  BY DEF Claim, TypeOK
<1>3. UNCHANGED <<now, ledger, recovery>>
  BY DEF Claim, leaseVars, targetVars
<1> USE <1>1, <1>2, <1>3, FieldTypes, ClaimAssumption
<1>4. RestingUntouched'
  BY DEF EffectInv, RestingUntouched, InLedger
<1>5. LatchFollowsOutbox'
  BY DEF LatchFollowsOutbox
<1>6. ClaimHoldsLatch'
  BY DEF EffectInv, ClaimHoldsLatch, LatchAdmits, Intent
<1>7. UnclaimedUnapplied'
  BY DEF EffectInv, UnclaimedUnapplied, Intent, InLedger
<1>8. AppliedHoldsLatch'
  BY DEF EffectInv, AppliedHoldsLatch, LatchAdmits, Intent, InLedger
<1>9. ClaimsIssued'
  BY DEF EffectInv, ClaimsIssued
<1>10. ClaimsDiffer'
  BY DEF EffectInv, ClaimsIssued, ClaimsDiffer
<1>11. RecoverySound'
  BY DEF EffectInv, RecoverySound, RecoveryNames, RecoveryKnows, InLedger
<1>12. LiveClaimKeepsTarget'
  BY DEF EffectInv, LiveClaimKeepsTarget, ClaimHeld, OwnsLatch, ClaimsIssued,
         LatchAdmits, Intent
<1>13. QED
  BY <1>4, <1>5, <1>6, <1>7, <1>8, <1>9, <1>10, <1>11, <1>12 DEF EffectInv

\* A worker that only moves on with its call, or drops it, changes nothing the
\* invariant relates to other rows.
LEMMA InvWorkerMoves ==
    ASSUME TypeOK, EffectInv, NEW w \in Workers,
           \/ worker'[w].step = "idle"
           \/ /\ worker[w].step # "idle"
              /\ worker'[w].command = worker[w].command
              /\ worker'[w].claim = worker[w].claim
              /\ worker'[w].expires = worker[w].expires,
           \A x \in Workers \ {w} : worker'[x] = worker[x],
           UNCHANGED <<now, outbox, latch, ledger, recovery>>
    PROVE  EffectInv'
<1>1. /\ RestingUntouched' /\ LatchFollowsOutbox' /\ ClaimHoldsLatch'
      /\ UnclaimedUnapplied' /\ AppliedHoldsLatch' /\ RecoverySound'
  BY DEF EffectInv, RestingUntouched, LatchFollowsOutbox, ClaimHoldsLatch,
         UnclaimedUnapplied, AppliedHoldsLatch, RecoverySound, RecoveryNames,
         RecoveryKnows, Intent, InLedger
<1>2. ClaimsIssued'
  BY DEF EffectInv, ClaimsIssued
<1>3. ClaimsDiffer'
  BY DEF EffectInv, ClaimsDiffer
<1>4. LiveClaimKeepsTarget'
  BY DEF EffectInv, LiveClaimKeepsTarget, ClaimHeld, OwnsLatch, Intent
<1>5. QED
  BY <1>1, <1>2, <1>3, <1>4 DEF EffectInv

\* The steps of a worker that write no row.
LEMMA InvWorkerOnly ==
    ASSUME TypeOK, EffectInv, NEW w \in Workers,
           \/ Prepare(w) \/ TargetReplays(w) \/ TargetRefuses(w)
           \/ TargetFails(w) \/ RecordAppliedThrows(w) \/ WorkerCrash(w)
    PROVE  EffectInv'
<1>1. UNCHANGED <<now, outbox, latch, ledger, recovery>>
  BY DEF Prepare, TargetReplays, TargetRefuses, TargetFails,
         RecordAppliedThrows, WorkerCrash, leaseVars, runtimeVars, targetVars
<1>2. worker[w] \in WorkerCalls /\ worker \in [Workers -> WorkerCalls]
  BY DEF TypeOK
<1> DEFINE Moves ==
             /\ worker[w].step # "idle"
             /\ \A x \in Workers \ {w} : worker'[x] = worker[x]
             /\ \/ worker'[w].step = "idle"
                \/ /\ worker'[w].command = worker[w].command
                   /\ worker'[w].claim = worker[w].claim
                   /\ worker'[w].expires = worker[w].expires
<1>3. Prepare(w) => Moves
  BY <1>2 DEF Prepare, WorkerCalls
<1>4. RecordAppliedThrows(w) => Moves
  BY <1>2 DEF RecordAppliedThrows, WorkerCalls
<1>5. TargetReplays(w) => Moves
  BY <1>2 DEF TargetReplays, Answered, CallAt, WorkerCalls
<1>6. TargetRefuses(w) => Moves
  BY <1>2 DEF TargetRefuses, Answered, CallAt, WorkerCalls
<1>7. TargetFails(w) => Moves
  BY <1>2 DEF TargetFails, Answered, CallAt, WorkerCalls
<1>8. WorkerCrash(w) => Moves
  <2>1. SUFFICES ASSUME WorkerCrash(w) PROVE Moves
    OBVIOUS
  <2>2. CASE Done(w)
    BY <1>2, <2>1, <2>2 DEF WorkerCrash, Done, IdleWorker
  <2>3. CASE worker' = [worker EXCEPT ![w] = CallAt(w, "claimed", "none")]
    BY <1>2, <2>1, <2>3 DEF WorkerCrash, CallAt, WorkerCalls
  <2>4. QED
    BY <2>1, <2>2, <2>3 DEF WorkerCrash
<1>9. Moves
  BY <1>3, <1>4, <1>5, <1>6, <1>7, <1>8
<1>10. QED
  BY <1>1, <1>9, InvWorkerMoves

\* The target applies under a live claim only, and a live claim keeps the
\* command out of every other phase and every recovery out of its claim.
LEMMA InvTargetApplies ==
    ASSUME TypeOK, EffectInv, NEW w \in Workers, TargetApplies(w)
    PROVE  EffectInv'
<1> DEFINE c == worker[w].command
<1>1. /\ worker[w].step # "idle" /\ now < worker[w].expires
      /\ c \in Commands /\ worker[w].claim > 0
  BY FieldTypes DEF TargetApplies, AttemptRejected, EffectInv, ClaimsIssued
<1>2. /\ Intent(c) /\ outbox[c].worker = w
      /\ outbox[c].epoch = worker[w].claim /\ now < outbox[c].expires
      /\ latch.command = c /\ latch.claim = worker[w].claim
      /\ latch.state = "pending-fence"
  BY <1>1 DEF EffectInv, LiveClaimKeepsTarget, ClaimHeld, OwnsLatch
<1>3. /\ ledger'[c].claim = worker[w].claim
      /\ \A d \in Commands \ {c} : ledger'[d] = ledger[d]
  BY <1>1 DEF TargetApplies, TypeOK
<1>4. UNCHANGED <<now, outbox, latch, recovery>>
  BY DEF TargetApplies, leaseVars, runtimeVars
<1>5. PICK answer \in {"applied", "unknown"} :
         worker' = [worker EXCEPT ![w] = CallAt(w, "answered", answer)]
  BY DEF TargetApplies, Answered
<1>6. /\ \A x \in Workers \ {w} : worker'[x] = worker[x]
      /\ worker'[w].command = worker[w].command
      /\ worker'[w].claim = worker[w].claim
      /\ worker'[w].expires = worker[w].expires
  <2>1. worker[w] \in WorkerCalls /\ worker \in [Workers -> WorkerCalls]
    BY DEF TypeOK
  <2>2. QED
    BY <1>5, <2>1 DEF CallAt, WorkerCalls
<1> HIDE DEF c
<1> USE <1>1, <1>2, <1>3, <1>4, FieldTypes, ClaimAssumption
<1>7. RestingUntouched'
  BY DEF EffectInv, RestingUntouched, InLedger, Intent
<1>8. LatchFollowsOutbox' /\ ClaimHoldsLatch'
  BY DEF EffectInv, LatchFollowsOutbox, ClaimHoldsLatch, Intent
<1>9. UnclaimedUnapplied'
  BY DEF EffectInv, UnclaimedUnapplied, InLedger, Intent
<1>10. AppliedHoldsLatch'
  BY DEF EffectInv, AppliedHoldsLatch, InLedger, Intent
<1>11. ClaimsIssued' /\ ClaimsDiffer'
  BY <1>6 DEF EffectInv, ClaimsIssued, ClaimsDiffer, c
<1>12. RecoverySound'
  BY DEF EffectInv, RecoverySound, RecoveryNames, RecoveryKnows, InLedger,
         TypeOK, RecoveryCalls
<1>13. LiveClaimKeepsTarget'
  BY <1>6 DEF EffectInv, LiveClaimKeepsTarget, ClaimHeld, OwnsLatch, Intent, c
<1>14. QED
  BY <1>7, <1>8, <1>9, <1>10, <1>11, <1>12, <1>13 DEF EffectInv

\* Recording an applied effect, by its worker or by a recovery: no claim on
\* the target is live afterwards, and the latch keeps the receipt's claim.
LEMMA InvEffectApplied ==
    ASSUME TypeOK, EffectInv, NEW c \in Commands, Intent(c),
           latch.command = c, latch.claim = outbox[c].epoch,
           ledger[c].claim = latch.claim, latch.claim > 0,
           EffectApplied(c),
           \A w \in Workers :
              \/ worker'[w].step = "idle"
              \/ worker'[w] = worker[w] /\ worker[w].expires <= now,
           \A r \in Recoverers :
              recovery'[r].step = "idle" \/ recovery'[r] = recovery[r],
           UNCHANGED <<now, ledger>>
    PROVE  EffectInv'
<1>1. /\ outbox'[c] = [phase |-> "effect-applied", worker |-> None,
                       epoch |-> outbox[c].epoch, expires |-> 0]
      /\ \A d \in Commands \ {c} : outbox'[d] = outbox[d]
      /\ latch' = [command |-> c, state |-> "pending-commit",
                   claim |-> latch.claim, challenge |-> 0, issued |-> 0]
  BY DEF EffectApplied, Unclaimed, Moved, TypeOK
<1> USE <1>1, FieldTypes
<1>2. RestingUntouched' /\ LatchFollowsOutbox'
  BY DEF EffectInv, RestingUntouched, LatchFollowsOutbox, InLedger
<1>3. ClaimHoldsLatch' /\ UnclaimedUnapplied' /\ AppliedHoldsLatch'
  BY DEF EffectInv, ClaimHoldsLatch, UnclaimedUnapplied, AppliedHoldsLatch,
         InLedger, Intent
<1>4. ClaimsIssued'
  BY DEF EffectInv, ClaimsIssued
<1>5. ClaimsDiffer'
  BY DEF EffectInv, ClaimsDiffer
<1>6. RecoverySound'
  BY DEF EffectInv, RecoverySound, RecoveryNames, RecoveryKnows, InLedger
<1>7. LiveClaimKeepsTarget'
  BY DEF LiveClaimKeepsTarget
<1>8. QED
  BY <1>2, <1>3, <1>4, <1>5, <1>6, <1>7 DEF EffectInv

\* recordApplied: the claim it asserts is the one the latch and the ledger name.
LEMMA InvRecordApplied ==
    ASSUME TypeOK, EffectInv, NEW w \in Workers, RecordApplied(w)
    PROVE  EffectInv'
<1> DEFINE c == worker[w].command
<1>1. /\ worker[w].step # "idle" /\ c \in Commands /\ worker[w].claim > 0
      /\ Intent(c) /\ outbox[c].worker = w /\ outbox[c].epoch = worker[w].claim
      /\ latch.command = c /\ latch.claim = worker[w].claim
      /\ ledger[c].claim = worker[w].claim
  BY DEF RecordApplied, ReceiptExact, ClaimHeld, OwnsLatch, EffectInv,
         ClaimsIssued
<1>2. /\ worker'[w].step = "idle"
      /\ \A x \in Workers \ {w} : worker'[x] = worker[x]
  BY DEF RecordApplied, Done, IdleWorker, TypeOK
<1>3. \A x \in Workers \ {w} : worker[x].step = "idle"
                                  \/ worker[x].expires <= now
  BY <1>1, FieldTypes DEF EffectInv, LiveClaimKeepsTarget, ClaimHeld, OwnsLatch
<1>4. EffectApplied(c) /\ UNCHANGED <<now, ledger, recovery>>
  BY DEF RecordApplied, leaseVars, targetVars
<1>5. QED
  BY <1>1, <1>2, <1>3, <1>4, InvEffectApplied

\* Only the holder of the claim fails its command, and the latch it frees is
\* its own.
LEMMA InvRecordNotApplied ==
    ASSUME TypeOK, EffectInv, NEW w \in Workers, RecordNotApplied(w)
    PROVE  EffectInv'
<1> DEFINE c == worker[w].command
<1>1. /\ worker[w].step # "idle" /\ c \in Commands
      /\ worker'[w].step = "idle"
      /\ \A x \in Workers \ {w} : worker'[x] = worker[x]
      /\ UNCHANGED <<now, ledger, recovery>>
  BY DEF RecordNotApplied, Done, IdleWorker, TypeOK, EffectInv, ClaimsIssued,
         leaseVars, targetVars
<1>2. CASE ~ ClaimHeld(w)
  BY <1>1, <1>2, InvWorkerMoves DEF RecordNotApplied
<1>3. CASE ClaimHeld(w)
  <2>1. Intent(c) /\ outbox[c].worker = w
    BY <1>3 DEF ClaimHeld
  <2>2. /\ outbox'[c] = [phase |-> "failed", worker |-> None,
                         epoch |-> outbox[c].epoch, expires |-> 0]
        /\ \A d \in Commands \ {c} : outbox'[d] = outbox[d]
    BY <1>1, <1>3 DEF RecordNotApplied, Unclaimed, TypeOK
  <2>3. latch.command = c /\ latch' = NoLatch
    BY <1>1, <1>3, <2>1, ClaimAssumption
       DEF RecordNotApplied, EffectInv, ClaimHoldsLatch
  <2> HIDE DEF c
  <2> USE <1>1, <2>1, <2>2, <2>3, FieldTypes
  <2>4. RestingUntouched' /\ LatchFollowsOutbox'
    BY DEF EffectInv, RestingUntouched, LatchFollowsOutbox, InLedger, NoLatch
  <2>5. ClaimHoldsLatch' /\ UnclaimedUnapplied' /\ AppliedHoldsLatch'
    BY DEF EffectInv, ClaimHoldsLatch, UnclaimedUnapplied, AppliedHoldsLatch,
           InLedger, Intent, NoLatch
  <2>6. ClaimsIssued' /\ ClaimsDiffer'
    BY DEF EffectInv, ClaimsIssued, ClaimsDiffer
  <2>7. RecoverySound'
    BY DEF EffectInv, RecoverySound, RecoveryNames, RecoveryKnows, InLedger,
           NoLatch
  <2>8. LiveClaimKeepsTarget'
    BY DEF EffectInv, LiveClaimKeepsTarget, ClaimHeld, OwnsLatch, Intent,
           ClaimsIssued
  <2>9. QED
    BY <2>4, <2>5, <2>6, <2>7, <2>8 DEF EffectInv
<1>4. QED
  BY <1>2, <1>3

\* A late "unknown" blocks a latch under its own claim only, which no other
\* worker holds; it never lets go of the claim.
LEMMA InvRecordUnknown ==
    ASSUME TypeOK, EffectInv, NEW w \in Workers, RecordUnknown(w)
    PROVE  EffectInv'
<1>1. /\ worker[w].step # "idle"
      /\ worker'[w].step = "idle"
      /\ \A x \in Workers \ {w} : worker'[x] = worker[x]
      /\ UNCHANGED <<now, outbox, ledger, recovery>>
  BY DEF RecordUnknown, Done, IdleWorker, TypeOK, leaseVars, targetVars
<1>2. CASE ~ OwnsLatch(w)
  BY <1>1, <1>2, InvWorkerMoves DEF RecordUnknown
<1>3. CASE OwnsLatch(w)
  <2>1. /\ latch' = [command |-> latch.command, state |-> "blocked-unknown",
                     claim |-> latch.claim, challenge |-> 0, issued |-> 0]
        /\ latch.command = worker[w].command
        /\ latch.claim = worker[w].claim /\ latch.claim > 0
    BY <1>1, <1>3 DEF RecordUnknown, Moved, OwnsLatch, EffectInv, ClaimsIssued
  <2> USE <1>1, <2>1, FieldTypes
  <2>2. RestingUntouched' /\ LatchFollowsOutbox'
    BY DEF EffectInv, RestingUntouched, LatchFollowsOutbox, InLedger
  <2>3. ClaimHoldsLatch' /\ UnclaimedUnapplied' /\ AppliedHoldsLatch'
    BY DEF EffectInv, ClaimHoldsLatch, UnclaimedUnapplied, AppliedHoldsLatch,
           InLedger, Intent
  <2>4. ClaimsIssued' /\ ClaimsDiffer'
    BY DEF EffectInv, ClaimsIssued, ClaimsDiffer
  <2>5. RecoverySound'
    BY DEF EffectInv, RecoverySound, RecoveryNames, RecoveryKnows, InLedger
  <2>6. LiveClaimKeepsTarget'
    BY DEF EffectInv, LiveClaimKeepsTarget, ClaimHeld, OwnsLatch, Intent,
           ClaimsDiffer
  <2>7. QED
    BY <2>2, <2>3, <2>4, <2>5, <2>6 DEF EffectInv
<1>4. QED
  BY <1>2, <1>3

\* A recovery starts on an outcome that is unknown or a claim that ran out.
LEMMA InvNextRecovery ==
    ASSUME TypeOK, EffectInv, NEW r \in Recoverers, NextRecovery(r)
    PROVE  EffectInv'
<1> DEFINE c == latch.command
<1>1. /\ c # 0 /\ c \in Commands /\ Intent(c) /\ Recoverable(c)
      /\ UNCHANGED <<now, outbox, ledger, worker>>
  BY CommandAssumption
     DEF NextRecovery, leaseVars, targetVars, TypeOK, LatchRows, Commands
<1>2. latch'.command = c /\ latch'.state = latch.state
        /\ latch'.claim = latch.claim
  BY DEF NextRecovery, TypeOK, LatchRows
<1>3. /\ recovery'[r].command = c /\ recovery'[r].state = latch.state
      /\ recovery'[r].claim = latch.claim /\ recovery'[r].answer = "none"
      /\ \A q \in Recoverers \ {r} : recovery'[q] = recovery[q]
  BY DEF NextRecovery, TypeOK
<1>4. /\ latch.claim = outbox[c].epoch /\ outbox[c].epoch > 0
  BY <1>1 DEF EffectInv, ClaimHoldsLatch, UnclaimedUnapplied, Recoverable
<1> HIDE DEF c
<1> USE <1>1, <1>2, <1>3, <1>4, FieldTypes
<1>5. RestingUntouched' /\ LatchFollowsOutbox'
  BY DEF EffectInv, RestingUntouched, LatchFollowsOutbox, InLedger, c
<1>6. ClaimHoldsLatch' /\ UnclaimedUnapplied' /\ AppliedHoldsLatch'
  BY DEF EffectInv, ClaimHoldsLatch, UnclaimedUnapplied, AppliedHoldsLatch,
         InLedger, Intent, c
<1>7. ClaimsIssued' /\ ClaimsDiffer'
  BY DEF EffectInv, ClaimsIssued, ClaimsDiffer
<1>8. RecoverySound'
  BY DEF EffectInv, RecoverySound, RecoveryNames, RecoveryKnows, InLedger,
         Recoverable, c
<1>9. LiveClaimKeepsTarget'
  BY DEF EffectInv, LiveClaimKeepsTarget, ClaimHeld, OwnsLatch, Intent, c
<1>10. QED
  BY <1>5, <1>6, <1>7, <1>8, <1>9 DEF EffectInv

\* "not-found" is an answer of the ledger at the time of the lookup.
LEMMA InvLookup ==
    ASSUME TypeOK, EffectInv, NEW r \in Recoverers, Lookup(r) \/ RecoveryEnds(r)
    PROVE  EffectInv'
<1>1. UNCHANGED <<now, outbox, latch, ledger, worker>>
  BY DEF Lookup, RecoveryEnds, leaseVars, runtimeVars, targetVars
<1>2. /\ recovery \in [Recoverers -> RecoveryCalls]
      /\ recovery[r] \in RecoveryCalls
  BY DEF TypeOK
<1>3. \A q \in Recoverers \ {r} : recovery'[q] = recovery[q]
  BY <1>2 DEF Lookup, RecoveryEnds
<1>4. CASE Lookup(r)
  <2>1. PICK answer \in {LookupAnswer(recovery[r].command), "other"} :
           recovery' = [recovery EXCEPT
             ![r] = [@ EXCEPT !.step = "answered", !.answer = answer]]
    BY <1>4 DEF Lookup
  <2>2. /\ recovery[r].step # "idle"
        /\ recovery'[r].command = recovery[r].command
        /\ recovery'[r].state = recovery[r].state
        /\ recovery'[r].claim = recovery[r].claim
        /\ recovery'[r].answer = answer
    BY <1>2, <1>4, <2>1 DEF Lookup, RecoveryCalls
  <2>3. answer = "not-found" => ~ InLedger(recovery[r].command)
    BY DEF LookupAnswer
  <2>4. RecoverySound'
    BY <1>1, <1>3, <2>2, <2>3
       DEF EffectInv, RecoverySound, RecoveryNames, RecoveryKnows, InLedger
  <2>5. QED
    BY <1>1, <2>4
       DEF EffectInv, RestingUntouched, LatchFollowsOutbox, ClaimHoldsLatch,
           UnclaimedUnapplied, AppliedHoldsLatch, ClaimsIssued, ClaimsDiffer,
           LiveClaimKeepsTarget, ClaimHeld, OwnsLatch, Intent, InLedger
<1>5. CASE RecoveryEnds(r)
  <2>1. recovery'[r].step = "idle"
    BY <1>2, <1>5 DEF RecoveryEnds, IdleRecovery
  <2>2. RecoverySound'
    BY <1>1, <1>3, <2>1
       DEF EffectInv, RecoverySound, RecoveryNames, RecoveryKnows, InLedger
  <2>3. QED
    BY <1>1, <2>2
       DEF EffectInv, RestingUntouched, LatchFollowsOutbox, ClaimHoldsLatch,
           UnclaimedUnapplied, AppliedHoldsLatch, ClaimsIssued, ClaimsDiffer,
           LiveClaimKeepsTarget, ClaimHeld, OwnsLatch, Intent, InLedger
<1>6. QED
  BY <1>4, <1>5

\* What the check of #assertRecovery establishes at the write of a recovery:
\* the claim it looked up is the latest one, and nobody works under it.
LEMMA RecoveryWrites ==
    ASSUME TypeOK, EffectInv, NEW r \in Recoverers, RecordEvidence(r),
           Intent(recovery[r].command)
    PROVE  /\ recovery[r].claim = outbox[recovery[r].command].epoch
           /\ RecoveryKnows(r)
           /\ \A w \in Workers : worker[w].step # "idle" =>
                                   worker[w].expires <= now
<1> DEFINE c == recovery[r].command
<1>1. /\ c \in Commands /\ recovery[r].claim > 0 /\ RecoveryKnows(r)
      /\ recovery[r].state \in {"pending-fence", "blocked-unknown"}
      /\ latch.command = c /\ latch.state = recovery[r].state
      /\ latch.claim = recovery[r].claim
  BY DEF RecordEvidence, RecoveryHeld, EffectInv, RecoverySound,
         RecoveryNames, TypeOK, RecoveryCalls
<1>2. latch.claim = outbox[c].epoch
  BY <1>1 DEF EffectInv, ClaimHoldsLatch, UnclaimedUnapplied
<1>3. ASSUME NEW w \in Workers, worker[w].step # "idle",
             now < worker[w].expires
      PROVE  FALSE
  <2>1. /\ latch.command = worker[w].command /\ latch.state = "pending-fence"
        /\ outbox[c].expires = worker[w].expires
    BY <1>1, <1>3 DEF EffectInv, LiveClaimKeepsTarget, ClaimHeld, OwnsLatch
  <2>2. outbox[c].expires <= now
    BY <1>1, <1>2, <2>1 DEF RecoveryKnows
  <2>3. QED
    BY <1>1, <1>3, <2>1, <2>2, FieldTypes
<1>4. QED
  BY <1>1, <1>2, <1>3, FieldTypes

\* recordRecoveredApplied: the receipt found is that of the latched claim.
LEMMA InvRecordRecoveredApplied ==
    ASSUME TypeOK, EffectInv, NEW r \in Recoverers, RecordRecoveredApplied(r)
    PROVE  EffectInv'
<1> DEFINE c == recovery[r].command
<1>1. /\ RecordEvidence(r) /\ Intent(c) /\ EffectApplied(c)
      /\ ledger[c].claim = recovery[r].claim
      /\ UNCHANGED <<now, ledger, worker>>
  BY DEF RecordRecoveredApplied, FoundExact, leaseVars, targetVars
<1>2. /\ c \in Commands /\ recovery[r].claim > 0
      /\ latch.command = c /\ latch.claim = recovery[r].claim
  BY <1>1 DEF RecordEvidence, RecoveryHeld, EffectInv, RecoverySound,
              RecoveryNames
<1>3. /\ recovery[r].claim = outbox[c].epoch
      /\ \A w \in Workers : worker[w].step # "idle" =>
                              worker[w].expires <= now
  BY <1>1, RecoveryWrites
<1>4. /\ recovery'[r].step = "idle"
      /\ \A q \in Recoverers \ {r} : recovery'[q] = recovery[q]
  BY <1>1 DEF RecordEvidence, IdleRecovery, TypeOK
<1>5. QED
  BY <1>1, <1>2, <1>3, <1>4, InvEffectApplied

\* A verified "not-found" releases an intent: an applied effect would have
\* been found under the same claim.
LEMMA InvReleaseVerifiedNotApplied ==
    ASSUME TypeOK, EffectInv, NEW r \in Recoverers,
           ReleaseVerifiedNotApplied(r)
    PROVE  EffectInv'
<1> DEFINE c == recovery[r].command
<1>1. /\ RecordEvidence(r) /\ recovery[r].answer = "not-found"
      /\ UNCHANGED <<now, ledger, worker>>
  BY DEF ReleaseVerifiedNotApplied, leaseVars, targetVars
<1>2. /\ c \in Commands /\ recovery[r].claim > 0 /\ RecoveryKnows(r)
      /\ latch.command = c /\ latch.claim = recovery[r].claim
  BY <1>1 DEF RecordEvidence, RecoveryHeld, EffectInv, RecoverySound,
              RecoveryNames
<1>3. Intent(c)
  BY <1>1, <1>2, FieldTypes
     DEF EffectInv, LatchFollowsOutbox, AppliedHoldsLatch, RecoveryKnows,
         Intent
<1>4. /\ ~ InLedger(c)
      /\ \A w \in Workers : worker[w].step # "idle" =>
                              worker[w].expires <= now
  BY <1>1, <1>3, RecoveryWrites DEF RecoveryKnows
<1>5. /\ outbox'[c] = [phase |-> "intent", worker |-> None,
                       epoch |-> outbox[c].epoch, expires |-> 0]
      /\ \A d \in Commands \ {c} : outbox'[d] = outbox[d]
      /\ latch' = [command |-> c, state |-> "retry-ready", claim |-> 0,
                   challenge |-> 0, issued |-> 0]
  BY <1>2, <1>3 DEF ReleaseVerifiedNotApplied, Unclaimed, Moved, TypeOK, Intent
<1>6. /\ recovery'[r].step = "idle"
      /\ \A q \in Recoverers \ {r} : recovery'[q] = recovery[q]
  BY <1>1 DEF RecordEvidence, IdleRecovery, TypeOK
<1> HIDE DEF c
<1> USE <1>1, <1>2, <1>3, <1>4, <1>5, <1>6, FieldTypes
<1>7. RestingUntouched' /\ LatchFollowsOutbox'
  BY DEF EffectInv, RestingUntouched, LatchFollowsOutbox, InLedger
<1>8. ClaimHoldsLatch' /\ UnclaimedUnapplied' /\ AppliedHoldsLatch'
  BY DEF EffectInv, ClaimHoldsLatch, UnclaimedUnapplied, AppliedHoldsLatch,
         InLedger, Intent
<1>9. ClaimsIssued' /\ ClaimsDiffer'
  BY DEF EffectInv, ClaimsIssued, ClaimsDiffer
<1>10. RecoverySound'
  BY DEF EffectInv, RecoverySound, RecoveryNames, RecoveryKnows, InLedger
<1>11. LiveClaimKeepsTarget'
  BY DEF LiveClaimKeepsTarget
<1>12. QED
  BY <1>7, <1>8, <1>9, <1>10, <1>11 DEF EffectInv

\* Blocking evidence is written on a latch no live claim relies on.
LEMMA InvRecordBlockedEvidence ==
    ASSUME TypeOK, EffectInv, NEW r \in Recoverers, RecordBlockedEvidence(r)
    PROVE  EffectInv'
<1> DEFINE c == recovery[r].command
<1>1. /\ RecordEvidence(r) /\ UNCHANGED <<now, outbox, ledger, worker>>
  BY DEF RecordBlockedEvidence, leaseVars, targetVars
<1>2. /\ c \in Commands /\ recovery[r].claim > 0
      /\ recovery[r].state \in {"pending-fence", "blocked-unknown"}
      /\ latch.command = c /\ latch.claim = recovery[r].claim
      /\ latch.state = recovery[r].state
  BY <1>1 DEF RecordEvidence, RecoveryHeld, EffectInv, RecoverySound,
              RecoveryNames, TypeOK, RecoveryCalls
<1>3. latch' = [command |-> c, state |-> "blocked-unknown",
                claim |-> latch.claim, challenge |-> 0, issued |-> 0]
  BY <1>2 DEF RecordBlockedEvidence, Moved
<1>4. /\ recovery'[r].step = "idle"
      /\ \A q \in Recoverers \ {r} : recovery'[q] = recovery[q]
  BY <1>1 DEF RecordEvidence, IdleRecovery, TypeOK
<1>5. ASSUME NEW w \in Workers, worker[w].step # "idle",
             now < worker[w].expires
      PROVE  FALSE
  <2>1. Intent(c)
    BY <1>2, <1>5 DEF EffectInv, LiveClaimKeepsTarget, ClaimHeld, OwnsLatch
  <2>2. QED
    BY <1>1, <1>5, <2>1, RecoveryWrites, FieldTypes
<1> HIDE DEF c
<1> USE <1>1, <1>2, <1>3, <1>4, FieldTypes
<1>6. RestingUntouched' /\ LatchFollowsOutbox'
  BY DEF EffectInv, RestingUntouched, LatchFollowsOutbox, InLedger
<1>7. ClaimHoldsLatch' /\ UnclaimedUnapplied' /\ AppliedHoldsLatch'
  BY DEF EffectInv, ClaimHoldsLatch, UnclaimedUnapplied, AppliedHoldsLatch,
         InLedger, Intent
<1>8. ClaimsIssued' /\ ClaimsDiffer'
  BY DEF EffectInv, ClaimsIssued, ClaimsDiffer
<1>9. RecoverySound'
  BY DEF EffectInv, RecoverySound, RecoveryNames, RecoveryKnows, InLedger
<1>10. LiveClaimKeepsTarget'
  BY <1>5 DEF LiveClaimKeepsTarget
<1>11. QED
  BY <1>6, <1>7, <1>8, <1>9, <1>10 DEF EffectInv

\* A command enters the outbox untouched.
LEMMA InvSubmit ==
    ASSUME TypeOK, EffectInv, NEW c \in Commands, Submit(c)
    PROVE  EffectInv'
<1>1. /\ outbox[c].phase = "none"
      /\ outbox' = [outbox EXCEPT ![c].phase = "intent"]
      /\ UNCHANGED <<now, latch, ledger, worker, recovery>>
  BY DEF Submit, leaseVars, targetVars
<1>2. /\ outbox'[c].phase = "intent" /\ outbox'[c].worker = outbox[c].worker
      /\ outbox'[c].epoch = outbox[c].epoch
      /\ outbox'[c].expires = outbox[c].expires
      /\ \A d \in Commands \ {c} : outbox'[d] = outbox[d]
  BY <1>1 DEF TypeOK, OutboxRows
<1> USE <1>1, <1>2, FieldTypes
<1>3. RestingUntouched' /\ LatchFollowsOutbox'
  BY DEF EffectInv, RestingUntouched, LatchFollowsOutbox, InLedger
<1>4. ClaimHoldsLatch' /\ UnclaimedUnapplied' /\ AppliedHoldsLatch'
  BY DEF EffectInv, ClaimHoldsLatch, UnclaimedUnapplied, AppliedHoldsLatch,
         RestingUntouched, LatchFollowsOutbox, InLedger, Intent
<1>5. ClaimsIssued' /\ ClaimsDiffer'
  BY DEF EffectInv, ClaimsIssued, ClaimsDiffer
<1>6. RecoverySound'
  BY DEF EffectInv, RecoverySound, RecoveryNames, RecoveryKnows, InLedger
<1>7. LiveClaimKeepsTarget'
  BY DEF EffectInv, LiveClaimKeepsTarget, ClaimHeld, OwnsLatch, Intent
<1>8. QED
  BY <1>3, <1>4, <1>5, <1>6, <1>7 DEF EffectInv

\* A commit frees a latch that is pending it, under which nobody works.
LEMMA InvVerifyAndCommit ==
    ASSUME TypeOK, EffectInv, NEW c \in Commands, VerifyAndCommit(c)
    PROVE  EffectInv'
<1>1. /\ outbox[c].phase = "effect-applied"
      /\ latch.command = c /\ latch.state = "pending-commit"
      /\ outbox' = [outbox EXCEPT ![c].phase = "committed"]
      /\ latch' = NoLatch
      /\ UNCHANGED <<now, ledger, worker, recovery>>
  BY DEF VerifyAndCommit, leaseVars, targetVars
<1>2. /\ outbox'[c].phase = "committed" /\ outbox'[c].epoch = outbox[c].epoch
      /\ outbox'[c].expires = outbox[c].expires
      /\ \A d \in Commands \ {c} : outbox'[d] = outbox[d]
  BY <1>1 DEF TypeOK, OutboxRows
<1>3. latch'.command = 0 /\ latch'.state = "none"
  BY <1>1 DEF NoLatch
<1> USE <1>1, <1>2, <1>3, FieldTypes
<1>4. RestingUntouched' /\ LatchFollowsOutbox'
  BY DEF EffectInv, RestingUntouched, LatchFollowsOutbox, InLedger
<1>5. ClaimHoldsLatch' /\ UnclaimedUnapplied' /\ AppliedHoldsLatch'
  BY DEF EffectInv, ClaimHoldsLatch, UnclaimedUnapplied, AppliedHoldsLatch,
         InLedger, Intent
<1>6. ClaimsIssued' /\ ClaimsDiffer'
  BY DEF EffectInv, ClaimsIssued, ClaimsDiffer
<1>7. RecoverySound'
  BY DEF EffectInv, RecoverySound, RecoveryNames, RecoveryKnows, InLedger
<1>8. LiveClaimKeepsTarget'
  BY DEF EffectInv, LiveClaimKeepsTarget
<1>9. QED
  BY <1>4, <1>5, <1>6, <1>7, <1>8 DEF EffectInv

\* The lease and its clock only let claims run out.
LEMMA InvLeaseStep ==
    ASSUME TypeOK, EffectInv, [LeaseNext]_leaseVars, UNCHANGED effectVars
    PROVE  EffectInv'
<1>1. now' \in Nat /\ now <= now'
  <2>1. now \in 0..MaxTime /\ MaxTime \in Nat
    BY BoundAssumption DEF TypeOK, LeaseTypeOK
  <2>2. now' = now \/ now' = now + 1
    BY DEF LeaseNext, LeaseStep, Handshake, Acquire, PrepareActivation,
           ActivateFence, RecordTargetActivation, FinalizeActivation, Abandon,
           Tick, leaseVars
  <2>3. QED
    BY <2>1, <2>2
<1>2. UNCHANGED <<outbox, latch, ledger, worker, recovery>>
  BY DEF effectVars, runtimeVars, targetVars
<1> USE <1>1, <1>2, FieldTypes
<1>3. /\ RestingUntouched' /\ LatchFollowsOutbox' /\ ClaimHoldsLatch'
      /\ UnclaimedUnapplied' /\ AppliedHoldsLatch'
      /\ ClaimsIssued' /\ ClaimsDiffer'
  BY DEF EffectInv, RestingUntouched, LatchFollowsOutbox, ClaimHoldsLatch,
         UnclaimedUnapplied, AppliedHoldsLatch, ClaimsIssued, ClaimsDiffer,
         InLedger, Intent
<1>4. RecoverySound'
  BY DEF EffectInv, RecoverySound, RecoveryNames, RecoveryKnows, InLedger
<1>5. LiveClaimKeepsTarget'
  BY DEF EffectInv, LiveClaimKeepsTarget, ClaimHeld, OwnsLatch, Intent
<1>6. QED
  BY <1>3, <1>4, <1>5 DEF EffectInv

\* The empty stores satisfy the invariant.
LEMMA InvInit == Init => EffectInv
BY DEF Init, EffectInv, RestingUntouched, LatchFollowsOutbox, ClaimHoldsLatch,
       UnclaimedUnapplied, AppliedHoldsLatch, ClaimsIssued, ClaimsDiffer,
       RecoverySound, LiveClaimKeepsTarget, InLedger, Intent, NoLatch, NoEntry,
       IdleWorker, IdleRecovery

\* Every step keeps the types and the invariant.
LEMMA InvStep == TypeOK /\ EffectInv /\ [Next]_vars => TypeOK' /\ EffectInv'
<1> SUFFICES ASSUME TypeOK, EffectInv, [Next]_vars
             PROVE  TypeOK' /\ EffectInv'
  OBVIOUS
<1>1. CASE [LeaseNext]_leaseVars /\ UNCHANGED effectVars
  BY <1>1, TypeLeaseStep, InvLeaseStep
<1>2. ASSUME NEW c \in Commands, Submit(c) PROVE TypeOK' /\ EffectInv'
  BY <1>2, TypeSubmit, InvSubmit
<1>3. ASSUME NEW c \in Commands, VerifyAndCommit(c)
      PROVE  TypeOK' /\ EffectInv'
  BY <1>3, TypeCommit, InvVerifyAndCommit
<1>4. ASSUME NEW w \in Workers, NEW c \in Commands, Claim(w, c)
      PROVE  TypeOK' /\ EffectInv'
  BY <1>4, TypeClaim, InvClaim
<1>5. ASSUME NEW w \in Workers, Apply(w) \/ WorkerCrash(w)
      PROVE  TypeOK' /\ EffectInv'
  <2>1. worker[w].step # "idle" => worker[w].command \in Commands
    BY DEF EffectInv, ClaimsIssued
  <2>2. TypeOK'
    BY <1>5, <2>1, TypeApply
  <2>3. EffectInv'
    BY <1>5, InvWorkerOnly, InvTargetApplies, InvRecordApplied,
       InvRecordNotApplied, InvRecordUnknown DEF Apply
  <2>4. QED
    BY <2>2, <2>3
<1>6. ASSUME NEW r \in Recoverers, Reconcile(r) \/ RecoveryEnds(r)
      PROVE  TypeOK' /\ EffectInv'
  <2>1. recovery[r].step # "idle" => recovery[r].command \in Commands
    BY DEF EffectInv, RecoverySound, RecoveryNames
  <2>2. TypeOK'
    BY <1>6, <2>1, TypeReconcile
  <2>3. EffectInv'
    BY <1>6, InvNextRecovery, InvLookup, InvRecordRecoveredApplied,
       InvReleaseVerifiedNotApplied, InvRecordBlockedEvidence DEF Reconcile
  <2>4. QED
    BY <2>2, <2>3
<1>7. CASE UNCHANGED vars
  BY <1>7, <1>1 DEF vars
<1>8. QED
  BY <1>1, <1>2, <1>3, <1>4, <1>5, <1>6, <1>7 DEF Next

-----------------------------------------------------------------------------
(* The theorems.                                                           *)

\* The inductive invariant of the durable effect pipeline.
THEOREM EffectInvariant == Spec => [](TypeOK /\ EffectInv)
BY TypeInit, InvInit, InvStep, PTL DEF Spec

\* Every row of the outbox, the latch and the ledger, and every call under
\* way, has the shape the schemas give it.
THEOREM TypeCorrect == Spec => []TypeOK
BY EffectInvariant, PTL

\* A claim that has not run out keeps its target: no recovery, no other
\* command and no other worker gets in between, for any number of them.
THEOREM LiveClaimSafe == Spec => []LiveClaimKeepsTarget
BY EffectInvariant, PTL DEF EffectInv

\* A command handed out again has not been applied, and no worker is left
\* that still could: recovery never causes a second effect.
THEOREM RetrySafe == Spec => []RetryOnlyUnapplied
<1>1. TypeOK /\ EffectInv => RetryOnlyUnapplied
  <2> SUFFICES ASSUME TypeOK, EffectInv, NEW c \in Commands, Intent(c),
                      outbox[c].worker = None
               PROVE  /\ ~ InLedger(c)
                      /\ \A w \in Workers :
                           worker[w].step = "sent" /\ worker[w].command = c
                             => worker[w].expires <= now
    BY DEF RetryOnlyUnapplied
  <2>1. ~ InLedger(c)
    BY DEF EffectInv, UnclaimedUnapplied
  <2>2. ASSUME NEW w \in Workers, worker[w].step = "sent",
               worker[w].command = c
        PROVE  worker[w].expires <= now
    BY <2>2, FieldTypes, ClaimAssumption
       DEF EffectInv, LiveClaimKeepsTarget, ClaimHeld
  <2>3. QED
    BY <2>1, <2>2
<1>2. QED
  BY <1>1, EffectInvariant, PTL

\* An applied effect keeps the latch of its target under the claim its receipt
\* names, whoever recorded it.
THEOREM AppliedKeepsReceipt == Spec => []AppliedKeepsReceiptClaim
<1>1. EffectInv => AppliedKeepsReceiptClaim
  BY DEF EffectInv, AppliedHoldsLatch, AppliedKeepsReceiptClaim
<1>2. QED
  BY <1>1, EffectInvariant, PTL

\* Every step of the pipeline is a step of the lease, or none.
LEMMA LeaseStepOfNext == [Next]_vars => [LeaseNext]_leaseVars
<1> SUFFICES ASSUME Next PROVE LeaseNext \/ UNCHANGED leaseVars
  BY DEF vars
<1>1. ASSUME NEW c \in Commands, Submit(c) \/ VerifyAndCommit(c)
      PROVE  UNCHANGED leaseVars
  BY <1>1 DEF Submit, VerifyAndCommit
<1>2. ASSUME NEW w \in Workers, NEW c \in Commands, Claim(w, c)
      PROVE  UNCHANGED leaseVars
  BY <1>2 DEF Claim
<1>3. ASSUME NEW w \in Workers, Apply(w) \/ WorkerCrash(w)
      PROVE  UNCHANGED leaseVars
  BY <1>3 DEF Apply, Prepare, TargetApplies, TargetReplays, TargetRefuses,
              TargetFails, RecordApplied, RecordAppliedThrows,
              RecordNotApplied, RecordUnknown, WorkerCrash
<1>4. ASSUME NEW r \in Recoverers, Reconcile(r) \/ RecoveryEnds(r)
      PROVE  UNCHANGED leaseVars
  BY <1>4 DEF Reconcile, NextRecovery, Lookup, RecordRecoveredApplied,
              ReleaseVerifiedNotApplied, RecordBlockedEvidence, RecoveryEnds
<1>5. QED
  BY <1>1, <1>2, <1>3, <1>4 DEF Next

\* The lease of the pipeline is the lease of LeaseFence, so what was proved of
\* it holds here.
THEOREM PipelineKeepsLease == Spec => []LeaseInv
<1>1. Init => LeaseInv
  BY LeaseInitInv DEF Init
<1>2. LeaseInv /\ [Next]_vars => LeaseInv'
  BY LeaseStepOfNext, LeaseInvStep
<1>3. QED
  BY <1>1, <1>2, PTL DEF Spec

\* A document changes by compare-and-apply only.
LEMMA OnlyTargetWrites ==
    ASSUME Next, document' # document
    PROVE  \E w \in Workers : TargetApplies(w)
<1>1. ~ UNCHANGED document
  OBVIOUS
<1>2. ASSUME NEW c \in Commands, Submit(c) \/ VerifyAndCommit(c)
      PROVE  UNCHANGED document
  BY <1>2 DEF Submit, VerifyAndCommit, targetVars
<1>3. ASSUME NEW w \in Workers, NEW c \in Commands, Claim(w, c)
      PROVE  UNCHANGED document
  BY <1>3 DEF Claim, targetVars
<1>4. ASSUME NEW w \in Workers, Apply(w) \/ WorkerCrash(w),
             ~ TargetApplies(w)
      PROVE  UNCHANGED document
  BY <1>4 DEF Apply, Prepare, TargetReplays, TargetRefuses, TargetFails,
              RecordApplied, RecordAppliedThrows, RecordNotApplied,
              RecordUnknown, WorkerCrash, targetVars
<1>5. ASSUME NEW r \in Recoverers, Reconcile(r) \/ RecoveryEnds(r)
      PROVE  UNCHANGED document
  BY <1>5 DEF Reconcile, NextRecovery, Lookup, RecordRecoveredApplied,
              ReleaseVerifiedNotApplied, RecordBlockedEvidence, RecoveryEnds,
              targetVars
<1>6. QED
  BY <1>1, <1>2, <1>3, <1>4, <1>5 DEF Next, effectVars, targetVars

\* Once the runtime calls a lease activated or active, no command bound to an
\* older lease changes the document: the fence backs the lease, and the target
\* compares it in the transaction that writes.
THEOREM LeaseHolderWrites == Spec => OnlyTheLeaseHolderWrites
<1> DEFINE Holds ==
      document' # document /\ lease.phase \in {"target-activated", "active"}
        => bound[document'.hash] =
             [holder |-> lease.holder, epoch |-> lease.epoch]
<1>1. TypeOK /\ EffectInv /\ LeaseInv /\ [Next]_vars => [Holds]_vars
  <2> SUFFICES ASSUME TypeOK, EffectInv, LeaseInv, Next,
                      document' # document,
                      lease.phase \in {"target-activated", "active"}
               PROVE  bound[document'.hash] =
                        [holder |-> lease.holder, epoch |-> lease.epoch]
    OBVIOUS
  <2>1. PICK w \in Workers : TargetApplies(w)
    BY OnlyTargetWrites
  <2>2. /\ document'.hash = worker[w].command
        /\ fence = bound[worker[w].command]
    BY <2>1 DEF TargetApplies, AttemptRejected
  <2>3. fence = [holder |-> lease.holder, epoch |-> lease.epoch]
    BY DEF LeaseInv, FenceBacksLease
  <2>4. QED
    BY <2>2, <2>3
<1>2. QED
  BY <1>1, EffectInvariant, PipelineKeepsLease, PTL
     DEF Spec, OnlyTheLeaseHolderWrites

-----------------------------------------------------------------------------
(* What holds when a call cut short is never repeated under its claim, as   *)
(* applyNextEffect and applyEffect use it (~ Reapply): a command failed     *)
(* was not applied, and the pipeline implements EffectOnce.                 *)

\* A worker that has not been told of an effect, and whose claim is still the
\* latest one, works on a command that has not been applied.
UnappliedSoFar(w) ==
    \/ worker[w].step \in {"claimed", "sent"}
    \/ worker[w].step = "answered" /\ worker[w].answer = "not-applied"

AnswersTrue ==
    /\ \A w \in Workers :
          /\ UnappliedSoFar(w)
          /\ worker[w].claim = outbox[worker[w].command].epoch
          => ~ InLedger(worker[w].command)
    /\ FailedNeverApplied

\* The ledger changes by compare-and-apply only.
LEMMA LedgerWrites ==
    ASSUME Next, ~ \E w \in Workers : TargetApplies(w)
    PROVE  UNCHANGED ledger
<1>1. ASSUME NEW c \in Commands, Submit(c) \/ VerifyAndCommit(c)
      PROVE  UNCHANGED ledger
  BY <1>1 DEF Submit, VerifyAndCommit, targetVars
<1>2. ASSUME NEW w \in Workers, NEW c \in Commands, Claim(w, c)
      PROVE  UNCHANGED ledger
  BY <1>2 DEF Claim, targetVars
<1>3. ASSUME NEW w \in Workers, Apply(w) \/ WorkerCrash(w)
      PROVE  UNCHANGED ledger
  BY <1>3 DEF Apply, Prepare, TargetReplays, TargetRefuses, TargetFails,
              RecordApplied, RecordAppliedThrows, RecordNotApplied,
              RecordUnknown, WorkerCrash, targetVars
<1>4. ASSUME NEW r \in Recoverers, Reconcile(r) \/ RecoveryEnds(r)
      PROVE  UNCHANGED ledger
  BY <1>4 DEF Reconcile, NextRecovery, Lookup, RecordRecoveredApplied,
              ReleaseVerifiedNotApplied, RecordBlockedEvidence, RecoveryEnds,
              targetVars
<1>5. QED
  BY <1>1, <1>2, <1>3, <1>4 DEF Next, effectVars, targetVars

\* The common case: no epoch and no ledger entry changes, no worker is newly
\* unanswered, and what fails had not been applied.
LEMMA AnswersKept ==
    ASSUME TypeOK, EffectInv, AnswersTrue, UNCHANGED ledger,
           \A c \in Commands :
              /\ outbox'[c].epoch = outbox[c].epoch
              /\ outbox'[c].phase = "failed" =>
                    outbox[c].phase = "failed" \/ ~ InLedger(c),
           \A w \in Workers : UnappliedSoFar(w)' =>
              /\ UnappliedSoFar(w)
              /\ worker'[w].command = worker[w].command
              /\ worker'[w].claim = worker[w].claim
    PROVE  AnswersTrue'
<1>1. \A w \in Workers : UnappliedSoFar(w) => worker[w].command \in Commands
  BY DEF UnappliedSoFar, EffectInv, ClaimsIssued
<1>2. ASSUME NEW w \in Workers, UnappliedSoFar(w)',
             worker'[w].claim = outbox'[worker'[w].command].epoch
      PROVE  ~ InLedger(worker[w].command)'
  BY <1>1, <1>2 DEF AnswersTrue, InLedger
<1>3. FailedNeverApplied'
  BY DEF AnswersTrue, FailedNeverApplied, InLedger
<1>4. QED
  BY <1>2, <1>3 DEF AnswersTrue, InLedger

\* A first claim or a retry is given to a command not applied; older claims of
\* that command are not the latest any more.
LEMMA AnswersClaim ==
    ASSUME TypeOK, EffectInv, AnswersTrue, NEW w \in Workers,
           NEW c \in Commands, Claim(w, c)
    PROVE  AnswersTrue'
<1>1. Intent(c) /\ outbox[c].worker = None
  BY DEF Claim, NextCandidate, ExactCandidate, ScheduleReady
<1>2. ~ InLedger(c)
  BY <1>1 DEF EffectInv, UnclaimedUnapplied
<1>3. /\ outbox'[c].phase = "intent" /\ outbox'[c].epoch = outbox[c].epoch + 1
      /\ \A d \in Commands \ {c} : outbox'[d] = outbox[d]
      /\ worker'[w].command = c
      /\ \A x \in Workers \ {w} : worker'[x] = worker[x]
      /\ ledger' = ledger
  BY DEF Claim, TypeOK, targetVars
<1>4. \A x \in Workers : worker[x].step # "idle" =>
         /\ worker[x].command \in Commands
         /\ worker[x].claim <= outbox[worker[x].command].epoch
  BY DEF EffectInv, ClaimsIssued
<1>5. QED
  BY <1>2, <1>3, <1>4, FieldTypes
     DEF AnswersTrue, UnappliedSoFar, FailedNeverApplied, InLedger

\* An effect answers the one worker that holds the latest claim.
LEMMA AnswersTargetApplies ==
    ASSUME TypeOK, EffectInv, AnswersTrue, NEW w \in Workers, TargetApplies(w)
    PROVE  AnswersTrue'
<1> DEFINE c == worker[w].command
<1>1. /\ worker[w].step # "idle" /\ now < worker[w].expires /\ c \in Commands
  BY FieldTypes DEF TargetApplies, AttemptRejected, EffectInv, ClaimsIssued
<1>2. Intent(c) /\ outbox[c].epoch = worker[w].claim
  BY <1>1 DEF EffectInv, LiveClaimKeepsTarget, ClaimHeld
<1>3. /\ \A d \in Commands \ {c} : ledger'[d] = ledger[d]
      /\ outbox' = outbox
  BY <1>1 DEF TargetApplies, TypeOK, runtimeVars
<1>4. ~ UnappliedSoFar(w)'
  <2>1. PICK answer \in {"applied", "unknown"} :
           worker' = [worker EXCEPT ![w] = CallAt(w, "answered", answer)]
    BY DEF TargetApplies, Answered
  <2>2. worker'[w].step = "answered" /\ worker'[w].answer = answer
    BY <2>1 DEF TypeOK, CallAt, WorkerCalls
  <2>3. QED
    BY <2>2 DEF UnappliedSoFar
<1>5. \A x \in Workers \ {w} : worker'[x] = worker[x]
  BY DEF TargetApplies, Answered, TypeOK
<1>6. ASSUME NEW x \in Workers, UnappliedSoFar(x)',
             worker'[x].claim = outbox'[worker'[x].command].epoch
      PROVE  ~ InLedger(worker[x].command)'
  <2>1. x # w /\ worker'[x] = worker[x] /\ UnappliedSoFar(x)
    BY <1>4, <1>5, <1>6 DEF UnappliedSoFar
  <2>2. worker[x].command \in Commands /\ worker[x].step # "idle"
    BY <2>1 DEF UnappliedSoFar, EffectInv, ClaimsIssued
  <2>3. worker[x].command # c
    BY <1>1, <1>2, <1>3, <1>6, <2>1, <2>2 DEF EffectInv, ClaimsDiffer
  <2>4. QED
    BY <1>3, <1>6, <2>1, <2>2, <2>3 DEF AnswersTrue, InLedger
<1>7. FailedNeverApplied'
  BY <1>2, <1>3 DEF AnswersTrue, FailedNeverApplied, InLedger, Intent
<1>8. QED
  BY <1>4, <1>5, <1>6, <1>7 DEF AnswersTrue, InLedger, UnappliedSoFar

\* The steps of a worker that write no row.
LEMMA AnswersWorkerOnly ==
    ASSUME TypeOK, EffectInv, AnswersTrue, ~ Reapply, NEW w \in Workers,
           \/ Prepare(w) \/ TargetReplays(w) \/ TargetRefuses(w)
           \/ TargetFails(w) \/ RecordAppliedThrows(w) \/ WorkerCrash(w)
    PROVE  AnswersTrue'
<1>1. UNCHANGED <<outbox, ledger>>
  BY DEF Prepare, TargetReplays, TargetRefuses, TargetFails,
         RecordAppliedThrows, WorkerCrash, runtimeVars, targetVars
<1>2. worker[w] \in WorkerCalls /\ worker \in [Workers -> WorkerCalls]
  BY DEF TypeOK
<1> DEFINE Kept ==
             /\ \A x \in Workers \ {w} : worker'[x] = worker[x]
             /\ UnappliedSoFar(w)' =>
                  /\ UnappliedSoFar(w)
                  /\ worker'[w].command = worker[w].command
                  /\ worker'[w].claim = worker[w].claim
<1>3. Prepare(w) => Kept
  BY <1>2 DEF Prepare, WorkerCalls, UnappliedSoFar
<1>4. RecordAppliedThrows(w) => Kept
  BY <1>2 DEF RecordAppliedThrows, WorkerCalls, UnappliedSoFar
<1>5. TargetReplays(w) => Kept
  BY <1>2 DEF TargetReplays, Answered, CallAt, WorkerCalls, UnappliedSoFar
<1>6. TargetRefuses(w) => Kept
  BY <1>2 DEF TargetRefuses, Answered, CallAt, WorkerCalls, UnappliedSoFar
<1>7. TargetFails(w) => Kept
  BY <1>2 DEF TargetFails, Answered, CallAt, WorkerCalls, UnappliedSoFar
<1>8. WorkerCrash(w) => Kept
  BY <1>2 DEF WorkerCrash, Done, IdleWorker, UnappliedSoFar
<1>9. Kept
  BY <1>3, <1>4, <1>5, <1>6, <1>7, <1>8
<1>10. QED
  BY <1>1, <1>9, AnswersKept DEF AnswersTrue, FailedNeverApplied, UnappliedSoFar

\* The records of a worker: only a "not-applied" of the latest claim fails its
\* command.
LEMMA AnswersRecord ==
    ASSUME TypeOK, EffectInv, AnswersTrue, NEW w \in Workers,
           RecordApplied(w) \/ RecordNotApplied(w) \/ RecordUnknown(w)
    PROVE  AnswersTrue'
<1> DEFINE c == worker[w].command
<1>1. /\ worker[w].step # "idle" /\ c \in Commands
      /\ Done(w) /\ ledger' = ledger
  BY DEF RecordApplied, RecordNotApplied, RecordUnknown, EffectInv,
         ClaimsIssued, targetVars
<1>2. \A x \in Workers : worker'[x] = IF x = w THEN IdleWorker ELSE worker[x]
  BY <1>1 DEF Done, TypeOK
<1>3. \/ outbox' = outbox
      \/ outbox' = [outbox EXCEPT ![c] = Unclaimed(c, "effect-applied")]
      \/ /\ outbox' = [outbox EXCEPT ![c] = Unclaimed(c, "failed")]
         /\ ClaimHeld(w) /\ UnappliedSoFar(w)
  BY DEF RecordApplied, RecordNotApplied, RecordUnknown, EffectApplied,
         UnappliedSoFar
<1>4. ClaimHeld(w) /\ UnappliedSoFar(w) => ~ InLedger(c)
  BY DEF ClaimHeld, AnswersTrue
<1>5. \A d \in Commands :
         /\ outbox'[d].epoch = outbox[d].epoch
         /\ outbox'[d].phase = "failed" =>
               outbox[d].phase = "failed" \/ ~ InLedger(d)
  BY <1>1, <1>3, <1>4 DEF Unclaimed, TypeOK
<1>6. \A x \in Workers : UnappliedSoFar(x)' =>
         /\ UnappliedSoFar(x)
         /\ worker'[x].command = worker[x].command
         /\ worker'[x].claim = worker[x].claim
  BY <1>2 DEF UnappliedSoFar, IdleWorker
<1>7. QED
  BY <1>1, <1>5, <1>6, AnswersKept

\* A recovery fails nothing and gives no claim.
LEMMA AnswersReconcile ==
    ASSUME TypeOK, EffectInv, AnswersTrue, NEW r \in Recoverers,
           Reconcile(r) \/ RecoveryEnds(r)
    PROVE  AnswersTrue'
<1>1. UNCHANGED <<ledger, worker>>
  BY DEF Reconcile, NextRecovery, Lookup, RecordRecoveredApplied,
         ReleaseVerifiedNotApplied, RecordBlockedEvidence, RecoveryEnds,
         targetVars
<1>2. \/ outbox' = outbox
      \/ \E phase \in OutboxPhases :
            /\ outbox' = [outbox EXCEPT
                            ![recovery[r].command] =
                                Unclaimed(recovery[r].command, phase)]
            /\ recovery[r].command \in Commands
            /\ phase = "failed" => outbox[recovery[r].command].phase = "failed"
  <2>1. recovery[r].step # "idle" => recovery[r].command \in Commands
    BY DEF EffectInv, RecoverySound, RecoveryNames
  <2>2. RecordRecoveredApplied(r) \/ ReleaseVerifiedNotApplied(r)
          => recovery[r].command \in Commands
    BY <2>1 DEF RecordRecoveredApplied, ReleaseVerifiedNotApplied,
                RecordEvidence
  <2>3. recovery[r].command \in Commands =>
          outbox[recovery[r].command].phase \in OutboxPhases
    BY DEF TypeOK, OutboxRows
  <2>4. RecordRecoveredApplied(r) => outbox' =
          [outbox EXCEPT ![recovery[r].command] =
             Unclaimed(recovery[r].command, "effect-applied")]
    BY DEF RecordRecoveredApplied, EffectApplied
  <2>5. ReleaseVerifiedNotApplied(r) => outbox' =
          [outbox EXCEPT ![recovery[r].command] =
             Unclaimed(recovery[r].command, outbox[recovery[r].command].phase)]
    BY DEF ReleaseVerifiedNotApplied
  <2>6. \/ outbox' = outbox
        \/ RecordRecoveredApplied(r)
        \/ ReleaseVerifiedNotApplied(r)
    BY DEF Reconcile, NextRecovery, Lookup, RecordBlockedEvidence,
           RecoveryEnds, runtimeVars
  <2>7. "effect-applied" \in OutboxPhases /\ "effect-applied" # "failed"
    BY DEF OutboxPhases
  <2>8. QED
    BY <2>2, <2>3, <2>4, <2>5, <2>6, <2>7
<1>3. \A d \in Commands :
         /\ outbox'[d].epoch = outbox[d].epoch
         /\ outbox'[d].phase = "failed" => outbox[d].phase = "failed"
  <2>1. CASE outbox' = outbox
    BY <2>1
  <2>2. ASSUME NEW phase \in OutboxPhases,
               outbox' = [outbox EXCEPT ![recovery[r].command] =
                            Unclaimed(recovery[r].command, phase)],
               recovery[r].command \in Commands,
               phase = "failed" => outbox[recovery[r].command].phase = "failed"
        PROVE  \A d \in Commands :
                  /\ outbox'[d].epoch = outbox[d].epoch
                  /\ outbox'[d].phase = "failed" => outbox[d].phase = "failed"
    BY <2>2 DEF Unclaimed, TypeOK
  <2>3. QED
    BY <1>2, <2>1, <2>2
<1>4. QED
  BY <1>1, <1>3, AnswersKept DEF UnappliedSoFar

\* Every step keeps the answers under way true to the ledger.
LEMMA AnswersStep ==
    ASSUME ~ Reapply, TypeOK, EffectInv, AnswersTrue, [Next]_vars
    PROVE  AnswersTrue'
<1>1. ASSUME UNCHANGED <<outbox, ledger, worker>> PROVE AnswersTrue'
  BY <1>1 DEF AnswersTrue, UnappliedSoFar, FailedNeverApplied, InLedger
<1>2. CASE LeaseNext /\ UNCHANGED effectVars
  BY <1>1, <1>2 DEF effectVars, runtimeVars, targetVars
<1>3. ASSUME NEW c \in Commands, Submit(c) \/ VerifyAndCommit(c)
      PROVE  AnswersTrue'
  <2>1. UNCHANGED <<ledger, worker>>
    BY <1>3 DEF Submit, VerifyAndCommit, targetVars
  <2>2. \A d \in Commands :
           /\ outbox'[d].epoch = outbox[d].epoch
           /\ outbox'[d].phase = "failed" => outbox[d].phase = "failed"
    <3>1. \E phase \in OutboxPhases \ {"failed"} :
             outbox' = [outbox EXCEPT ![c].phase = phase]
      BY <1>3 DEF Submit, VerifyAndCommit, OutboxPhases
    <3>2. QED
      BY <3>1 DEF TypeOK, OutboxRows
  <2>3. QED
    BY <2>1, <2>2, AnswersKept DEF UnappliedSoFar
<1>4. ASSUME NEW w \in Workers, NEW c \in Commands, Claim(w, c)
      PROVE  AnswersTrue'
  BY <1>4, AnswersClaim
<1>5. ASSUME NEW w \in Workers, Apply(w) \/ WorkerCrash(w)
      PROVE  AnswersTrue'
  BY <1>5, AnswersTargetApplies, AnswersWorkerOnly, AnswersRecord DEF Apply
<1>6. ASSUME NEW r \in Recoverers, Reconcile(r) \/ RecoveryEnds(r)
      PROVE  AnswersTrue'
  BY <1>6, AnswersReconcile
<1>7. CASE UNCHANGED vars
  BY <1>1, <1>7 DEF vars, effectVars, runtimeVars, targetVars
<1>8. QED
  BY <1>2, <1>3, <1>4, <1>5, <1>6, <1>7 DEF Next

\* Initially no answer is under way.
LEMMA AnswersInit == Init => AnswersTrue
BY DEF Init, AnswersTrue, UnappliedSoFar, FailedNeverApplied, InLedger,
       NoEntry, IdleWorker

\* What the workers were told is true of the ledger as long as it matters.
LEMMA AnswersInvariant ==
    ASSUME ~ Reapply
    PROVE  Spec => []AnswersTrue
<1>1. TypeOK /\ EffectInv /\ AnswersTrue /\ [Next]_vars => AnswersTrue'
  BY AnswersStep
<1>2. QED
  BY <1>1, AnswersInit, EffectInvariant, PTL DEF Spec

\* A command reported failed has not changed the document, unless a call cut
\* short was repeated under its claim: that is the one way it can go wrong.
THEOREM FailedSafe ==
    ASSUME ~ Reapply
    PROVE  Spec => []FailedNeverApplied
BY AnswersInvariant, PTL DEF AnswersTrue

-----------------------------------------------------------------------------
(* The pipeline implements EffectOnce.                                     *)

Effect(c) ==
    IF outbox[c].phase \in {"failed", "committed"} THEN outbox[c].phase
    ELSE IF InLedger(c) THEN "applied" ELSE "open"

Effects == [c \in Commands |-> Effect(c)]

\* The initial stores map to the initial state of the promise.
LEMMA PromiseInit == Init => Promise!Init
BY DEF Init, Promise!Init, InLedger, NoEntry

\* A step that moves neither the ledger nor the document, and no command into
\* or out of its last phase, is a stutter of the promise.
LEMMA PromiseStutter ==
    ASSUME UNCHANGED <<ledger, document>>,
           \A c \in Commands :
              \/ outbox'[c].phase = outbox[c].phase
              \/ /\ outbox[c].phase \notin {"failed", "committed"}
                 /\ outbox'[c].phase \notin {"failed", "committed"}
    PROVE  UNCHANGED Promise!vars
<1>1. Effects' = Effects
  <2>1. \A c \in Commands : Effect(c)' = Effect(c)
    BY DEF Effect, InLedger
  <2>2. QED
    BY <2>1 DEF Effects
<1>2. QED
  BY <1>1 DEF Promise!vars, Effects, Effect

\* An effect under a live claim finds every other command unapplied or
\* settled: the latch is held by its own.
LEMMA PromiseApplies ==
    ASSUME TypeOK, EffectInv, NEW w \in Workers, TargetApplies(w)
    PROVE  Promise!Next
<1>0. PICK c \in Commands : c = worker[w].command
  BY DEF TargetApplies, EffectInv, ClaimsIssued
<1> USE <1>0
<1>1. /\ worker[w].step # "idle" /\ now < worker[w].expires
      /\ worker[w].claim > 0
  BY FieldTypes DEF TargetApplies, AttemptRejected, EffectInv, ClaimsIssued
<1>2. Intent(c) /\ latch.command = c /\ outbox[c].worker = w
  BY <1>1 DEF EffectInv, LiveClaimKeepsTarget, ClaimHeld, OwnsLatch
<1>3. /\ ~ InLedger(c) /\ document.hash = Base[c]
      /\ ledger'[c].claim = worker[w].claim
      /\ \A d \in Commands \ {c} : ledger'[d] = ledger[d]
      /\ document'.hash = c /\ outbox' = outbox
  BY <1>1 DEF TargetApplies, TypeOK, runtimeVars
<1>4. \A d \in Commands : Effect(d) # "applied"
  <2>1. SUFFICES ASSUME NEW d \in Commands, InLedger(d),
                        outbox[d].phase \notin {"failed", "committed"}
                 PROVE  FALSE
    BY DEF Effect
  <2>2. outbox[d].phase \in {"none", "intent", "effect-applied"}
    BY <2>1 DEF TypeOK, OutboxRows, OutboxPhases
  <2>3. d # c
    BY <1>3, <2>1
  <2>4. latch.command = d
    BY <2>1, <2>2
       DEF EffectInv, RestingUntouched, UnclaimedUnapplied, ClaimHoldsLatch,
           AppliedHoldsLatch, Intent
  <2>5. QED
    BY <1>2, <2>3, <2>4
<1>5. Effects[c] = "open" /\ Effects' = [Effects EXCEPT ![c] = "applied"]
  BY <1>1, <1>2, <1>3, FieldTypes DEF Effects, Effect, InLedger, Intent
<1>6. Promise!Apply(c)
  BY <1>3, <1>4, <1>5 DEF Promise!Apply, Effects, Effect
<1>7. QED
  BY <1>1, <1>6 DEF Promise!Next

\* A commit settles an applied command.
LEMMA PromiseCommits ==
    ASSUME TypeOK, EffectInv, NEW c \in Commands, VerifyAndCommit(c)
    PROVE  Promise!Next
<1>1. /\ outbox[c].phase = "effect-applied" /\ InLedger(c)
      /\ outbox'[c].phase = "committed"
      /\ \A d \in Commands \ {c} : outbox'[d] = outbox[d]
      /\ UNCHANGED <<ledger, document>>
  BY DEF VerifyAndCommit, TypeOK, OutboxRows, targetVars
<1>2. Effects[c] = "applied" /\ Effects' = [Effects EXCEPT ![c] = "committed"]
  BY <1>1 DEF Effects, Effect, InLedger
<1>3. Promise!Commit(c)
  BY <1>1, <1>2 DEF Promise!Commit, Effects, Effect
<1>4. QED
  BY <1>3 DEF Promise!Next

\* A failure recorded by the holder of the claim settles a command that is
\* still open.
LEMMA PromiseFails ==
    ASSUME TypeOK, EffectInv, AnswersTrue, NEW w \in Workers,
           RecordNotApplied(w)
    PROVE  [Promise!Next]_(Promise!vars)
<1>0. PICK c \in Commands : c = worker[w].command
  BY DEF RecordNotApplied, EffectInv, ClaimsIssued
<1>1. UNCHANGED <<ledger, document>>
  BY DEF RecordNotApplied, targetVars
<1>2. CASE ~ ClaimHeld(w)
  BY <1>1, <1>2, PromiseStutter DEF RecordNotApplied
<1>3. CASE ClaimHeld(w)
  <2>1. /\ Intent(c) /\ ~ InLedger(c)
        /\ outbox'[c].phase = "failed"
        /\ \A d \in Commands \ {c} : outbox'[d] = outbox[d]
    BY <1>0, <1>3 DEF RecordNotApplied, ClaimHeld, AnswersTrue,
                      UnappliedSoFar, Unclaimed, TypeOK
  <2>2. Effects[c] = "open" /\ Effects' = [Effects EXCEPT ![c] = "failed"]
    BY <1>1, <2>1 DEF Effects, Effect, InLedger, Intent
  <2>3. Promise!Fail(c)
    BY <1>1, <2>2 DEF Promise!Fail, Effects, Effect
  <2>4. QED
    BY <1>1, <2>3 DEF Promise!Next
<1>4. QED
  BY <1>2, <1>3

\* Every step of the pipeline is a step of the promise or a stutter.
LEMMA PromiseStep ==
    ASSUME TypeOK, EffectInv, AnswersTrue, [Next]_vars
    PROVE  [Promise!Next]_(Promise!vars)
<1>1. ASSUME UNCHANGED <<outbox, ledger, document>>
      PROVE  UNCHANGED Promise!vars
  BY <1>1, PromiseStutter
<1>2. CASE UNCHANGED effectVars
  BY <1>1, <1>2 DEF effectVars, runtimeVars, targetVars
<1>3. ASSUME NEW c \in Commands, Submit(c) PROVE UNCHANGED Promise!vars
  <2>1. /\ UNCHANGED <<ledger, document>>
        /\ \A d \in Commands \ {c} : outbox'[d] = outbox[d]
        /\ outbox[c].phase = "none" /\ outbox'[c].phase = "intent"
    BY <1>3 DEF Submit, TypeOK, OutboxRows, targetVars
  <2>2. QED
    BY <2>1, PromiseStutter
<1>4. ASSUME NEW c \in Commands, VerifyAndCommit(c) PROVE Promise!Next
  BY <1>4, PromiseCommits
<1>5. ASSUME NEW w \in Workers, NEW c \in Commands, Claim(w, c)
      PROVE  UNCHANGED Promise!vars
  <2>1. /\ UNCHANGED <<ledger, document>>
        /\ \A d \in Commands : outbox'[d].phase = outbox[d].phase
    BY <1>5 DEF Claim, NextCandidate, ExactCandidate, ScheduleReady, Intent,
                TypeOK, targetVars
  <2>2. QED
    BY <2>1, PromiseStutter
<1>6. ASSUME NEW w \in Workers,
             \/ Prepare(w) \/ TargetReplays(w) \/ TargetRefuses(w)
             \/ TargetFails(w) \/ RecordAppliedThrows(w) \/ RecordUnknown(w)
             \/ WorkerCrash(w)
      PROVE  UNCHANGED Promise!vars
  <2>1. UNCHANGED <<outbox, ledger, document>>
    BY <1>6 DEF Prepare, TargetReplays, TargetRefuses, TargetFails,
                RecordAppliedThrows, RecordUnknown, WorkerCrash, runtimeVars,
                targetVars
  <2>2. QED
    BY <1>1, <2>1
<1>7. ASSUME NEW c \in Commands, Intent(c), EffectApplied(c),
             UNCHANGED <<ledger, document>>
      PROVE  UNCHANGED Promise!vars
  <2>1. /\ outbox'[c].phase = "effect-applied" /\ outbox[c].phase = "intent"
        /\ \A d \in Commands \ {c} : outbox'[d] = outbox[d]
    BY <1>7 DEF EffectApplied, Unclaimed, Intent, TypeOK
  <2>2. QED
    BY <1>7, <2>1, PromiseStutter
<1>8. ASSUME NEW w \in Workers, RecordApplied(w)
      PROVE  UNCHANGED Promise!vars
  BY <1>7, <1>8 DEF RecordApplied, ClaimHeld, EffectInv, ClaimsIssued,
                    targetVars
<1>9. ASSUME NEW r \in Recoverers, Reconcile(r) \/ RecoveryEnds(r)
      PROVE  UNCHANGED Promise!vars
  <2>1. UNCHANGED <<ledger, document>>
    BY <1>9 DEF Reconcile, NextRecovery, Lookup, RecordRecoveredApplied,
                ReleaseVerifiedNotApplied, RecordBlockedEvidence,
                RecoveryEnds, targetVars
  <2>2. CASE RecordRecoveredApplied(r)
    BY <1>7, <2>1, <2>2
       DEF RecordRecoveredApplied, RecordEvidence, EffectInv, RecoverySound,
           RecoveryNames
  <2>3. CASE ReleaseVerifiedNotApplied(r)
    <3>1. \A d \in Commands : outbox'[d].phase = outbox[d].phase
      BY <2>3 DEF ReleaseVerifiedNotApplied, Unclaimed, TypeOK
    <3>2. QED
      BY <2>1, <3>1, PromiseStutter
  <2>4. CASE ~ RecordRecoveredApplied(r) /\ ~ ReleaseVerifiedNotApplied(r)
    <3>1. outbox' = outbox
      BY <1>9, <2>4 DEF Reconcile, NextRecovery, Lookup,
                        RecordBlockedEvidence, RecoveryEnds, runtimeVars
    <3>2. QED
      BY <1>1, <2>1, <3>1
  <2>5. QED
    BY <2>2, <2>3, <2>4
<1>10. CASE UNCHANGED vars
  BY <1>2, <1>10 DEF vars
<1>11. QED
  BY <1>2, <1>3, <1>4, <1>5, <1>6, <1>8, <1>9, <1>10, PromiseApplies,
     PromiseFails DEF Next, Apply

\* The pipeline keeps its promise: every command changes the document at most
\* once, from the baseline it was reviewed against and never over an effect
\* that waits for its commit, and one reported failed never does.
THEOREM EffectsOnce ==
    ASSUME ~ Reapply
    PROVE  Spec => EffectsHappenOnce
<1>1. TypeOK /\ EffectInv /\ AnswersTrue /\ [Next]_vars
        => [Promise!Next]_(Promise!vars)
  BY PromiseStep
<1>2. QED
  BY <1>1, PromiseInit, EffectInvariant, AnswersInvariant, PTL
     DEF Spec, EffectsHappenOnce, Promise!Spec
=============================================================================
