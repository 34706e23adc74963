---------------------------- MODULE TraceCommit ----------------------------
(***************************************************************************)
(* Verification and commit of applied canvas effects: commit claims, the   *)
(* journal of verification attempts and the canonical trace of one project *)
(* (CanvasTraceCommitStore, CanvasVerificationJournal), driven by          *)
(* CanvasTraceCommitCoordinator.verifyAndCommit.                           *)
(*                                                                         *)
(* Each runtime transaction is one action, and the target verifies between *)
(* two of them.  A claim is a value its holder may use in several calls at *)
(* once, and still use when it has run out.                                *)
(***************************************************************************)
EXTENDS Integers, Sequences

CONSTANTS
    NCommands,     \* the commands 1..NCommands of one project
    Targets,       \* canvas targets
    TargetOf,      \* the target of each command
    Calls,         \* calls of verifyAndCommit that may be in progress
    ClaimTTL,      \* claimTtlMilliseconds
    Freshness,     \* TARGET_VERIFICATION_FRESHNESS_MS
    MaxTime,       \* bound of the clock
    MaxEpoch,      \* bound of the claim epochs
    MaxAttempts    \* bound of the verification attempts

Commands == 1..NCommands
Attempts == 1..MaxAttempts

ASSUME CommitAssumption ==
    /\ NCommands \in Nat
    /\ TargetOf \in [Commands -> Targets]
    /\ ClaimTTL \in Nat \ {0}
    /\ Freshness \in Nat
    /\ MaxTime \in Nat /\ MaxEpoch \in Nat /\ MaxAttempts \in Nat

VARIABLES
    now,        \* the injected clock, shared by the runtime and the target
    leased,     \* the commands whose lease LeaseStore.assert still accepts
    outbox,     \* the outbox rows; expires 0: no worker claim
    latch,      \* target_schedule_latches; attempt: the one recovery_json names
    claims,     \* the commit claims handed out so far
    attempts,   \* target_verification_attempts
    trace,      \* trace_events of the project with their effect bindings
    call        \* the calls in progress

commitVars == <<now, leased, outbox, latch, claims, attempts, trace, call>>

NoClaim == [command |-> 0, epoch |-> 0, expires |-> 0]
FreeLatch == [command |-> 0, state |-> "none", attempt |-> 0]
Unused == [claim |-> NoClaim, issued |-> 0, state |-> "unused"]
IdleCommit == [step |-> "idle", claim |-> NoClaim, attempt |-> 0,
               answer |-> "none", checked |-> 0]

Claims == [command : 0..NCommands, epoch : 0..MaxEpoch, expires : Nat]
Events == [command : Commands, attempt : Attempts, checked : Nat, at : Nat]

CommitTypeOK ==
    /\ now \in 0..MaxTime
    /\ leased \subseteq Commands
    /\ outbox \in [Commands ->
          [phase : {"intent", "effect-applied", "committed"},
           epoch : 0..MaxEpoch, expires : Nat]]
    /\ latch \in [Targets ->
          [command : 0..NCommands, attempt : 0..MaxAttempts,
           state : {"none", "pending-commit", "blocked-unknown"}]]
    /\ claims \subseteq Claims
    /\ attempts \in [Attempts ->
          [claim : Claims, issued : Nat,
           state : {"unused", "issued", "accepted", "rejected"}]]
    /\ trace \in Seq(Events)
    /\ call \in [Calls ->
          [step : {"idle", "prepared", "answered", "returned"},
           claim : Claims, attempt : 0..MaxAttempts,
           answer : {"none", "verified", "other"}, checked : Nat]]

CommitInit ==
    /\ now = 0
    /\ leased = Commands
    /\ outbox = [c \in Commands |->
          [phase |-> "intent", epoch |-> 0, expires |-> 0]]
    /\ latch = [t \in Targets |-> FreeLatch]
    /\ claims = {}
    /\ attempts = [a \in Attempts |-> Unused]
    /\ trace = <<>>
    /\ call = [v \in Calls |-> IdleCommit]

-----------------------------------------------------------------------------
(* What the effect pipeline does around a commit.                          *)

\* recordApplied or recordRecoveredApplied, under the first claim.
EffectApplied(c) ==
    /\ outbox[c].phase = "intent"
    /\ latch[TargetOf[c]].command = 0
    /\ MaxEpoch > 0
    /\ outbox' = [outbox EXCEPT ![c] =
                    [phase |-> "effect-applied", epoch |-> 1, expires |-> 0]]
    /\ latch' = [latch EXCEPT ![TargetOf[c]] =
                   [command |-> c, state |-> "pending-commit", attempt |-> 0]]
    /\ UNCHANGED <<now, leased, claims, attempts, trace, call>>

\* The lease a command was submitted under expires, and is never renewed.
LeaseExpires(c) ==
    /\ c \in leased
    /\ leased' = leased \ {c}
    /\ UNCHANGED <<now, outbox, latch, claims, attempts, trace, call>>

\* A late recordUnknown overwrites the latch and what its recovery_json named.
LateUnknown(c) ==
    /\ latch[TargetOf[c]].command = c
    /\ latch' = [latch EXCEPT ![TargetOf[c]].state = "blocked-unknown",
                              ![TargetOf[c]].attempt = 0]
    /\ UNCHANGED <<now, leased, outbox, claims, attempts, trace, call>>

-----------------------------------------------------------------------------
(* CanvasTraceCommitStore.                                                 *)

\* #loadAuthority: an applied effect on a latch pending its commit.
Authority(c) ==
    /\ outbox[c].phase = "effect-applied"
    /\ latch[TargetOf[c]].command = c
    /\ latch[TargetOf[c]].state = "pending-commit"

\* Mutant: neither the claim's expiry nor a later epoch ends it.
ClaimNamed(k) ==
    /\ outbox[k.command].phase = "effect-applied"
    /\ outbox[k.command].epoch >= k.epoch

\* #assertClaim
ClaimHeld(k) ==
    /\ outbox[k.command] =
          [phase |-> "effect-applied", epoch |-> k.epoch,
           expires |-> k.expires]
    /\ now < k.expires

\* claim: a claim that has run out may be taken over under the next epoch.
Claim(c) ==
    LET k == [command |-> c, epoch |-> outbox[c].epoch + 1,
              expires |-> now + ClaimTTL] IN
    /\ Authority(c)
    /\ c \in leased
    /\ outbox[c].expires <= now
    /\ k.epoch <= MaxEpoch
    /\ outbox' = [outbox EXCEPT
                    ![c].epoch = k.epoch, ![c].expires = k.expires]
    /\ claims' = claims \union {k}
    /\ UNCHANGED <<now, leased, latch, attempts, trace, call>>

Committed(c) == outbox[c].phase = "committed"

PendingAttempt(c) == latch[TargetOf[c]].attempt

\* The challenge and the evidence may not be older than the freshness window.
Fresh(time) == now - time <= Freshness

\* prepareVerification refuses a claim no longer held, and so a committed one.
Preparable(v, k) ==
    /\ call[v].step = "idle"
    /\ ClaimHeld(k)
    /\ Authority(k.command)
    /\ k.command \in leased

\* #resume: an attempt issued under this very claim, and still fresh.
Resumable(k) ==
    LET a == PendingAttempt(k.command) IN
    /\ a # 0
    /\ attempts[a].state = "issued"
    /\ attempts[a].claim = k
    /\ Fresh(attempts[a].issued)

CallWith(k, a) ==
    [step |-> "prepared", claim |-> k, attempt |-> a, answer |-> "none",
     checked |-> 0]

Resume(v, k) ==
    /\ Preparable(v, k)
    /\ Resumable(k)
    /\ call' = [call EXCEPT ![v] = CallWith(k, PendingAttempt(k.command))]
    /\ UNCHANGED <<now, leased, outbox, latch, claims, attempts, trace>>

\* An attempt still issued gets a final state; any other keeps its own.
Resolved(a, state) ==
    [b \in Attempts |->
        IF b = a /\ attempts[b].state = "issued"
        THEN [attempts[b] EXCEPT !.state = state] ELSE attempts[b]]

\* Mutant: the attempt that is replaced is left as it is.
Forgotten(k) == attempts

\* The pending attempt, if any, is another claim's or too old: it is rejected.
Superseded(k) == Resolved(PendingAttempt(k.command), "rejected")

\* The latch names a new attempt.
Issue(v, k, a) ==
    /\ Preparable(v, k)
    /\ ~ Resumable(k)
    /\ attempts[a].state = "unused"
    /\ \A b \in 1..(a - 1) : attempts[b].state # "unused"
    /\ attempts' = [Superseded(k) EXCEPT
                     ![a] = [claim |-> k, issued |-> now,
                             state |-> "issued"]]
    /\ latch' = [latch EXCEPT ![TargetOf[k.command]].attempt = a]
    /\ call' = [call EXCEPT ![v] = CallWith(k, a)]
    /\ UNCHANGED <<now, leased, outbox, claims, trace>>

\* The target answers, or the call throws ("other").
Verify(v) ==
    /\ call[v].step = "prepared"
    /\ \E answer \in {"verified", "other"} :
          /\ answer = "verified" => Fresh(attempts[call[v].attempt].issued)
          /\ call' = [call EXCEPT ![v] =
                        [@ EXCEPT !.step = "answered", !.answer = answer,
                                  !.checked = now]]
    /\ UNCHANGED <<now, leased, outbox, latch, claims, attempts, trace>>

\* validateTargetVerificationEvidence and the comparison with the receipt.
Acceptable(v) ==
    /\ call[v].answer = "verified"
    /\ Fresh(attempts[call[v].attempt].issued)
    /\ Fresh(call[v].checked)

Pending(v) ==
    LET c == call[v].claim.command IN
    /\ latch[TargetOf[c]] =
          [command |-> c, state |-> "pending-commit",
           attempt |-> call[v].attempt]
    /\ attempts[call[v].attempt].state = "issued"

\* Mutant: the status of the response is written where the state belongs.
RejectedAway(v) ==
    /\ call[v].step = "answered"
    /\ ~ Acceptable(v)
    /\ Pending(v)
    /\ attempts' = [attempts EXCEPT
                      ![call[v].attempt].state = "rejected-response"]
    /\ latch' = [latch EXCEPT
                   ![TargetOf[call[v].claim.command]].attempt = 0]
    /\ call' = [call EXCEPT ![v] = IdleCommit]
    /\ UNCHANGED <<now, leased, outbox, claims, trace>>

\* rejectVerification asks for the attempt and the latch, and for no claim; it
\* rolls back when either has moved on.
RejectVerification(v) ==
    /\ call[v].step = "answered"
    /\ ~ Acceptable(v)
    /\ Pending(v)
    /\ attempts' = Resolved(call[v].attempt, "rejected")
    /\ latch' = [latch EXCEPT
                   ![TargetOf[call[v].claim.command]].attempt = 0]
    /\ call' = [call EXCEPT ![v] = IdleCommit]
    /\ UNCHANGED <<now, leased, outbox, claims, trace>>

\* #assertPrepared: everything prepareVerification saw is still so.
Prepared(v) ==
    /\ ClaimHeld(call[v].claim)
    /\ call[v].claim.command \in leased
    /\ Authority(call[v].claim.command)
    /\ Pending(v)
    /\ attempts[call[v].attempt].claim = call[v].claim

EventFor(v) ==
    [command |-> call[v].claim.command, attempt |-> call[v].attempt,
     checked |-> call[v].checked, at |-> now]

\* Mutant: the row keeps its phase.
CommitLeavesRow(v) ==
    LET c == call[v].claim.command IN
    /\ call[v].step = "answered"
    /\ Acceptable(v)
    /\ Prepared(v)
    /\ trace' = Append(trace, EventFor(v))
    /\ attempts' = Resolved(call[v].attempt, "accepted")
    /\ outbox' = [outbox EXCEPT ![c].expires = 0]
    /\ latch' = [latch EXCEPT ![TargetOf[c]] = FreeLatch]
    /\ call' = [call EXCEPT ![v].step = "returned"]
    /\ UNCHANGED <<now, leased, claims>>

\* commit: event, head, attempt, binding, receipt, projection, outbox, command
\* and latch in one transaction.
Commit(v) ==
    LET c == call[v].claim.command IN
    /\ call[v].step = "answered"
    /\ Acceptable(v)
    /\ Prepared(v)
    /\ trace' = Append(trace, EventFor(v))
    /\ attempts' = Resolved(call[v].attempt, "accepted")
    /\ outbox' = [outbox EXCEPT ![c].phase = "committed", ![c].expires = 0]
    /\ latch' = [latch EXCEPT ![TargetOf[c]] = FreeLatch]
    /\ call' = [call EXCEPT ![v].step = "returned"]
    /\ UNCHANGED <<now, leased, claims>>

EventsOf(c) == {i \in DOMAIN trace : trace[i].command = c}

\* #assertRaceReplay: another call committed the same attempt on the same
\* evidence; its checkedAt tells the evidence of one attempt apart.
RaceReplay(v) ==
    /\ call[v].step = "answered"
    /\ Acceptable(v)
    /\ Committed(call[v].claim.command)
    /\ \E i \in EventsOf(call[v].claim.command) :
          /\ trace[i].attempt = call[v].attempt
          /\ trace[i].checked = call[v].checked
    /\ call' = [call EXCEPT ![v].step = "returned"]
    /\ UNCHANGED <<now, leased, outbox, latch, claims, attempts, trace>>

\* Mutant: whoever asks for a committed command gets its receipt.
AcceptedForAnyone(k) == EventsOf(k.command) # {}

\* The accepted attempt behind the binding belongs to this claim.
AcceptedFor(k) ==
    \E i \in EventsOf(k.command) : attempts[trace[i].attempt].claim = k

\* replay: a repeated call under the claim that committed gets its receipt.
Replay(v, k) ==
    /\ call[v].step = "idle"
    /\ Committed(k.command)
    /\ AcceptedFor(k)
    /\ call' = [call EXCEPT ![v] = [IdleCommit EXCEPT !.step = "returned",
                                                      !.claim = k]]
    /\ UNCHANGED <<now, leased, outbox, latch, claims, attempts, trace>>

\* The call returns its receipt, throws with nothing written, or dies.
CallEnds(v) ==
    /\ call[v].step # "idle"
    /\ call' = [call EXCEPT ![v] = IdleCommit]
    /\ UNCHANGED <<now, leased, outbox, latch, claims, attempts, trace>>

Tick ==
    /\ now < MaxTime
    /\ now' = now + 1
    /\ UNCHANGED <<leased, outbox, latch, claims, attempts, trace, call>>

-----------------------------------------------------------------------------
VerifyAndCommit(v) ==
    \/ \E k \in claims : Resume(v, k) \/ Replay(v, k)
    \/ \E k \in claims, a \in Attempts : Issue(v, k, a)
    \/ Verify(v)
    \/ RejectVerification(v)
    \/ Commit(v)
    \/ RaceReplay(v)

CommitNext ==
    \/ Tick
    \/ \E c \in Commands :
          EffectApplied(c) \/ LeaseExpires(c) \/ LateUnknown(c) \/ Claim(c)
    \/ \E v \in Calls : VerifyAndCommit(v) \/ CallEnds(v)

CommitSpec == CommitInit /\ [][CommitNext]_commitVars

-----------------------------------------------------------------------------
(* Properties.                                                             *)

\* An attempt left "issued" is the one the latch of its target names, unless a
\* late recordUnknown wiped the latch: no claim taken over, call cut short or
\* rejection repeated leaves an attempt that could still be accepted later.
IssuedIsPending ==
    \A a \in Attempts : attempts[a].state = "issued" =>
        LET c == attempts[a].claim.command IN
        /\ outbox[c].phase = "effect-applied"
        /\ latch[TargetOf[c]].command = c
        /\ latch[TargetOf[c]].attempt = a
              \/ latch[TargetOf[c]].state = "blocked-unknown"

\* The evidence behind an event is that of the last claim on its command,
\* taken after its challenge was issued and while that claim was live: a
\* verification overtaken by another claim never commits (#assertPrepared).
EvidenceBacksEvent ==
    \A i \in DOMAIN trace :
        LET attempt == attempts[trace[i].attempt] IN
        /\ attempt.state = "accepted"
        /\ attempt.claim.command = trace[i].command
        /\ attempt.claim.epoch = outbox[trace[i].command].epoch
        /\ attempt.issued <= trace[i].checked
        /\ trace[i].at < attempt.claim.expires

\* A receipt is handed to nobody but the holder of the claim it was committed
\* under, whether by commit, by a race of two calls, or by a later replay.
ReceiptForItsClaim ==
    \A v \in Calls : call[v].step = "returned" =>
        \E i \in DOMAIN trace :
            attempts[trace[i].attempt].claim = call[v].claim

\* The trace keeps the promise of CommitLog: each applied effect is appended
\* at most once, with its outbox row, and nothing is ever removed.
Status == [c \in Commands |->
             CASE outbox[c].phase = "intent" -> "open"
               [] outbox[c].phase = "effect-applied" -> "applied"
               [] outbox[c].phase = "committed" -> "committed"]

Log == INSTANCE CommitLog WITH
    Commands <- Commands,
    status <- Status,
    log <- [i \in DOMAIN trace |-> trace[i].command]

CommitsAreLogged == Log!Spec
=============================================================================
