------------------------- MODULE TraceCommitProofs -------------------------
(***************************************************************************)
(* Proofs about TraceCommit, for any number of commands, targets, calls,   *)
(* claims and attempts: type correctness, the three invariants that the    *)
(* run checks, and that the store implements CommitLog.                    *)
(***************************************************************************)
EXTENDS TraceCommit, SequenceTheorems, TLAPS

\* A claim that was handed out, and the claim of an attempt that was issued,
\* name a command.
ClaimsAreReal ==
    /\ \A k \in claims : k.command \in Commands
    /\ \A a \in Attempts : attempts[a].state # "unused" =>
          attempts[a].claim.command \in Commands

\* An attempt was issued no later than now.
IssuedBefore == \A a \in Attempts : attempts[a].issued <= now

\* A call that goes on has an attempt that was issued under its claim, and
\* what verified it was not answered before it was issued.
CallHasAttempt ==
    \A v \in Calls : call[v].step \in {"prepared", "answered"} =>
        LET a == call[v].attempt IN
        /\ a \in Attempts
        /\ attempts[a].state # "unused"
        /\ attempts[a].claim = call[v].claim
        /\ call[v].answer = "verified" => attempts[a].issued <= call[v].checked

\* What is in the trace has its outbox row committed.
TraceIsCommitted ==
    \A i \in DOMAIN trace : outbox[trace[i].command].phase = "committed"

CommitInv ==
    /\ CommitTypeOK
    /\ ClaimsAreReal
    /\ IssuedBefore
    /\ CallHasAttempt
    /\ TraceIsCommitted
    /\ IssuedIsPending
    /\ EvidenceBacksEvent
    /\ ReceiptForItsClaim

-----------------------------------------------------------------------------
(* What single definitions give.                                           *)

LEMMA ResolvedKeeps ==
    ASSUME CommitTypeOK, NEW a, NEW state \in {"accepted", "rejected"}
    PROVE  /\ Resolved(a, state) \in
                 [Attempts -> [claim : Claims, issued : Nat,
                               state : {"unused", "issued", "accepted",
                                        "rejected"}]]
           /\ \A b \in Attempts :
                 /\ Resolved(a, state)[b].claim = attempts[b].claim
                 /\ Resolved(a, state)[b].issued = attempts[b].issued
                 /\ Resolved(a, state)[b].state =
                       IF b = a /\ attempts[b].state = "issued"
                       THEN state ELSE attempts[b].state
  BY DEF CommitTypeOK, Resolved

LEMMA HeldClaim ==
    ASSUME CommitTypeOK, NEW k \in Claims, k.command \in Commands, ClaimHeld(k)
    PROVE  /\ outbox[k.command].phase = "effect-applied"
           /\ outbox[k.command].epoch = k.epoch
           /\ now < k.expires
  BY DEF ClaimHeld

LEMMA PendingLatch ==
    ASSUME CommitTypeOK, NEW c \in Commands, Authority(c)
    PROVE  /\ latch[TargetOf[c]].command = c
           /\ latch[TargetOf[c]].state = "pending-commit"
           /\ TargetOf[c] \in Targets
           /\ PendingAttempt(c) \in 0..MaxAttempts
  BY CommitAssumption DEF CommitTypeOK, Authority, PendingAttempt

LEMMA LatchNames ==
    ASSUME CommitTypeOK, NEW t \in Targets, NEW a \in 0..MaxAttempts
    PROVE  [latch EXCEPT ![t].attempt = a] \in [Targets ->
              [command : 0..NCommands, attempt : 0..MaxAttempts,
               state : {"none", "pending-commit", "blocked-unknown"}]]
<1> DEFINE Row == [command : 0..NCommands, attempt : 0..MaxAttempts,
                   state : {"none", "pending-commit", "blocked-unknown"}]
<1>1. latch \in [Targets -> Row]
  BY DEF CommitTypeOK
<1>2. [latch[t] EXCEPT !.attempt = a] \in Row
  BY <1>1
<1> HIDE DEF Row
<1>3. [latch EXCEPT ![t] = [latch[t] EXCEPT !.attempt = a]] \in [Targets -> Row]
  BY <1>1, <1>2
<1> QED
  BY <1>3 DEF Row

LEMMA EventsTyped ==
    ASSUME CommitTypeOK
    PROVE  \A i \in DOMAIN trace : trace[i] \in Events
<1>1. trace \in Seq(Events)
  BY DEF CommitTypeOK
<1> QED
  BY <1>1

-----------------------------------------------------------------------------
LEMMA InitCommitInv == CommitInit => CommitInv
<1> SUFFICES ASSUME CommitInit PROVE CommitInv
  OBVIOUS
<1>1. CommitTypeOK
  BY CommitAssumption DEF CommitInit, CommitTypeOK, FreeLatch, Unused, NoClaim,
     IdleCommit, Claims, Commands, Events
<1>2. ClaimsAreReal /\ IssuedBefore /\ CallHasAttempt /\ IssuedIsPending
  BY DEF CommitInit, ClaimsAreReal, IssuedBefore, CallHasAttempt,
     IssuedIsPending, Unused, IdleCommit
<1>3. TraceIsCommitted /\ EvidenceBacksEvent /\ ReceiptForItsClaim
  BY DEF CommitInit, TraceIsCommitted, EvidenceBacksEvent, ReceiptForItsClaim,
     IdleCommit
<1> QED
  BY <1>1, <1>2, <1>3 DEF CommitInv
-----------------------------------------------------------------------------
(* The invariant is kept.  What prepares, resolves and commits a call is    *)
(* put in lemmas of its own; the other actions follow.                     *)

LEMMA TickInv ==
    ASSUME CommitInv, Tick PROVE CommitInv'
<1>1. CommitTypeOK'
  BY CommitAssumption DEF CommitInv, Tick, CommitTypeOK
<1>2. (ClaimsAreReal /\ IssuedBefore /\ CallHasAttempt)'
  BY <1>1 DEF CommitInv, Tick, ClaimsAreReal, IssuedBefore, CallHasAttempt,
     CommitTypeOK
<1>3. (TraceIsCommitted /\ IssuedIsPending /\ EvidenceBacksEvent
         /\ ReceiptForItsClaim)'
  BY DEF CommitInv, Tick, TraceIsCommitted, IssuedIsPending,
     EvidenceBacksEvent, ReceiptForItsClaim
<1> QED
  BY <1>1, <1>2, <1>3 DEF CommitInv

\* The actions around a commit, and the claim.
LEMMA PipelineInv ==
    ASSUME CommitInv, NEW c \in Commands,
           EffectApplied(c) \/ LeaseExpires(c) \/ LateUnknown(c) \/ Claim(c)
    PROVE  CommitInv'
<1>1. CommitTypeOK'
  <2>1. CASE EffectApplied(c) \/ LateUnknown(c)
    <3> DEFINE Outboxes == [Commands ->
                  [phase : {"intent", "effect-applied", "committed"},
                   epoch : 0..MaxEpoch, expires : Nat]]
               Latches == [Targets ->
                  [command : 0..NCommands, attempt : 0..MaxAttempts,
                   state : {"none", "pending-commit", "blocked-unknown"}]]
    <3>1. outbox \in Outboxes /\ latch \in Latches
      BY DEF CommitInv, CommitTypeOK
    <3>2. c \in 0..NCommands /\ 0 \in 0..MaxAttempts
      BY CommitAssumption DEF Commands
    <3>3. outbox' \in Outboxes
      <4>1. CASE EffectApplied(c)
        <5>1. [phase |-> "effect-applied", epoch |-> 1, expires |-> 0] \in
                 [phase : {"intent", "effect-applied", "committed"},
                  epoch : 0..MaxEpoch, expires : Nat]
          BY <4>1, CommitAssumption DEF EffectApplied
        <5> QED
          BY <3>1, <4>1, <5>1 DEF EffectApplied
      <4>2. CASE LateUnknown(c)
        BY <3>1, <4>2 DEF LateUnknown
      <4> QED
        BY <2>1, <4>1, <4>2
    <3>4. latch' \in Latches
      <4>1. CASE EffectApplied(c)
        <5>1. [command |-> c, state |-> "pending-commit", attempt |-> 0] \in
                 [command : 0..NCommands, attempt : 0..MaxAttempts,
                  state : {"none", "pending-commit", "blocked-unknown"}]
          BY <3>2
        <5> QED
          BY <3>1, <4>1, <5>1 DEF EffectApplied
      <4>2. CASE LateUnknown(c)
        BY <3>1, <3>2, <4>2 DEF LateUnknown
      <4> QED
        BY <2>1, <4>1, <4>2
    <3> QED
      BY <2>1, <3>3, <3>4
      DEF CommitInv, CommitTypeOK, EffectApplied, LateUnknown
  <2>2. CASE LeaseExpires(c)
    BY <2>2 DEF CommitInv, CommitTypeOK, LeaseExpires
  <2>3. CASE Claim(c)
    <3> DEFINE k == [command |-> c, epoch |-> outbox[c].epoch + 1,
                     expires |-> now + ClaimTTL]
    <3>1. k \in Claims /\ k.epoch \in 0..MaxEpoch /\ k.expires \in Nat
      BY <2>3, CommitAssumption
      DEF CommitInv, CommitTypeOK, Claim, Claims, Commands
    <3>2. outbox' = [outbox EXCEPT ![c].epoch = k.epoch, ![c].expires = k.expires]
      BY <2>3 DEF Claim
    <3>3. outbox' \in [Commands ->
             [phase : {"intent", "effect-applied", "committed"},
              epoch : 0..MaxEpoch, expires : Nat]]
      <4> HIDE DEF k
      <4> DEFINE Row == [phase : {"intent", "effect-applied", "committed"},
                         epoch : 0..MaxEpoch, expires : Nat]
      <4>1. outbox \in [Commands -> Row]
        BY DEF CommitInv, CommitTypeOK
      <4>2. [outbox[c] EXCEPT !.epoch = k.epoch, !.expires = k.expires] \in Row
        BY <3>1, <4>1
      <4>3. outbox' = [outbox EXCEPT ![c] =
                [outbox[c] EXCEPT !.epoch = k.epoch, !.expires = k.expires]]
        BY <3>2, <4>1
      <4> QED
        BY <4>1, <4>2, <4>3
    <3> QED
      BY <2>3, <3>1, <3>3 DEF CommitInv, CommitTypeOK, Claim
  <2> QED
    BY <2>1, <2>2, <2>3
<1>2. ClaimsAreReal' /\ IssuedBefore' /\ CallHasAttempt'
  BY DEF CommitInv, ClaimsAreReal, IssuedBefore, CallHasAttempt,
     EffectApplied, LeaseExpires, LateUnknown, Claim
<1>3. CommitTypeOK /\ ClaimsAreReal /\ TraceIsCommitted /\ IssuedIsPending
        /\ EvidenceBacksEvent /\ ReceiptForItsClaim
  BY DEF CommitInv
<1>4. UNCHANGED <<now, attempts, trace, call>>
  BY DEF EffectApplied, LeaseExpires, LateUnknown, Claim
<1>5. \A d \in Commands :
         /\ outbox[d].phase = "committed" => outbox'[d] = outbox[d]
         /\ outbox[d].phase = "effect-applied" =>
               outbox'[d].phase = "effect-applied"
  BY <1>3 DEF CommitTypeOK, EffectApplied, LeaseExpires, LateUnknown, Claim,
     Authority
<1>6. TraceIsCommitted' /\ EvidenceBacksEvent' /\ ReceiptForItsClaim'
  <2>1. \A i \in DOMAIN trace : trace[i].command \in Commands
    BY <1>3, EventsTyped DEF Events
  <2> QED
    BY <1>3, <1>4, <1>5, <2>1 DEF TraceIsCommitted, EvidenceBacksEvent,
       ReceiptForItsClaim
<1>7. IssuedIsPending'
  <2> SUFFICES ASSUME NEW a \in Attempts, attempts[a].state = "issued"
               PROVE  LET d == attempts[a].claim.command IN
                      /\ outbox'[d].phase = "effect-applied"
                      /\ latch'[TargetOf[d]].command = d
                      /\ \/ latch'[TargetOf[d]].attempt = a
                         \/ latch'[TargetOf[d]].state = "blocked-unknown"
    BY <1>4 DEF IssuedIsPending
  <2> DEFINE d == attempts[a].claim.command
  <2>1. /\ d \in Commands /\ TargetOf[d] \in Targets /\ TargetOf[c] \in Targets
        /\ outbox[d].phase = "effect-applied"
        /\ latch[TargetOf[d]].command = d
        /\ \/ latch[TargetOf[d]].attempt = a
           \/ latch[TargetOf[d]].state = "blocked-unknown"
    BY <1>3, CommitAssumption DEF ClaimsAreReal, IssuedIsPending
  <2>2. outbox'[d].phase = "effect-applied"
    BY <1>5, <2>1
  <2>3. CASE EffectApplied(c)
    BY <1>3, <2>1, <2>2, <2>3 DEF EffectApplied, CommitTypeOK, Commands
  <2>4. CASE LateUnknown(c)
    BY <1>3, <2>1, <2>2, <2>4 DEF LateUnknown, CommitTypeOK
  <2>5. CASE LeaseExpires(c) \/ Claim(c)
    BY <2>1, <2>2, <2>5 DEF LeaseExpires, Claim
  <2> QED
    BY <2>3, <2>4, <2>5
<1> QED
  BY <1>1, <1>2, <1>6, <1>7 DEF CommitInv

-----------------------------------------------------------------------------
(* The actions of a call.                                                  *)

\* What the invariant says of a claim that was handed out.
LEMMA HandedOut ==
    ASSUME CommitInv, NEW k \in claims
    PROVE  /\ k \in Claims /\ k.command \in Commands
           /\ TargetOf[k.command] \in Targets
           /\ k.expires \in Nat /\ k.epoch \in 0..MaxEpoch
  BY CommitAssumption DEF CommitInv, CommitTypeOK, ClaimsAreReal, Claims

\* What the invariant says of a call that was prepared.
LEMMA CallGoesOn ==
    ASSUME CommitInv, NEW v \in Calls, call[v].step \in {"prepared", "answered"}
    PROVE  /\ call[v].attempt \in Attempts
           /\ attempts[call[v].attempt].state # "unused"
           /\ attempts[call[v].attempt].claim = call[v].claim
           /\ call[v].claim \in Claims
           /\ call[v].claim.command \in Commands
           /\ TargetOf[call[v].claim.command] \in Targets
           /\ call[v].answer = "verified" =>
                 attempts[call[v].attempt].issued <= call[v].checked
  BY CommitAssumption
  DEF CommitInv, CommitTypeOK, CallHasAttempt, ClaimsAreReal

\* An issued attempt on the target of an applied effect whose latch is pending
\* is the one the latch names.
LEMMA OnlyOneIssued ==
    ASSUME CommitInv, NEW c \in Commands, NEW b \in Attempts,
           latch[TargetOf[c]].command = c,
           latch[TargetOf[c]].state = "pending-commit",
           attempts[b].state = "issued",
           TargetOf[attempts[b].claim.command] = TargetOf[c]
    PROVE  attempts[b].claim.command = c /\ latch[TargetOf[c]].attempt = b
  BY DEF CommitInv, IssuedIsPending

\* A step that changes nothing but one call, which returns nothing.
LEMMA OnlyCallInv ==
    ASSUME CommitInv, NEW v \in Calls, NEW d,
           d \in [step : {"idle", "prepared", "answered", "returned"},
                  claim : Claims, attempt : 0..MaxAttempts,
                  answer : {"none", "verified", "other"}, checked : Nat],
           call' = [call EXCEPT ![v] = d],
           UNCHANGED <<now, leased, outbox, latch, claims, attempts, trace>>,
           d.step \in {"prepared", "answered"} =>
              /\ d.attempt \in Attempts
              /\ attempts[d.attempt].state # "unused"
              /\ attempts[d.attempt].claim = d.claim
              /\ d.answer = "verified" =>
                    attempts[d.attempt].issued <= d.checked,
           d.step = "returned" =>
              \E i \in DOMAIN trace :
                  attempts[trace[i].attempt].claim = d.claim
    PROVE  CommitInv'
<1>1. CommitTypeOK'
  BY DEF CommitInv, CommitTypeOK
<1>2. (ClaimsAreReal /\ IssuedBefore /\ TraceIsCommitted /\ IssuedIsPending
         /\ EvidenceBacksEvent)'
  BY DEF CommitInv, ClaimsAreReal, IssuedBefore, TraceIsCommitted,
     IssuedIsPending, EvidenceBacksEvent
<1>3. \A w \in Calls : call'[w] = IF w = v THEN d ELSE call[w]
  BY DEF CommitInv, CommitTypeOK
<1>4. CallHasAttempt'
  BY <1>3 DEF CommitInv, CallHasAttempt
<1>5. ReceiptForItsClaim'
  BY <1>3 DEF CommitInv, ReceiptForItsClaim
<1> QED
  BY <1>1, <1>2, <1>4, <1>5 DEF CommitInv

LEMMA ResumeInv ==
    ASSUME CommitInv, NEW v \in Calls, NEW k \in claims, Resume(v, k)
    PROVE  CommitInv'
<1>1. k \in Claims /\ k.command \in Commands
  BY HandedOut
<1>2. PendingAttempt(k.command) \in 0..MaxAttempts
  BY <1>1, CommitAssumption DEF CommitInv, CommitTypeOK, PendingAttempt
<1>3. /\ PendingAttempt(k.command) \in Attempts
      /\ attempts[PendingAttempt(k.command)].state = "issued"
      /\ attempts[PendingAttempt(k.command)].claim = k
  BY <1>2, CommitAssumption DEF Resume, Resumable, Attempts
<1> DEFINE d == CallWith(k, PendingAttempt(k.command))
<1>4. /\ d \in [step : {"idle", "prepared", "answered", "returned"},
                 claim : Claims, attempt : 0..MaxAttempts,
                 answer : {"none", "verified", "other"}, checked : Nat]
      /\ d.step = "prepared" /\ d.claim = k /\ d.answer = "none"
      /\ d.attempt = PendingAttempt(k.command)
  BY <1>1, <1>2 DEF CallWith
<1>5. call' = [call EXCEPT ![v] = d]
  BY DEF Resume
<1>6. UNCHANGED <<now, leased, outbox, latch, claims, attempts, trace>>
  BY DEF Resume
<1> QED
  BY <1>3, <1>4, <1>5, <1>6, OnlyCallInv

LEMMA ReplayInv ==
    ASSUME CommitInv, NEW v \in Calls, NEW k \in claims, Replay(v, k)
    PROVE  CommitInv'
<1> DEFINE d == [IdleCommit EXCEPT !.step = "returned", !.claim = k]
<1>1. /\ d \in [step : {"idle", "prepared", "answered", "returned"},
                 claim : Claims, attempt : 0..MaxAttempts,
                 answer : {"none", "verified", "other"}, checked : Nat]
      /\ d.step = "returned" /\ d.claim = k
  <2>1. k \in Claims
    BY HandedOut
  <2>2. 0 \in 0..MaxAttempts
    BY CommitAssumption
  <2> QED
    BY <2>1, <2>2 DEF IdleCommit
<1>2. \E i \in DOMAIN trace : attempts[trace[i].attempt].claim = d.claim
  BY <1>1 DEF Replay, AcceptedFor, EventsOf
<1>3. /\ call' = [call EXCEPT ![v] = d]
      /\ UNCHANGED <<now, leased, outbox, latch, claims, attempts, trace>>
  BY DEF Replay
<1> QED
  BY <1>1, <1>2, <1>3, OnlyCallInv

LEMMA VerifyInv ==
    ASSUME CommitInv, NEW v \in Calls, Verify(v)
    PROVE  CommitInv'
<1>1. PICK answer \in {"verified", "other"} :
         call' = [call EXCEPT ![v] =
                    [@ EXCEPT !.step = "answered", !.answer = answer,
                              !.checked = now]]
  BY DEF Verify
<1> DEFINE d == [call[v] EXCEPT !.step = "answered", !.answer = answer,
                                !.checked = now]
<1>2. call[v] \in [step : {"idle", "prepared", "answered", "returned"},
                   claim : Claims, attempt : 0..MaxAttempts,
                   answer : {"none", "verified", "other"}, checked : Nat]
  BY DEF CommitInv, CommitTypeOK
<1>3. now \in Nat
  BY CommitAssumption DEF CommitInv, CommitTypeOK
<1>4. /\ d \in [step : {"idle", "prepared", "answered", "returned"},
                 claim : Claims, attempt : 0..MaxAttempts,
                 answer : {"none", "verified", "other"}, checked : Nat]
      /\ d.step = "answered" /\ d.claim = call[v].claim
      /\ d.attempt = call[v].attempt /\ d.checked = now
  BY <1>2, <1>3
<1>5. /\ call[v].attempt \in Attempts
      /\ attempts[call[v].attempt].state # "unused"
      /\ attempts[call[v].attempt].claim = call[v].claim
  BY CallGoesOn DEF Verify
<1>6. attempts[call[v].attempt].issued <= now
  BY <1>5 DEF CommitInv, IssuedBefore
<1>7. /\ call' = [call EXCEPT ![v] = d]
      /\ UNCHANGED <<now, leased, outbox, latch, claims, attempts, trace>>
  BY <1>1 DEF Verify
<1> HIDE DEF d
<1> QED
  BY <1>4, <1>5, <1>6, <1>7, OnlyCallInv

LEMMA CallEndsInv ==
    ASSUME CommitInv, NEW v \in Calls, CallEnds(v)
    PROVE  CommitInv'
<1>1. /\ IdleCommit \in [step : {"idle", "prepared", "answered", "returned"},
                 claim : Claims, attempt : 0..MaxAttempts,
                 answer : {"none", "verified", "other"}, checked : Nat]
      /\ IdleCommit.step = "idle"
  BY CommitAssumption DEF IdleCommit, NoClaim, Claims
<1> QED
  BY <1>1, OnlyCallInv DEF CallEnds

LEMMA RaceReplayInv ==
    ASSUME CommitInv, NEW v \in Calls, RaceReplay(v)
    PROVE  CommitInv'
<1> DEFINE d == [call[v] EXCEPT !.step = "returned"]
<1>1. call[v] \in [step : {"idle", "prepared", "answered", "returned"},
                   claim : Claims, attempt : 0..MaxAttempts,
                   answer : {"none", "verified", "other"}, checked : Nat]
  BY DEF CommitInv, CommitTypeOK
<1>2. /\ d \in [step : {"idle", "prepared", "answered", "returned"},
                 claim : Claims, attempt : 0..MaxAttempts,
                 answer : {"none", "verified", "other"}, checked : Nat]
      /\ d.step = "returned" /\ d.claim = call[v].claim
  BY <1>1
<1>3. attempts[call[v].attempt].claim = call[v].claim
  BY CallGoesOn DEF RaceReplay
<1>4. \E i \in DOMAIN trace : attempts[trace[i].attempt].claim = d.claim
  BY <1>2, <1>3 DEF RaceReplay, EventsOf
<1>5. /\ call' = [call EXCEPT ![v] = d]
      /\ UNCHANGED <<now, leased, outbox, latch, claims, attempts, trace>>
  BY <1>1 DEF RaceReplay, CommitInv, CommitTypeOK
<1> HIDE DEF d
<1> QED
  BY <1>2, <1>4, <1>5, OnlyCallInv

\* An attempt is issued: the former one of its target is resolved, so that no
\* other issued attempt names this target.
LEMMA IssueInv ==
    ASSUME CommitInv, NEW v \in Calls, NEW k \in claims, NEW a \in Attempts,
           Issue(v, k, a)
    PROVE  CommitInv'
<1> DEFINE c == k.command
           Kept == Superseded(k)
           new == [claim |-> k, issued |-> now, state |-> "issued"]
           Row == [claim : Claims, issued : Nat,
                   state : {"unused", "issued", "accepted", "rejected"}]
<1>1. k \in Claims /\ c \in Commands /\ TargetOf[c] \in Targets
  BY HandedOut
<1>2. /\ CommitTypeOK /\ ClaimsAreReal /\ IssuedBefore /\ CallHasAttempt
      /\ TraceIsCommitted /\ IssuedIsPending /\ EvidenceBacksEvent
      /\ ReceiptForItsClaim
  BY DEF CommitInv
<1>3. /\ outbox[c].phase = "effect-applied"
      /\ latch[TargetOf[c]].command = c
      /\ latch[TargetOf[c]].state = "pending-commit"
      /\ attempts[a].state = "unused"
      /\ attempts' = [Kept EXCEPT ![a] = new]
      /\ latch' = [latch EXCEPT ![TargetOf[c]].attempt = a]
      /\ call' = [call EXCEPT ![v] = CallWith(k, a)]
      /\ UNCHANGED <<now, leased, outbox, claims, trace>>
  BY DEF Issue, Preparable, Authority
<1>4. /\ Kept \in [Attempts -> Row]
      /\ \A b \in Attempts :
            /\ Kept[b].claim = attempts[b].claim
            /\ Kept[b].issued = attempts[b].issued
            /\ Kept[b].state = IF b = PendingAttempt(c)
                                    /\ attempts[b].state = "issued"
                               THEN "rejected" ELSE attempts[b].state
  BY <1>2, ResolvedKeeps DEF Superseded
<1>5. now \in Nat /\ new \in Row
  BY <1>1, <1>2, CommitAssumption DEF CommitTypeOK
<1> HIDE DEF Kept
<1>6. /\ attempts' \in [Attempts -> Row]
      /\ attempts'[a].claim = k /\ attempts'[a].issued = now
      /\ attempts'[a].state = "issued"
  BY <1>3, <1>4, <1>5
<1>7. \A b \in Attempts \ {a} :
         /\ attempts'[b].claim = attempts[b].claim
         /\ attempts'[b].issued = attempts[b].issued
         /\ attempts'[b].state = Kept[b].state
         /\ attempts'[b].state = "unused" <=> attempts[b].state = "unused"
         /\ attempts'[b].state = "accepted" <=> attempts[b].state = "accepted"
         /\ attempts'[b].state = "issued" =>
               attempts[b].state = "issued" /\ b # PendingAttempt(c)
  BY <1>3, <1>4
<1>8. a \in 0..MaxAttempts
  BY CommitAssumption DEF Attempts
<1>9. CommitTypeOK'
  <2>1. call' \in [Calls ->
          [step : {"idle", "prepared", "answered", "returned"},
           claim : Claims, attempt : 0..MaxAttempts,
           answer : {"none", "verified", "other"}, checked : Nat]]
    BY <1>1, <1>2, <1>3, <1>8 DEF CommitTypeOK, CallWith
  <2>2. latch' \in [Targets ->
          [command : 0..NCommands, attempt : 0..MaxAttempts,
           state : {"none", "pending-commit", "blocked-unknown"}]]
    BY <1>1, <1>2, <1>3, <1>8, LatchNames
  <2> QED
    BY <1>2, <1>3, <1>6, <2>1, <2>2 DEF CommitTypeOK
<1>10. ClaimsAreReal' /\ IssuedBefore' /\ TraceIsCommitted'
  <2>1. \A b \in Attempts : attempts'[b].issued <= now
    BY <1>2, <1>5, <1>6, <1>7 DEF IssuedBefore
  <2>2. \A b \in Attempts : attempts'[b].state # "unused" =>
           attempts'[b].claim.command \in Commands
    BY <1>1, <1>2, <1>6, <1>7 DEF ClaimsAreReal
  <2> QED
    BY <1>2, <1>3, <2>1, <2>2
    DEF ClaimsAreReal, IssuedBefore, TraceIsCommitted
<1>11. \A w \in Calls : call'[w] = IF w = v THEN CallWith(k, a) ELSE call[w]
  BY <1>2, <1>3 DEF CommitTypeOK
<1>12. CallHasAttempt'
  <2> SUFFICES ASSUME NEW w \in Calls,
                      call'[w].step \in {"prepared", "answered"}
               PROVE  /\ call'[w].attempt \in Attempts
                      /\ attempts'[call'[w].attempt].state # "unused"
                      /\ attempts'[call'[w].attempt].claim = call'[w].claim
                      /\ call'[w].answer = "verified" =>
                            attempts'[call'[w].attempt].issued
                              <= call'[w].checked
    BY DEF CallHasAttempt
  <2>1. CASE w = v
    BY <1>6, <1>11, <2>1 DEF CallWith
  <2>2. CASE w # v
    <3>1. call'[w] = call[w]
      BY <1>11, <2>2
    <3>2. /\ call[w].attempt \in Attempts
          /\ attempts[call[w].attempt].state # "unused"
          /\ attempts[call[w].attempt].claim = call[w].claim
          /\ call[w].answer = "verified" =>
                attempts[call[w].attempt].issued <= call[w].checked
      BY <1>2, <3>1 DEF CallHasAttempt
    <3>3. call[w].attempt \in Attempts \ {a}
      BY <1>3, <3>2
    <3> QED
      BY <1>7, <3>1, <3>2, <3>3
  <2> QED
    BY <2>1, <2>2
<1>13. IssuedIsPending'
  <2> SUFFICES ASSUME NEW b \in Attempts, attempts'[b].state = "issued"
               PROVE  LET d == attempts'[b].claim.command IN
                      /\ outbox'[d].phase = "effect-applied"
                      /\ latch'[TargetOf[d]].command = d
                      /\ \/ latch'[TargetOf[d]].attempt = b
                         \/ latch'[TargetOf[d]].state = "blocked-unknown"
    BY DEF IssuedIsPending
  <2>1. CASE b = a
    BY <1>1, <1>2, <1>3, <1>6, <2>1 DEF CommitTypeOK
  <2>2. CASE b # a
    <3> DEFINE d == attempts[b].claim.command
    <3>1. /\ attempts'[b].claim.command = d
          /\ attempts[b].state = "issued" /\ b # PendingAttempt(c)
      BY <1>7, <2>2
    <3>2. d \in Commands /\ TargetOf[d] \in Targets
      BY <1>2, <3>1, CommitAssumption DEF ClaimsAreReal
    <3>3. TargetOf[d] # TargetOf[c]
      BY <1>1, <1>3, <3>1, OnlyOneIssued DEF PendingAttempt
    <3>4. latch'[TargetOf[d]] = latch[TargetOf[d]]
      BY <1>2, <1>3, <3>2, <3>3 DEF CommitTypeOK
    <3> QED
      BY <1>2, <1>3, <3>1, <3>4 DEF IssuedIsPending
  <2> QED
    BY <2>1, <2>2
<1>14. \A i \in DOMAIN trace : trace[i].attempt \in Attempts \ {a}
  BY <1>2, <1>3, EventsTyped DEF EvidenceBacksEvent, Events
<1>15. EvidenceBacksEvent'
  BY <1>2, <1>3, <1>7, <1>14 DEF EvidenceBacksEvent
<1>16. ReceiptForItsClaim'
  BY <1>2, <1>3, <1>7, <1>11, <1>14 DEF ReceiptForItsClaim, CallWith
<1> QED
  BY <1>9, <1>10, <1>12, <1>13, <1>15, <1>16 DEF CommitInv

\* What Pending says of a call that goes on.
LEMMA PendingCall ==
    ASSUME CommitInv, NEW v \in Calls, call[v].step = "answered", Pending(v)
    PROVE  LET c == call[v].claim.command IN
           /\ latch[TargetOf[c]].command = c
           /\ latch[TargetOf[c]].state = "pending-commit"
           /\ latch[TargetOf[c]].attempt = call[v].attempt
           /\ attempts[call[v].attempt].state = "issued"
  BY DEF Pending

\* The attempt of a call is resolved and its latch is rewritten: what the
\* invariant says of the attempts that are still issued.
LEMMA ResolvedLeavesPending ==
    ASSUME CommitInv, NEW v \in Calls, call[v].step = "answered", Pending(v),
           NEW state \in {"accepted", "rejected"}, NEW row,
           attempts' = Resolved(call[v].attempt, state),
           latch' = [latch EXCEPT ![TargetOf[call[v].claim.command]] = row],
           \A d \in Commands : d # call[v].claim.command =>
              outbox'[d] = outbox[d]
    PROVE  IssuedIsPending'
<1> DEFINE c == call[v].claim.command
<1>1. CommitTypeOK /\ ClaimsAreReal /\ IssuedIsPending
  BY DEF CommitInv
<1>2. c \in Commands /\ TargetOf[c] \in Targets /\ call[v].attempt \in Attempts
  BY CallGoesOn
<1>3. /\ latch[TargetOf[c]].command = c
      /\ latch[TargetOf[c]].state = "pending-commit"
      /\ latch[TargetOf[c]].attempt = call[v].attempt
  BY PendingCall
<1>4. \A b \in Attempts :
         /\ attempts'[b].claim = attempts[b].claim
         /\ attempts'[b].state = "issued" =>
               attempts[b].state = "issued" /\ b # call[v].attempt
  BY <1>1, ResolvedKeeps
<1> HIDE DEF c
<1> SUFFICES ASSUME NEW b \in Attempts, attempts'[b].state = "issued"
             PROVE  LET d == attempts'[b].claim.command IN
                    /\ outbox'[d].phase = "effect-applied"
                    /\ latch'[TargetOf[d]].command = d
                    /\ \/ latch'[TargetOf[d]].attempt = b
                       \/ latch'[TargetOf[d]].state = "blocked-unknown"
  BY DEF IssuedIsPending
<1> DEFINE d == attempts[b].claim.command
<1>5. /\ attempts'[b].claim.command = d
      /\ attempts[b].state = "issued" /\ b # call[v].attempt
  BY <1>4
<1>6. d \in Commands /\ TargetOf[d] \in Targets
  BY <1>1, <1>5, CommitAssumption DEF ClaimsAreReal
<1>7. TargetOf[d] # TargetOf[c]
  BY <1>2, <1>3, <1>5, OnlyOneIssued
<1>8. latch'[TargetOf[d]] = latch[TargetOf[d]]
  BY <1>1, <1>6, <1>7 DEF CommitTypeOK, c
<1>9. outbox'[d] = outbox[d]
  BY <1>6, <1>7 DEF c
<1> QED
  BY <1>1, <1>5, <1>8, <1>9 DEF IssuedIsPending

LEMMA RejectVerificationInv ==
    ASSUME CommitInv, NEW v \in Calls, RejectVerification(v)
    PROVE  CommitInv'
<1> DEFINE a == call[v].attempt
           c == call[v].claim.command
<1>1. /\ CommitTypeOK /\ ClaimsAreReal /\ IssuedBefore /\ CallHasAttempt
      /\ TraceIsCommitted /\ IssuedIsPending /\ EvidenceBacksEvent
      /\ ReceiptForItsClaim
  BY DEF CommitInv
<1>2. /\ call[v].step = "answered" /\ Pending(v)
      /\ attempts' = Resolved(a, "rejected")
      /\ latch' = [latch EXCEPT ![TargetOf[c]].attempt = 0]
      /\ call' = [call EXCEPT ![v] = IdleCommit]
      /\ UNCHANGED <<now, leased, outbox, claims, trace>>
  BY DEF RejectVerification
<1>3. a \in Attempts /\ c \in Commands /\ TargetOf[c] \in Targets
  BY <1>2, CallGoesOn
<1>4. /\ attempts' \in [Attempts -> [claim : Claims, issued : Nat,
                 state : {"unused", "issued", "accepted", "rejected"}]]
      /\ \A b \in Attempts :
           /\ attempts'[b].claim = attempts[b].claim
           /\ attempts'[b].issued = attempts[b].issued
           /\ attempts'[b].state = "unused" <=> attempts[b].state = "unused"
           /\ attempts[b].state = "accepted" => attempts'[b].state = "accepted"
  BY <1>1, <1>2, ResolvedKeeps
<1>5. \A w \in Calls : call'[w] = IF w = v THEN IdleCommit ELSE call[w]
  BY <1>1, <1>2 DEF CommitTypeOK
<1>6. CommitTypeOK'
  <2>1. 0 \in 0..MaxAttempts /\ 0 \in 0..NCommands /\ 0 \in 0..MaxEpoch
    BY CommitAssumption
  <2>2. IdleCommit \in [step : {"idle", "prepared", "answered", "returned"},
                 claim : Claims, attempt : 0..MaxAttempts,
                 answer : {"none", "verified", "other"}, checked : Nat]
    BY <2>1 DEF IdleCommit, NoClaim, Claims
  <2>3. call' \in [Calls ->
          [step : {"idle", "prepared", "answered", "returned"},
           claim : Claims, attempt : 0..MaxAttempts,
           answer : {"none", "verified", "other"}, checked : Nat]]
    BY <1>1, <1>2, <2>2 DEF CommitTypeOK
  <2>4. latch' \in [Targets ->
          [command : 0..NCommands, attempt : 0..MaxAttempts,
           state : {"none", "pending-commit", "blocked-unknown"}]]
    BY <1>1, <1>2, <1>3, <2>1, LatchNames
  <2> QED
    BY <1>1, <1>2, <1>4, <2>3, <2>4 DEF CommitTypeOK
<1>7. ClaimsAreReal' /\ IssuedBefore' /\ TraceIsCommitted'
  BY <1>1, <1>2, <1>4 DEF ClaimsAreReal, IssuedBefore, TraceIsCommitted
<1>8. CallHasAttempt'
  BY <1>1, <1>4, <1>5 DEF CallHasAttempt, IdleCommit
<1>9. IssuedIsPending'
  <2>1. latch' = [latch EXCEPT ![TargetOf[c]] =
                    [latch[TargetOf[c]] EXCEPT !.attempt = 0]]
    BY <1>2
  <2>2. \A d \in Commands : outbox'[d] = outbox[d]
    BY <1>2
  <2> QED
    BY <1>2, <2>1, <2>2, ResolvedLeavesPending
<1>10. \A i \in DOMAIN trace : trace[i].attempt \in Attempts
  BY <1>1, EventsTyped DEF Events
<1>11. EvidenceBacksEvent'
  BY <1>1, <1>2, <1>4, <1>10 DEF EvidenceBacksEvent
<1>12. ReceiptForItsClaim'
  BY <1>1, <1>2, <1>4, <1>5, <1>10 DEF ReceiptForItsClaim, IdleCommit
<1> QED
  BY <1>6, <1>7, <1>8, <1>9, <1>11, <1>12 DEF CommitInv

\* A commit accepts the pending attempt under the claim it was prepared with.
LEMMA CommitStepInv ==
    ASSUME CommitInv, NEW v \in Calls, Commit(v)
    PROVE  CommitInv'
<1> DEFINE a == call[v].attempt
           c == call[v].claim.command
           e == EventFor(v)
<1>1. /\ CommitTypeOK /\ ClaimsAreReal /\ IssuedBefore /\ CallHasAttempt
      /\ TraceIsCommitted /\ IssuedIsPending /\ EvidenceBacksEvent
      /\ ReceiptForItsClaim
  BY DEF CommitInv
<1>2. /\ call[v].step = "answered" /\ call[v].answer = "verified"
      /\ Pending(v) /\ ClaimHeld(call[v].claim)
      /\ trace' = Append(trace, e)
      /\ attempts' = Resolved(a, "accepted")
      /\ outbox' = [outbox EXCEPT ![c].phase = "committed", ![c].expires = 0]
      /\ latch' = [latch EXCEPT ![TargetOf[c]] = FreeLatch]
      /\ call' = [call EXCEPT ![v].step = "returned"]
      /\ UNCHANGED <<now, leased, claims>>
  BY DEF Commit, Prepared, Acceptable
<1>3. /\ a \in Attempts /\ c \in Commands /\ TargetOf[c] \in Targets
      /\ attempts[a].claim = call[v].claim /\ call[v].claim \in Claims
      /\ attempts[a].issued <= call[v].checked
  BY <1>2, CallGoesOn
<1>4. /\ attempts' \in [Attempts -> [claim : Claims, issued : Nat,
                 state : {"unused", "issued", "accepted", "rejected"}]]
      /\ attempts'[a].state = "accepted"
      /\ \A b \in Attempts :
           /\ attempts'[b].claim = attempts[b].claim
           /\ attempts'[b].issued = attempts[b].issued
           /\ attempts'[b].state = "unused" <=> attempts[b].state = "unused"
           /\ attempts[b].state = "accepted" => attempts'[b].state = "accepted"
  BY <1>1, <1>2, <1>3, ResolvedKeeps, PendingCall
<1>5. \A w \in Calls :
         /\ w # v => call'[w] = call[w]
         /\ call'[v].step = "returned" /\ call'[v].claim = call[v].claim
  BY <1>1, <1>2 DEF CommitTypeOK
<1>6. /\ outbox[c].phase = "effect-applied"
      /\ outbox[c].epoch = call[v].claim.epoch
      /\ now < call[v].claim.expires
  BY <1>1, <1>2, <1>3, HeldClaim
<1>7. outbox[c] \in [phase : {"intent", "effect-applied", "committed"},
                     epoch : 0..MaxEpoch, expires : Nat]
  BY <1>1, <1>3 DEF CommitTypeOK
<1>8. outbox' = [outbox EXCEPT ![c] = [outbox[c] EXCEPT
                   !.phase = "committed", !.expires = 0]]
  BY <1>1, <1>2, <1>3 DEF CommitTypeOK
<1>9. /\ outbox'[c].phase = "committed" /\ outbox'[c].epoch = outbox[c].epoch
      /\ \A d \in Commands : d # c => outbox'[d] = outbox[d]
  BY <1>1, <1>3, <1>7, <1>8 DEF CommitTypeOK
<1>10. /\ e \in Events /\ e.command = c /\ e.attempt = a
       /\ e.checked = call[v].checked /\ e.at = now
  <2>1. now \in Nat /\ call[v].checked \in Nat
    BY <1>1, CommitAssumption DEF CommitTypeOK
  <2> QED
    BY <1>3, <2>1 DEF EventFor, Events
<1> HIDE DEF e
<1>11. /\ trace' \in Seq(Events) /\ Len(trace') = Len(trace) + 1
       /\ DOMAIN trace' = 1..(Len(trace) + 1) /\ DOMAIN trace = 1..Len(trace)
       /\ trace'[Len(trace) + 1] = e
       /\ \A i \in DOMAIN trace : trace'[i] = trace[i]
  BY <1>1, <1>2, <1>10, AppendProperties, LenProperties DEF CommitTypeOK
<1>12. \A i \in DOMAIN trace' : i \in DOMAIN trace \/ i = Len(trace) + 1
  BY <1>11, LenProperties, <1>1 DEF CommitTypeOK
<1>13. CommitTypeOK'
  <2>1. [outbox[c] EXCEPT !.phase = "committed", !.expires = 0] \in
          [phase : {"intent", "effect-applied", "committed"},
           epoch : 0..MaxEpoch, expires : Nat]
    BY <1>7
  <2>2. outbox' \in [Commands ->
          [phase : {"intent", "effect-applied", "committed"},
           epoch : 0..MaxEpoch, expires : Nat]]
    BY <1>1, <1>8, <2>1 DEF CommitTypeOK
  <2>3. FreeLatch \in [command : 0..NCommands, attempt : 0..MaxAttempts,
                       state : {"none", "pending-commit", "blocked-unknown"}]
    BY CommitAssumption DEF FreeLatch
  <2>4. latch' \in [Targets ->
          [command : 0..NCommands, attempt : 0..MaxAttempts,
           state : {"none", "pending-commit", "blocked-unknown"}]]
    BY <1>1, <1>2, <2>3 DEF CommitTypeOK
  <2>5. call' \in [Calls ->
          [step : {"idle", "prepared", "answered", "returned"},
           claim : Claims, attempt : 0..MaxAttempts,
           answer : {"none", "verified", "other"}, checked : Nat]]
    BY <1>1, <1>2 DEF CommitTypeOK
  <2> QED
    BY <1>1, <1>2, <1>4, <1>11, <2>2, <2>4, <2>5 DEF CommitTypeOK
<1>14. ClaimsAreReal' /\ IssuedBefore'
  BY <1>1, <1>2, <1>4 DEF ClaimsAreReal, IssuedBefore
<1>15. CallHasAttempt'
  BY <1>1, <1>4, <1>5 DEF CallHasAttempt
<1>16. IssuedIsPending'
  BY <1>2, <1>9, ResolvedLeavesPending
<1>17. \A i \in DOMAIN trace :
          /\ trace[i].attempt \in Attempts /\ trace[i].command \in Commands
          /\ trace[i].command # c
  BY <1>1, <1>6, EventsTyped DEF Events, TraceIsCommitted
<1>18. TraceIsCommitted'
  BY <1>1, <1>9, <1>10, <1>11, <1>12, <1>17 DEF TraceIsCommitted
<1>19. EvidenceBacksEvent'
  <2> SUFFICES ASSUME NEW i \in DOMAIN trace'
               PROVE  LET attempt == attempts'[trace'[i].attempt] IN
                      /\ attempt.state = "accepted"
                      /\ attempt.claim.command = trace'[i].command
                      /\ attempt.claim.epoch = outbox'[trace'[i].command].epoch
                      /\ attempt.issued <= trace'[i].checked
                      /\ trace'[i].at < attempt.claim.expires
    BY DEF EvidenceBacksEvent
  <2>1. CASE i \in DOMAIN trace
    BY <1>1, <1>4, <1>9, <1>11, <1>17, <2>1 DEF EvidenceBacksEvent
  <2>2. CASE i = Len(trace) + 1
    BY <1>3, <1>4, <1>6, <1>9, <1>10, <1>11, <2>2
  <2> QED
    BY <1>12, <2>1, <2>2
<1>20. ReceiptForItsClaim'
  <2> SUFFICES ASSUME NEW w \in Calls, call'[w].step = "returned"
               PROVE  \E i \in DOMAIN trace' :
                         attempts'[trace'[i].attempt].claim = call'[w].claim
    BY DEF ReceiptForItsClaim
  <2>1. CASE w = v
    <3>1. Len(trace) + 1 \in DOMAIN trace'
      BY <1>1, <1>11, LenProperties DEF CommitTypeOK
    <3> QED
      BY <1>3, <1>4, <1>5, <1>10, <1>11, <2>1, <3>1
  <2>2. CASE w # v
    <3>1. PICK i \in DOMAIN trace :
             attempts[trace[i].attempt].claim = call[w].claim
      BY <1>1, <1>5, <2>2 DEF ReceiptForItsClaim
    <3>2. i \in DOMAIN trace'
      BY <1>1, <1>11, LenProperties DEF CommitTypeOK
    <3> QED
      BY <1>4, <1>5, <1>11, <1>17, <2>2, <3>1, <3>2
  <2> QED
    BY <2>1, <2>2
<1> QED
  BY <1>13, <1>14, <1>15, <1>16, <1>18, <1>19, <1>20 DEF CommitInv

LEMMA CommitInvStep == CommitInv /\ [CommitNext]_commitVars => CommitInv'
<1> SUFFICES ASSUME CommitInv, [CommitNext]_commitVars PROVE CommitInv'
  OBVIOUS
<1>1. CASE Tick
  BY <1>1, TickInv
<1>2. CASE \E c \in Commands :
             EffectApplied(c) \/ LeaseExpires(c) \/ LateUnknown(c) \/ Claim(c)
  BY <1>2, PipelineInv
<1>3. ASSUME NEW v \in Calls, VerifyAndCommit(v) \/ CallEnds(v)
      PROVE  CommitInv'
  BY <1>3, ResumeInv, ReplayInv, IssueInv, VerifyInv, RejectVerificationInv,
     CommitStepInv, RaceReplayInv, CallEndsInv DEF VerifyAndCommit
<1>4. CASE UNCHANGED commitVars
  BY <1>4 DEF commitVars, CommitInv, CommitTypeOK, ClaimsAreReal, IssuedBefore,
     CallHasAttempt, TraceIsCommitted, IssuedIsPending, EvidenceBacksEvent,
     ReceiptForItsClaim
<1> QED
  BY <1>1, <1>2, <1>3, <1>4 DEF CommitNext

THEOREM CommitInvAlways == CommitSpec => []CommitInv
<1> QED
  BY InitCommitInv, CommitInvStep, PTL DEF CommitSpec

-----------------------------------------------------------------------------
(* The theorems.                                                           *)

\* The variables keep their types: the clock, the leases, the outbox rows, the
\* latches, the claims, the attempts, the trace and the calls.
THEOREM CommitTypeCorrect == CommitSpec => []CommitTypeOK
<1>1. CommitInv => CommitTypeOK
  BY DEF CommitInv
<1> QED
  BY <1>1, CommitInvAlways, PTL

\* An attempt that could still be accepted is the one the latch of its target
\* names, or a late recordUnknown has wiped the latch.
THEOREM IssuedPending == CommitSpec => []IssuedIsPending
<1>1. CommitInv => IssuedIsPending
  BY DEF CommitInv
<1> QED
  BY <1>1, CommitInvAlways, PTL

\* Every event of the trace rests on evidence of the last claim on its command,
\* taken after its challenge and while that claim was live.
THEOREM EvidenceSound == CommitSpec => []EvidenceBacksEvent
<1>1. CommitInv => EvidenceBacksEvent
  BY DEF CommitInv
<1> QED
  BY <1>1, CommitInvAlways, PTL

\* No call returns the receipt of a claim other than its own.
THEOREM ReceiptSound == CommitSpec => []ReceiptForItsClaim
<1>1. CommitInv => ReceiptForItsClaim
  BY DEF CommitInv
<1> QED
  BY <1>1, CommitInvAlways, PTL

-----------------------------------------------------------------------------
(* The store implements CommitLog.                                         *)

\* The commands of the trace, in its order: the log of the mapping.
Committeds == [i \in DOMAIN trace |-> trace[i].command]

LogOfTrace ==
    /\ Committeds \in Seq(Commands)
    /\ Len(Committeds) = Len(trace)
    /\ DOMAIN trace = 1..Len(trace)
    /\ Len(trace) \in Nat
    /\ \A i \in DOMAIN trace : Committeds[i] = trace[i].command

LEMMA LogIsSeq == CommitTypeOK => LogOfTrace
<1> SUFFICES ASSUME CommitTypeOK PROVE LogOfTrace
  OBVIOUS
<1>1. trace \in Seq(Events)
  BY DEF CommitTypeOK
<1>2. Len(trace) \in Nat /\ DOMAIN trace = 1..Len(trace)
  BY <1>1, LenProperties
<1>3. \A i \in 1..Len(trace) : trace[i].command \in Commands
  BY <1>2, EventsTyped DEF Events
<1> QED
  BY <1>2, <1>3 DEF Committeds, LogOfTrace

LEMMA LogAfter == CommitTypeOK' => LogOfTrace'
  BY LogIsSeq, PTL

LEMMA LogInit == CommitInit => Log!Init
<1> SUFFICES ASSUME CommitInit PROVE Log!Init
  OBVIOUS
<1>1. Status = [c \in Commands |-> "open"]
  BY DEF CommitInit, Status
<1>2. CommitTypeOK
  BY InitCommitInv DEF CommitInv
<1>3. trace = <<>> /\ Len(trace) = 0
  BY DEF CommitInit
<1>4. Committeds \in Seq(Commands) /\ Len(Committeds) = 0
  BY <1>2, <1>3, LogIsSeq DEF LogOfTrace
<1>5. Committeds = <<>>
  BY <1>4, EmptySeq
<1> QED
  BY <1>1, <1>5 DEF Log!Init, Committeds

\* The status of a command is the phase of its outbox row under another name.
StatusNames ==
    /\ DOMAIN Status = Commands
    /\ Status = [c \in Commands |-> Status[c]]
    /\ \A c \in Commands :
          /\ outbox[c].phase = "intent" => Status[c] = "open"
          /\ outbox[c].phase = "effect-applied" => Status[c] = "applied"
          /\ outbox[c].phase = "committed" => Status[c] = "committed"

LEMMA StatusByPhase == StatusNames
<1> DEFINE Name(c) == CASE outbox[c].phase = "intent" -> "open"
                        [] outbox[c].phase = "effect-applied" -> "applied"
                        [] outbox[c].phase = "committed" -> "committed"
<1>1. Status = [c \in Commands |-> Name(c)]
  BY DEF Status
<1>2. ASSUME NEW c \in Commands
      PROVE  /\ outbox[c].phase = "intent" => Name(c) = "open"
             /\ outbox[c].phase = "effect-applied" => Name(c) = "applied"
             /\ outbox[c].phase = "committed" => Name(c) = "committed"
  <2>1. ASSUME outbox[c].phase = "intent" PROVE Name(c) = "open"
    BY <2>1
  <2>2. ASSUME outbox[c].phase = "effect-applied" PROVE Name(c) = "applied"
    BY <2>2
  <2>3. ASSUME outbox[c].phase = "committed" PROVE Name(c) = "committed"
    BY <2>3
  <2> QED
    BY <2>1, <2>2, <2>3
<1> HIDE DEF Name
<1> QED
  BY <1>1, <1>2 DEF StatusNames

LEMMA StatusAfter == StatusNames'
  BY StatusByPhase, PTL

\* Every phase is one of three, so equal phases have equal status.
LEMMA StatusFollows ==
    ASSUME CommitTypeOK, CommitTypeOK'
    PROVE  /\ Status \in [Commands -> {"open", "applied", "committed"}]
           /\ Status' \in [Commands -> {"open", "applied", "committed"}]
           /\ \A c \in Commands :
                 /\ outbox'[c].phase = outbox[c].phase => Status'[c] = Status[c]
                 /\ outbox[c].phase = "intent" <=> Status[c] = "open"
                 /\ outbox[c].phase = "effect-applied" <=> Status[c] = "applied"
                 /\ outbox'[c].phase = "effect-applied" <=> Status'[c] = "applied"
                 /\ outbox'[c].phase = "committed" <=> Status'[c] = "committed"
<1>1. \A c \in Commands :
         /\ outbox[c].phase \in {"intent", "effect-applied", "committed"}
         /\ outbox'[c].phase \in {"intent", "effect-applied", "committed"}
  BY DEF CommitTypeOK
<1> QED
  BY <1>1, StatusByPhase, StatusAfter DEF StatusNames

\* A commit appends the command of its event and settles its row.
LEMMA CommitIsLogged ==
    ASSUME CommitInv, CommitInv', NEW v \in Calls, Commit(v),
           NEW c \in Commands, c = call[v].claim.command
    PROVE  Log!Committed(c)
<1>1. CommitTypeOK /\ CommitTypeOK'
  BY DEF CommitInv
<1>2. c \in Commands
  OBVIOUS
<1>3. /\ trace' = Append(trace, EventFor(v))
      /\ EventFor(v).command = c
      /\ outbox[c].phase = "effect-applied"
      /\ outbox' = [outbox EXCEPT ![c].phase = "committed", ![c].expires = 0]
  BY DEF Commit, Prepared, Authority, EventFor
<1>4. /\ outbox'[c].phase = "committed"
      /\ \A d \in Commands : d # c => outbox'[d] = outbox[d]
  BY <1>1, <1>2, <1>3 DEF CommitTypeOK
<1>5. Status[c] = "applied" /\ Status' = [Status EXCEPT ![c] = "committed"]
  <2>1. /\ Status \in [Commands -> {"open", "applied", "committed"}]
        /\ Status' \in [Commands -> {"open", "applied", "committed"}]
    BY <1>1, StatusFollows
  <2>2. Status[c] = "applied" /\ Status'[c] = "committed"
    BY <1>1, <1>2, <1>3, <1>4, StatusFollows
  <2>3. \A d \in Commands : d # c => Status'[d] = Status[d]
    BY <1>1, <1>4, StatusFollows
  <2> QED
    BY <1>2, <2>1, <2>2, <2>3
<1>6. Committeds' = Append(Committeds, c)
  <2>1. /\ Committeds \in Seq(Commands) /\ Committeds' \in Seq(Commands)
        /\ Len(Committeds) = Len(trace) /\ Len(Committeds') = Len(trace')
        /\ DOMAIN trace = 1..Len(trace) /\ DOMAIN trace' = 1..Len(trace')
        /\ Len(trace) \in Nat
        /\ \A i \in DOMAIN trace : Committeds[i] = trace[i].command
        /\ \A i \in DOMAIN trace' : Committeds'[i] = trace'[i].command
    BY <1>1, LogIsSeq, LogAfter DEF LogOfTrace
  <2>2. /\ Len(trace') = Len(trace) + 1
        /\ trace'[Len(trace) + 1].command = c
        /\ \A i \in 1..Len(trace) : trace'[i] = trace[i]
    BY <1>1, <1>3, AppendProperties DEF CommitTypeOK
  <2>3. /\ Append(Committeds, c) \in Seq(Commands)
        /\ Len(Append(Committeds, c)) = Len(trace) + 1
        /\ Append(Committeds, c)[Len(trace) + 1] = c
        /\ \A i \in 1..Len(trace) : Append(Committeds, c)[i] = Committeds[i]
    BY <1>2, <2>1, AppendProperties
  <2>4. \A i \in 1..(Len(trace) + 1) : Committeds'[i] = Append(Committeds, c)[i]
    BY <2>1, <2>2, <2>3
  <2> QED
    BY <2>1, <2>2, <2>3, <2>4, SeqEqual
<1> QED
  BY <1>5, <1>6 DEF Log!Committed, Committeds

LEMMA LogStep ==
    ASSUME CommitInv, CommitInv', [CommitNext]_commitVars
    PROVE  [Log!Next]_(Log!logVars)
<1>1. CommitTypeOK /\ CommitTypeOK'
  BY DEF CommitInv
<1>2. ASSUME NEW c \in Commands, EffectApplied(c)
      PROVE  Log!Applied(c)
  <2>1. Status[c] = "open" /\ Status' = [Status EXCEPT ![c] = "applied"]
    <3>1. /\ outbox[c].phase = "intent"
          /\ outbox'[c].phase = "effect-applied"
          /\ \A d \in Commands : d # c => outbox'[d] = outbox[d]
      BY <1>1, <1>2 DEF EffectApplied, CommitTypeOK
    <3> QED
      BY <1>1, <3>1, StatusFollows
  <2> QED
    BY <1>2, <2>1 DEF EffectApplied, Log!Applied
<1>3. ASSUME NEW c \in Commands, Claim(c)
      PROVE  Status' = Status /\ UNCHANGED trace
  <2>1. \A d \in Commands : outbox'[d].phase = outbox[d].phase
    BY <1>1, <1>3 DEF Claim, CommitTypeOK
  <2> QED
    <3>1. /\ Status \in [Commands -> {"open", "applied", "committed"}]
          /\ Status' \in [Commands -> {"open", "applied", "committed"}]
          /\ \A d \in Commands : Status'[d] = Status[d]
      BY <1>1, <2>1, StatusFollows
    <3>2. UNCHANGED trace
      BY <1>3 DEF Claim
    <3> QED
      BY <3>1, <3>2
<1>4. ASSUME UNCHANGED <<outbox, trace>>
      PROVE  UNCHANGED Log!logVars
  BY <1>4 DEF Log!logVars, Status
<1>5. CASE \E v \in Calls : Commit(v)
  <2>1. PICK v \in Calls : Commit(v)
    BY <1>5
  <2>2. PICK c \in Commands : c = call[v].claim.command
    BY <2>1, CallGoesOn DEF Commit
  <2>3. Log!Committed(c)
    BY <2>1, <2>2, CommitIsLogged
  <2> QED
    BY <2>3 DEF Log!Next
<1>6. CASE \E c \in Commands : EffectApplied(c)
  BY <1>2, <1>6 DEF Log!Next
<1>7. CASE \E c \in Commands : Claim(c)
  BY <1>3, <1>7 DEF Log!logVars
<1>8. CASE UNCHANGED <<outbox, trace>>
  BY <1>4, <1>8
<1> QED
  BY <1>5, <1>6, <1>7, <1>8 DEF CommitNext, commitVars, Tick, LeaseExpires,
     LateUnknown, VerifyAndCommit, Resume, Replay, Issue, Verify,
     RejectVerification, RaceReplay, CallEnds

\* Every behaviour of the store is one of CommitLog: an applied effect reaches
\* the trace at most once, together with its row, and nothing leaves it.
THEOREM CommitsLogged == CommitSpec => CommitsAreLogged
<1>1. CommitSpec => Log!Init /\ [][Log!Next]_(Log!logVars)
  BY LogInit, LogStep, CommitInvAlways, PTL DEF CommitSpec
<1> QED
  BY <1>1 DEF CommitsAreLogged, Log!Spec
=============================================================================
