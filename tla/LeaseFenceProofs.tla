-------------------------- MODULE LeaseFenceProofs --------------------------
(***************************************************************************)
(* The safety properties of LeaseFence, for every number of holders and    *)
(* callers, every ttl and every bound.                                     *)
(*                                                                         *)
(* FenceBacksLease is not inductive: that recording an answer is enough    *)
(* rests on what the requests still under way may ask for and on what the  *)
(* answers already given say about the fence.  LeaseInv adds both.         *)
(***************************************************************************)
EXTENDS LeaseFence, TLAPS

\* A call names the current lease or an older one, and never a lease that
\* another holder was given under the same epoch.
CallsNameLeases ==
    \A k \in Callers : call[k].step # "idle" =>
        /\ call[k].epoch > 0
        /\ call[k].epoch <= lease.epoch
        /\ call[k].epoch = lease.epoch => call[k].holder = lease.holder

\* After an answer that is not a rejection the fence is the one asked for, or
\* a later one.
AnswersHold ==
    \A k \in Callers :
        \/ call[k].step = "answered" /\ call[k].result # "rejected"
        \/ call[k].step = "recorded"
        => /\ call[k].epoch <= fence.epoch
           /\ call[k].epoch = fence.epoch => call[k].holder = fence.holder

LeaseInv ==
    /\ LeaseTypeOK
    /\ FenceNotAhead
    /\ FenceBacksLease
    /\ CallsNameLeases
    /\ AnswersHold

\* The invariant holds in the empty stores.
LEMMA LeaseInitInv == LeaseInit => LeaseInv
BY BoundAssumption
   DEF LeaseInit, LeaseInv, LeaseTypeOK, FenceNotAhead, FenceBacksLease,
       CallsNameLeases, AnswersHold, NoLease, NoFence, IdleCall, Phases

\* Every step of the lease keeps the types of its variables.
LEMMA LeaseTypeStep == LeaseTypeOK /\ [LeaseNext]_leaseVars => LeaseTypeOK'
<1> SUFFICES ASSUME LeaseTypeOK, [LeaseNext]_leaseVars PROVE LeaseTypeOK'
  OBVIOUS
<1> USE DEF LeaseTypeOK, Phases
<1>1. ASSUME NEW h \in Holders, Acquire(h) PROVE LeaseTypeOK'
  BY <1>1, LeaseTTLAssumption DEF Acquire
<1>2. ASSUME NEW k \in Callers, PrepareActivation(k) PROVE LeaseTypeOK'
  BY <1>2 DEF PrepareActivation, RequireExact
<1>3. ASSUME NEW k \in Callers, ActivateFence(k) PROVE LeaseTypeOK'
  <2>1. FenceAnswer(call[k].holder, call[k].epoch)
           \in {"activated", "replayed", "rejected"}
    BY DEF FenceAnswer
  <2>2. fence' \in [holder : Holders \union {None}, epoch : Nat]
    BY <1>3 DEF ActivateFence
  <2>3. [call[k] EXCEPT !.step = "answered",
                        !.result = FenceAnswer(call[k].holder, call[k].epoch)]
           \in [step : {"idle", "requested", "answered", "recorded"},
               holder : Holders \union {None}, epoch : Nat,
               result : {"none", "activated", "replayed", "rejected"}]
    BY <2>1
  <2>4. QED
    BY <1>3, <2>2, <2>3 DEF ActivateFence
<1>4. ASSUME NEW k \in Callers, RecordTargetActivation(k) PROVE LeaseTypeOK'
  BY <1>4 DEF RecordTargetActivation, RequireExact, IdleCall
<1>5. ASSUME NEW k \in Callers, FinalizeActivation(k) PROVE LeaseTypeOK'
  BY <1>5 DEF FinalizeActivation, RequireExact, IdleCall
<1>6. ASSUME NEW k \in Callers, Abandon(k) PROVE LeaseTypeOK'
  BY <1>6, BoundAssumption DEF Abandon, IdleCall
<1>7. CASE Tick
  BY <1>7, BoundAssumption DEF Tick
<1>8. CASE UNCHANGED leaseVars
  BY <1>8 DEF leaseVars
<1>9. QED
  BY <1>1, <1>2, <1>3, <1>4, <1>5, <1>6, <1>7, <1>8
     DEF LeaseNext, LeaseStep, Handshake

\* Every step of the lease keeps the invariant.  Only Acquire moves the lease
\* to another holder, and it does so under an epoch no call has yet named;
\* only ActivateFence moves the fence, and never beyond the lease.
LEMMA LeaseInvStep == LeaseInv /\ [LeaseNext]_leaseVars => LeaseInv'
<1> SUFFICES ASSUME LeaseInv, [LeaseNext]_leaseVars PROVE LeaseInv'
  OBVIOUS
<1>0. LeaseTypeOK /\ LeaseTypeOK'
  BY LeaseTypeStep DEF LeaseInv
<1> USE <1>0 DEF LeaseInv, LeaseTypeOK, FenceNotAhead, FenceBacksLease,
                 CallsNameLeases, AnswersHold
<1>1. ASSUME NEW h \in Holders, Acquire(h) PROVE LeaseInv'
  BY <1>1 DEF Acquire
<1>2. ASSUME NEW k \in Callers, PrepareActivation(k) PROVE LeaseInv'
  BY <1>2 DEF PrepareActivation, RequireExact
<1>3. ASSUME NEW k \in Callers, ActivateFence(k) PROVE LeaseInv'
  <2>1. CASE FenceAnswer(call[k].holder, call[k].epoch) = "activated"
    <3>1. /\ fence' = [holder |-> call[k].holder, epoch |-> call[k].epoch]
          /\ call[k].epoch > fence.epoch
          /\ lease' = lease
      BY <1>3, <2>1 DEF ActivateFence, FenceAnswer
    <3>2. FenceNotAhead' /\ FenceBacksLease'
      BY <1>3, <3>1 DEF ActivateFence
    <3>3. CallsNameLeases' /\ AnswersHold'
      BY <1>3, <3>1 DEF ActivateFence
    <3>4. QED
      BY <3>2, <3>3
  <2>2. CASE FenceAnswer(call[k].holder, call[k].epoch) # "activated"
    BY <1>3, <2>2 DEF ActivateFence, FenceAnswer
  <2>3. QED
    BY <2>1, <2>2
<1>4. ASSUME NEW k \in Callers, RecordTargetActivation(k) PROVE LeaseInv'
  BY <1>4 DEF RecordTargetActivation, RequireExact, IdleCall
<1>5. ASSUME NEW k \in Callers, FinalizeActivation(k) PROVE LeaseInv'
  BY <1>5 DEF FinalizeActivation, RequireExact, IdleCall
<1>6. ASSUME NEW k \in Callers, Abandon(k) PROVE LeaseInv'
  BY <1>6 DEF Abandon, IdleCall
<1>7. CASE Tick
  BY <1>7 DEF Tick
<1>8. CASE UNCHANGED leaseVars
  BY <1>8 DEF leaseVars
<1>9. QED
  BY <1>1, <1>2, <1>3, <1>4, <1>5, <1>6, <1>7, <1>8
     DEF LeaseNext, LeaseStep, Handshake

\* The inductive invariant of the lease and its fence: LeaseStore,
\* CanvasFenceCoordinator and activateFence together never leave it.
THEOREM LeaseInvariant == LeaseSpec => []LeaseInv
BY LeaseInitInv, LeaseInvStep, PTL DEF LeaseSpec

\* Every reachable row of "leases" and "target_fences", and every handshake
\* under way, has the shape the schema gives it.
THEOREM LeaseTypeCorrect == LeaseSpec => []LeaseTypeOK
BY LeaseInvariant, PTL DEF LeaseInv

\* A lease the runtime calls activated or active is the one the target's
\* fence names, whatever handshakes were cut short, repeated or overtaken.
THEOREM LeaseIsFenced == LeaseSpec => []FenceBacksLease
BY LeaseInvariant, PTL DEF LeaseInv

\* The target's fence is never ahead of the lease row and never names another
\* holder under the same epoch.
THEOREM FenceFollowsLease == LeaseSpec => []FenceNotAhead
BY LeaseInvariant, PTL DEF LeaseInv

\* No step takes a fence back: activateFence replaces it by a higher epoch or
\* leaves it alone.
THEOREM FenceRises == LeaseSpec => FenceOnlyRises
<1>1. LeaseInv /\ [LeaseNext]_leaseVars
        => [fence' # fence => fence'.epoch > fence.epoch]_leaseVars
  <2> SUFFICES ASSUME LeaseNext, fence' # fence
               PROVE  fence'.epoch > fence.epoch
    BY DEF leaseVars
  <2>1. PICK k \in Callers : ActivateFence(k)
    BY DEF LeaseNext, LeaseStep, Handshake, Acquire, PrepareActivation,
           RecordTargetActivation, FinalizeActivation, Abandon, Tick
  <2>2. QED
    BY <2>1 DEF ActivateFence, FenceAnswer
<1>2. QED
  BY <1>1, LeaseInvariant, PTL DEF LeaseSpec, FenceOnlyRises
=============================================================================
