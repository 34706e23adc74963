----------------------------- MODULE LeaseFence -----------------------------
(***************************************************************************)
(* The editing lease of one canvas target and the fence the target keeps   *)
(* for it: LeaseStore (runtime SQLite), CanvasFenceCoordinator (the        *)
(* handshake between the two stores) and activateFence of                  *)
(* CanvasTargetAuthority (target SQLite).                                  *)
(*                                                                         *)
(* Each database transaction is one action, because both stores run it     *)
(* between BEGIN IMMEDIATE and COMMIT.  The target call sits outside the   *)
(* runtime transaction, so a handshake is four actions, and anything may   *)
(* happen between two of them.                                             *)
(***************************************************************************)
EXTENDS Integers

CONSTANTS
    Holders,      \* lease identities: a lease id together with its holder id
    Callers,      \* calls of activateCanvasLease that may be in progress
    None,         \* no holder
    LeaseTTLs,    \* the ttlMilliseconds a caller may ask for
    MaxTime,      \* bound of the clock
    MaxAbandons   \* bound of the crashes of a handshake

ASSUME HolderAssumption == None \notin Holders
ASSUME LeaseTTLAssumption == LeaseTTLs \subseteq Nat \ {0}
ASSUME BoundAssumption == MaxTime \in Nat /\ MaxAbandons \in Nat

VARIABLES
    now,          \* the injected clock, which never goes back
    lease,        \* the row of the target in "leases"; epoch 0: no row
    fence,        \* the row of the target in "target_fences"; epoch 0: no row
    call,         \* the handshakes in progress
    abandons      \* handshakes cut short so far

leaseVars == <<now, lease, fence, call, abandons>>

Phases == {"none", "pending-fence", "target-activated", "active"}

NoLease == [holder |-> None, epoch |-> 0, expires |-> 0, phase |-> "none"]
NoFence == [holder |-> None, epoch |-> 0]
IdleCall == [step |-> "idle", holder |-> None, epoch |-> 0, result |-> "none"]

LeaseTypeOK ==
    /\ now \in 0..MaxTime
    /\ lease \in [holder : Holders \union {None}, epoch : Nat,
                  expires : Nat, phase : Phases]
    /\ fence \in [holder : Holders \union {None}, epoch : Nat]
    /\ call \in [Callers ->
          [step : {"idle", "requested", "answered", "recorded"},
           holder : Holders \union {None}, epoch : Nat,
           result : {"none", "activated", "replayed", "rejected"}]]
    /\ abandons \in 0..MaxAbandons

LeaseInit ==
    /\ now = 0
    /\ lease = NoLease
    /\ fence = NoFence
    /\ call = [k \in Callers |-> IdleCall]
    /\ abandons = 0

-----------------------------------------------------------------------------
(* LeaseStore: who holds the row, and for how long.                        *)

\* Mutant: the row is not compared with the lease the caller names.
RequireUnexpired(holder, epoch) == lease.epoch > 0 /\ now < lease.expires

\* The checks shared by prepareActivation, recordTargetActivation and
\* finalizeActivation: the row exists, names this lease and epoch, is unexpired.
RequireExact(holder, epoch) ==
    /\ lease.epoch > 0
    /\ lease.holder = holder
    /\ lease.epoch = epoch
    /\ now < lease.expires

\* LeaseStore.assert: what every effect and every commit asks of its lease.
Asserted(holder, epoch) ==
    /\ RequireExact(holder, epoch)
    /\ lease.phase = "active"

\* Mutant: a lease taken over keeps the epoch of its predecessor.
TakeOver(h) ==
    /\ now >= lease.expires
    /\ \E ttl \in LeaseTTLs :
          lease' = [holder |-> h,
                    epoch |-> IF lease.epoch = 0 THEN 1 ELSE lease.epoch,
                    expires |-> now + ttl, phase |-> "pending-fence"]
    /\ UNCHANGED <<now, fence, call, abandons>>

\* acquireLease with a platform target: the previous lease has expired, the
\* epoch advances, and the new lease waits for its fence.
Acquire(h) ==
    /\ now >= lease.expires
    /\ \E ttl \in LeaseTTLs :
          lease' = [holder |-> h, epoch |-> lease.epoch + 1,
                    expires |-> now + ttl, phase |-> "pending-fence"]
    /\ UNCHANGED <<now, fence, call, abandons>>

-----------------------------------------------------------------------------
(* The handshake of one caller.                                            *)

PrepareActivation(k) ==
    /\ call[k].step = "idle"
    /\ RequireExact(lease.holder, lease.epoch)
    /\ call' = [call EXCEPT ![k] =
                  [step |-> "requested", holder |-> lease.holder,
                   epoch |-> lease.epoch, result |-> "none"]]
    /\ UNCHANGED <<now, lease, fence, abandons>>

\* Mutant: any request that is not an exact repetition activates.
FenceAnswerUnordered(holder, epoch) ==
    IF epoch = fence.epoch /\ holder = fence.holder THEN "replayed"
    ELSE "activated"

\* Mutant: an exact repetition is a conflict.
FenceAnswerOnce(holder, epoch) ==
    IF epoch > fence.epoch THEN "activated" ELSE "rejected"

\* The answer of the target's own transaction to an activation request.
FenceAnswer(holder, epoch) ==
    IF epoch > fence.epoch THEN "activated"
    ELSE IF epoch = fence.epoch /\ holder = fence.holder THEN "replayed"
    ELSE "rejected"

ActivateFence(k) ==
    LET answer == FenceAnswer(call[k].holder, call[k].epoch) IN
    /\ call[k].step = "requested"
    /\ fence' = IF answer = "activated"
                THEN [holder |-> call[k].holder, epoch |-> call[k].epoch]
                ELSE fence
    /\ call' = [call EXCEPT ![k].step = "answered", ![k].result = answer]
    /\ UNCHANGED <<now, lease, abandons>>

\* A rejection, or a lease replaced or expired meanwhile, ends the call and
\* leaves the row alone; an already active lease stays active.
RecordTargetActivation(k) ==
    /\ call[k].step = "answered"
    /\ IF call[k].result # "rejected"
          /\ RequireExact(call[k].holder, call[k].epoch)
       THEN /\ lease' = [lease EXCEPT !.phase =
                            IF @ = "active" THEN @ ELSE "target-activated"]
            /\ call' = [call EXCEPT ![k].step = "recorded"]
       ELSE /\ call' = [call EXCEPT ![k] = IdleCall]
            /\ UNCHANGED lease
    /\ UNCHANGED <<now, fence, abandons>>

\* Mutant: the phase written is not one the column allows.
FinalizeActivated(k) ==
    /\ call[k].step = "recorded"
    /\ call' = [call EXCEPT ![k] = IdleCall]
    /\ lease' = [lease EXCEPT !.phase = "activated"]
    /\ UNCHANGED <<now, fence, abandons>>

FinalizeActivation(k) ==
    /\ call[k].step = "recorded"
    /\ call' = [call EXCEPT ![k] = IdleCall]
    /\ lease' = IF /\ RequireExact(call[k].holder, call[k].epoch)
                   /\ lease.phase \in {"target-activated", "active"}
                THEN [lease EXCEPT !.phase = "active"]
                ELSE lease
    /\ UNCHANGED <<now, fence, abandons>>

\* The process dies, or the target throws: the call is over wherever it was,
\* and what either store holds by then stays.
Abandon(k) ==
    /\ call[k].step # "idle"
    /\ abandons < MaxAbandons
    /\ abandons' = abandons + 1
    /\ call' = [call EXCEPT ![k] = IdleCall]
    /\ UNCHANGED <<now, lease, fence>>

Tick ==
    /\ now < MaxTime
    /\ now' = now + 1
    /\ UNCHANGED <<lease, fence, call, abandons>>

-----------------------------------------------------------------------------
Handshake(k) ==
    \/ PrepareActivation(k)
    \/ ActivateFence(k)
    \/ RecordTargetActivation(k)
    \/ FinalizeActivation(k)

\* Everything that happens to the lease without the clock.
LeaseStep ==
    \/ \E h \in Holders : Acquire(h)
    \/ \E k \in Callers : Handshake(k) \/ Abandon(k)

LeaseNext == Tick \/ LeaseStep

LeaseSpec == LeaseInit /\ [][LeaseNext]_leaseVars

\* A caller whose lease is still pending repeats the handshake, and a started
\* call goes on unless it is abandoned.
LeaseFairSpec == LeaseSpec /\ \A k \in Callers : WF_leaseVars(Handshake(k))

-----------------------------------------------------------------------------
(* Properties.                                                             *)

\* The target holds the fence of every lease the runtime calls activated or
\* active, so a lease is never described as active on a target that would
\* still take its predecessor's writes (ADR 0010, the three-step handshake).
FenceBacksLease ==
    lease.phase \in {"target-activated", "active"} =>
        fence = [holder |-> lease.holder, epoch |-> lease.epoch]

\* The target never runs ahead of the runtime, and at the same epoch both
\* name the same holder: an epoch is never given to two leases.
FenceNotAhead ==
    /\ fence.epoch <= lease.epoch
    /\ (fence.epoch = lease.epoch /\ fence.epoch > 0) =>
           fence.holder = lease.holder

\* Nobody takes a fence back: the target's fence changes only to a higher
\* epoch, however late a request of an older lease arrives (activateFence).
FenceOnlyRises == [][fence' # fence => fence'.epoch > fence.epoch]_leaseVars

\* A handshake interrupted anywhere can be completed by repeating it: while
\* the clock does not reach its expiry a pending lease becomes active, and the
\* target never rejects the repetition (LR-LEASE-010).
RepeatedHandshakeActivates ==
    \A e \in 1..(MaxTime + 1) :
        (lease.epoch = e) ~> (lease.epoch # e \/ lease.phase = "active"
                                \/ now >= lease.expires)
=============================================================================
