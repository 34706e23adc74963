------------------------- MODULE SidecarLeaseProofs -------------------------
(***************************************************************************)
(* Proofs about SidecarLease: type correctness, and exclusion when the     *)
(* launches do not overlap (Concurrent is FALSE).  With overlapping        *)
(* launches exclusion fails, which the run of two starts shows.            *)
(***************************************************************************)
EXTENDS SidecarLease, TLAPS

\* Launches do not overlap, so at most one of them is acquiring.
OneAcquires ==
    \A p, q \in Sidecars : Acquiring(p) /\ Acquiring(q) => p = q

\* The file a launch is writing is the one it created.
WritingOwnsFile == \A p \in Sidecars : step[p] = "writing" => file = p

\* Before that it has none.
NewcomerHasNoFile ==
    \A p \in Sidecars :
        step[p] \in {"off", "opening", "reading", "removing"} => file # p

\* A launch decided to remove a file only of a process that has ended.
RemovesDead ==
    \A p \in Sidecars : step[p] = "removing" /\ file # None => ~ Alive(file)

\* Until it has released, a launch that held the lease still has its file.
KeepsFile ==
    \A p \in Sidecars : step[p] \in {"holding", "stopping", "releasing"} =>
        file = p /\ p \in written

SidecarInv ==
    /\ SidecarTypeOK
    /\ OneAcquires
    /\ WritingOwnsFile
    /\ NewcomerHasNoFile
    /\ RemovesDead
    /\ KeepsFile

-----------------------------------------------------------------------------
\* The type invariant is inductive by itself, concurrent launches or not.
THEOREM SidecarTypeCorrect == SidecarSpec => []SidecarTypeOK
<1>1. SidecarInit => SidecarTypeOK
  BY DEF SidecarInit, SidecarTypeOK, Steps
<1>2. SidecarTypeOK /\ [SidecarNext]_sidecarVars => SidecarTypeOK'
  <2> SUFFICES ASSUME SidecarTypeOK, [SidecarNext]_sidecarVars
               PROVE  SidecarTypeOK'
    OBVIOUS
  <2>1. CASE UNCHANGED sidecarVars
    BY <2>1 DEF sidecarVars, SidecarTypeOK
  <2>2. ASSUME NEW p \in Sidecars, Acquire(p)
        PROVE  SidecarTypeOK'
    BY <2>2 DEF Acquire, Open, Write, Read, Remove, Goes, SidecarTypeOK,
                Steps, AcquireSteps, ReleaseSteps
  <2>3. ASSUME NEW p \in Sidecars, Launch(p) \/ Release(p) \/ Kill(p)
        PROVE  SidecarTypeOK'
    BY <2>3 DEF Launch, Release, Stop, ReleaseRead, ReleaseRemove, Kill,
                Goes, SidecarTypeOK, Steps, AcquireSteps, ReleaseSteps
  <2> QED
    BY <2>1, <2>2, <2>3 DEF SidecarNext
<1> QED
  BY <1>1, <1>2, PTL DEF SidecarSpec

-----------------------------------------------------------------------------
\* The invariant holds from the start and is kept by every step, as long as
\* launches do not overlap.
LEMMA SidecarInvInductive ==
    ASSUME ~ Concurrent
    PROVE  /\ SidecarInit => SidecarInv
           /\ SidecarInv /\ SidecarTypeOK' /\ [SidecarNext]_sidecarVars
                => SidecarInv'
<1> USE DEF Acquiring, AcquireSteps, Alive
<1>1. SidecarInit => SidecarInv
  BY SidecarAssumption DEF SidecarInit, SidecarInv, SidecarTypeOK, OneAcquires, Steps,
         ReleaseSteps, WritingOwnsFile, NewcomerHasNoFile, RemovesDead, KeepsFile
<1>2. ASSUME SidecarInv, SidecarTypeOK', [SidecarNext]_sidecarVars
      PROVE  SidecarInv'
  <2> USE SidecarAssumption DEF SidecarTypeOK, SidecarInv, OneAcquires,
          WritingOwnsFile, NewcomerHasNoFile, RemovesDead, KeepsFile, Goes, Steps, ReleaseSteps
  <2>1. CASE UNCHANGED sidecarVars
    BY <1>2, <2>1 DEF sidecarVars
  <2>2. ASSUME NEW p \in Sidecars, Launch(p) PROVE SidecarInv'
    BY <1>2, <2>2 DEF Launch
  <2>3. ASSUME NEW p \in Sidecars, Open(p) PROVE SidecarInv'
    BY <1>2, <2>3 DEF Open
  <2>4. ASSUME NEW p \in Sidecars, Write(p) PROVE SidecarInv'
    BY <1>2, <2>4 DEF Write
  <2>5. ASSUME NEW p \in Sidecars, Read(p) PROVE SidecarInv'
    \* A file whose record does not parse is nobody's who could still write
    \* it: its owner would be writing, and so acquiring beside p.
    <3>1. ASSUME file # None, ~ HeldByLive PROVE ~ Alive(file)
      <4>1. file \in Sidecars /\ file # p /\ ~ Acquiring(file)
        BY <1>2, <2>5, <3>1 DEF Read
      <4> QED
        BY <1>2, <3>1, <4>1 DEF HeldByLive
    <3> QED
      BY <1>2, <2>5, <3>1 DEF Read, HeldByLive
  <2>6. ASSUME NEW p \in Sidecars, Remove(p) PROVE SidecarInv'
    BY <1>2, <2>6 DEF Remove
  <2>7. ASSUME NEW p \in Sidecars, Release(p) PROVE SidecarInv'
    BY <1>2, <2>7 DEF Release, Stop, ReleaseRead, ReleaseRemove, FindsOwn
  <2>8. ASSUME NEW p \in Sidecars, Kill(p) PROVE SidecarInv'
    BY <1>2, <2>8 DEF Kill
  <2> QED
    BY <1>2, <2>1, <2>2, <2>3, <2>4, <2>5, <2>6, <2>7, <2>8
    DEF SidecarNext, Acquire
<1> QED
  BY <1>1, <1>2

\* Launches that do not overlap: the sidecar that serves owns the file, whole.
THEOREM LeaseOwned ==
    ASSUME ~ Concurrent
    PROVE  SidecarSpec => []ServingOwnsFile
<1>1. SidecarInv => ServingOwnsFile
  BY DEF SidecarInv, KeepsFile, ServingOwnsFile
<1> QED
  BY <1>1, SidecarTypeCorrect, SidecarInvInductive, PTL DEF SidecarSpec

\* Launches that do not overlap: one sidecar serves at a time, whichever
\* crashed before it and wherever.
THEOREM Exclusive ==
    ASSUME ~ Concurrent
    PROVE  SidecarSpec => []ExclusiveRuntime
<1>1. SidecarInv => ExclusiveRuntime
  BY DEF SidecarInv, KeepsFile, ExclusiveRuntime
<1> QED
  BY <1>1, SidecarTypeCorrect, SidecarInvInductive, PTL DEF SidecarSpec
=============================================================================
