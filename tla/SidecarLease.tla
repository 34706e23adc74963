---------------------------- MODULE SidecarLease ----------------------------
(***************************************************************************)
(* The lease file by which one sidecar process at a time serves a Memi     *)
(* data directory: acquireRuntimeLease and release of runtime-lease.ts.    *)
(*                                                                         *)
(* Each file-system call is one action, for other processes run between    *)
(* any two of them.  A process that ends does not return: every launch is  *)
(* another member of Sidecars, with a pid of its own.                      *)
(***************************************************************************)
EXTENDS Naturals

CONSTANTS
    Sidecars,     \* launches of the sidecar
    None,         \* no lease file
    Concurrent    \* may a launch start while another is acquiring?

ASSUME SidecarAssumption ==
    /\ None \notin Sidecars
    /\ Concurrent \in BOOLEAN

VARIABLES
    file,       \* the launch whose lease file is at the path, if any
    written,    \* the launches whose lease record is on disk
    step,       \* where each launch is
    attempt     \* its pass of the loop of acquireRuntimeLease

sidecarVars == <<file, written, step, attempt>>

AcquireSteps == {"opening", "reading", "removing", "writing"}
ReleaseSteps == {"stopping", "releasing"}
Steps == AcquireSteps \union ReleaseSteps
             \union {"off", "holding", "refused", "ended"}

SidecarTypeOK ==
    /\ file \in Sidecars \union {None}
    /\ written \subseteq Sidecars
    /\ step \in [Sidecars -> Steps]
    /\ attempt \in [Sidecars -> 1..2]

SidecarInit ==
    /\ file = None
    /\ written = {}
    /\ step = [p \in Sidecars |-> "off"]
    /\ attempt = [p \in Sidecars |-> 1]

Alive(p) == step[p] \notin {"off", "refused", "ended"}

Acquiring(p) == step[p] \in AcquireSteps

Goes(p, to) == step' = [step EXCEPT ![p] = to]

-----------------------------------------------------------------------------
(* acquireRuntimeLease.                                                    *)

Launch(p) ==
    /\ step[p] = "off"
    /\ Concurrent \/ ~ \E q \in Sidecars : Acquiring(q)
    /\ Goes(p, "opening")
    /\ UNCHANGED <<file, written, attempt>>

\* Mutant: opened with "w", which truncates a file that exists.
OpenTruncating(p) ==
    /\ step[p] = "opening"
    /\ file' = p /\ Goes(p, "writing")
    /\ UNCHANGED <<written, attempt>>

\* open(path, "wx") creates the file, empty, or fails with EEXIST.
Open(p) ==
    /\ step[p] = "opening"
    /\ IF file = None
       THEN file' = p /\ Goes(p, "writing")
       ELSE Goes(p, "reading") /\ UNCHANGED file
    /\ UNCHANGED <<written, attempt>>

\* writeFile: until it is done the file does not parse as a lease.
Write(p) ==
    /\ step[p] = "writing"
    /\ written' = written \union {p}
    /\ Goes(p, "holding")
    /\ UNCHANGED <<file, attempt>>

\* Mutant: a record that does not parse is taken for a live one.
HeldAlive == file # None /\ (file \notin written \/ Alive(file))

\* Mutant: a process on its way out is taken for gone.
HeldByServing == file \in written /\ step[file] = "holding"

\* The record names a process that exists.
HeldByLive == file \in written /\ Alive(file)

\* existingLease: a file gone meanwhile throws, a live owner refuses the start.
Read(p) ==
    /\ step[p] = "reading"
    /\ Goes(p, IF file = None \/ HeldByLive THEN "refused" ELSE "removing")
    /\ UNCHANGED <<file, written, attempt>>

\* rm(path, { force: false }): whatever file is at the path by now; none
\* throws, and after two passes the start gives up.
Remove(p) ==
    /\ step[p] = "removing"
    /\ file' = None
    /\ IF file # None /\ attempt[p] < 2
       THEN Goes(p, "opening") /\ attempt' = [attempt EXCEPT ![p] = @ + 1]
       ELSE Goes(p, "refused") /\ UNCHANGED attempt
    /\ UNCHANGED written

-----------------------------------------------------------------------------
(* release, on a signal, the end of the parent or a failed start.          *)

Stop(p) ==
    /\ step[p] = "holding"
    /\ Goes(p, "stopping")
    /\ UNCHANGED <<file, written, attempt>>

\* The lease at the path is this launch's own, by pid and nonce.
FindsOwn(p) == file = p /\ p \in written

ReleaseRead(p) ==
    /\ step[p] = "stopping"
    /\ Goes(p, IF FindsOwn(p) THEN "releasing" ELSE "ended")
    /\ UNCHANGED <<file, written, attempt>>

\* Mutant: the launch is left in a state nothing else knows.
ReleaseForgets(p) ==
    /\ step[p] = "releasing"
    /\ file' = None
    /\ Goes(p, "released")
    /\ UNCHANGED <<written, attempt>>

ReleaseRemove(p) ==
    /\ step[p] = "releasing"
    /\ file' = None
    /\ Goes(p, "ended")
    /\ UNCHANGED <<written, attempt>>

\* The process is killed, between any two of its calls.
Kill(p) ==
    /\ Alive(p)
    /\ Goes(p, "ended")
    /\ UNCHANGED <<file, written, attempt>>

-----------------------------------------------------------------------------
Acquire(p) == Open(p) \/ Write(p) \/ Read(p) \/ Remove(p)

Release(p) == Stop(p) \/ ReleaseRead(p) \/ ReleaseRemove(p)

SidecarNext ==
    \E p \in Sidecars : Launch(p) \/ Acquire(p) \/ Release(p) \/ Kill(p)

SidecarSpec == SidecarInit /\ [][SidecarNext]_sidecarVars

\* A launch that is neither done nor killed makes its next call.
SidecarFairSpec ==
    SidecarSpec /\ \A p \in Sidecars : WF_sidecarVars(Acquire(p))

-----------------------------------------------------------------------------
(* Properties.                                                             *)

\* "exclusively claims ... the private runtime lease" (runtime-lease.test.ts):
\* at most one process believes that the data directory is its own.
ExclusiveRuntime ==
    \A p, q \in Sidecars :
        step[p] = "holding" /\ step[q] = "holding" => p = q

\* The lease of a process that still serves, or is not done releasing, is the
\* one on disk, whole: a later start will see it (acquireRuntimeLease).
ServingOwnsFile ==
    \A p \in Sidecars : step[p] \in {"holding", "releasing"} =>
        file = p /\ p \in written

\* No crash locks the directory: a launch that starts when no other process is
\* left claims the lease in its two passes, whatever file it finds, unless it
\* is killed itself.
LoneStartClaims ==
    \A p \in Sidecars :
        (step[p] = "opening" /\ attempt[p] = 1
           /\ \A q \in Sidecars \ {p} : ~ Alive(q))
        ~> step[p] \in {"holding", "ended"}
=============================================================================
