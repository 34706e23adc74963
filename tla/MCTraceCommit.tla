--------------------------- MODULE MCTraceCommit ---------------------------
(* Small instances of TraceCommit for TLC.                                 *)
EXTENDS TraceCommit, TLC

CONSTANT t1

\* The commands share one target, so the second waits for its latch.
OneTarget == [c \in Commands |-> t1]

CallsAlike == Permutations(Calls)
=============================================================================
