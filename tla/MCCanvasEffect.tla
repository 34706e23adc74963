--------------------------- MODULE MCCanvasEffect ---------------------------
(* Small instances of CanvasEffect for TLC.                                *)
EXTENDS CanvasEffect

\* Two commands reviewed against the same document: at most one can apply.
RivalBase == [c \in Commands |-> 0]

\* The second command is based on the result of the first.
ChainBase == [c \in Commands |-> c - 1]

\* Grants and approvals outlive the run.
LongAuthority == [c \in Commands |-> MaxTime + 1]

\* The first command may no longer be applied at time 2.
ShortAuthority == [c \in Commands |-> IF c = 1 THEN 2 ELSE MaxTime + 1]
=============================================================================
