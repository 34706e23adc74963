----------------------------- MODULE CommitLog -----------------------------
(* What the commit of canvas effects promises, with no claim, lease, latch  *)
(* or verification in sight: an effect once applied is appended to the      *)
(* trace of its project at most once, and the trace never loses or reorders *)
(* an event.                                                                *)
EXTENDS Sequences

CONSTANT Commands

VARIABLES
    status,   \* what the runtime knows of each command's effect
    log       \* the commands committed, in trace order

logVars == <<status, log>>

Init ==
    /\ status = [c \in Commands |-> "open"]
    /\ log = <<>>

Applied(c) ==
    /\ status[c] = "open"
    /\ status' = [status EXCEPT ![c] = "applied"]
    /\ UNCHANGED log

Committed(c) ==
    /\ status[c] = "applied"
    /\ status' = [status EXCEPT ![c] = "committed"]
    /\ log' = Append(log, c)

Next == \E c \in Commands : Applied(c) \/ Committed(c)

Spec == Init /\ [][Next]_logVars
=============================================================================
