----------------------------- MODULE EffectOnce -----------------------------
(***************************************************************************)
(* What the durable effect pipeline promises about one canvas target,      *)
(* without claims, leases, latches or recovery: a command changes the      *)
(* document at most once and only from the baseline it was reviewed        *)
(* against, a command reported failed has not changed it, and no command   *)
(* is applied while an earlier effect still waits for its commit.          *)
(***************************************************************************)
EXTENDS Naturals

CONSTANTS
    Commands,   \* the durable commands addressed to the target
    Base        \* the document each command was reviewed against

VARIABLES
    effect,     \* what has become of each command
    head        \* the command whose result the document holds; 0: the seed

vars == <<effect, head>>

Init ==
    /\ effect = [c \in Commands |-> "open"]
    /\ head = 0

Apply(c) ==
    /\ effect[c] = "open"
    /\ head = Base[c]
    /\ \A d \in Commands : effect[d] # "applied"
    /\ effect' = [effect EXCEPT ![c] = "applied"]
    /\ head' = c

Commit(c) ==
    /\ effect[c] = "applied"
    /\ effect' = [effect EXCEPT ![c] = "committed"]
    /\ UNCHANGED head

Fail(c) ==
    /\ effect[c] = "open"
    /\ effect' = [effect EXCEPT ![c] = "failed"]
    /\ UNCHANGED head

Next == \E c \in Commands : Apply(c) \/ Commit(c) \/ Fail(c)

Spec == Init /\ [][Next]_vars
=============================================================================
