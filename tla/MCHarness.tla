----------------------------- MODULE MCHarness -----------------------------
(* Small instances of HarnessLifecycle for TLC.                            *)
EXTENDS HarnessLifecycle, TLC

AskToApply == Signal("approval.requested", [id |-> "a1", scopes |-> {"apply"}], 0)
Effect == Signal("effect.requested", "apply", 0)
Uses == Signal("usage", "none", 1)
Saves == Signal("checkpoint", "c1", 0)
Done == Signal("run.completed", "none", 0)

\* A session that asks before it has an effect; one that can be handed over,
\* with nothing left of the budget; one with an effect it never asked for; one
\* that ends without saying that it is done.
SmallScripts == {<<AskToApply, Uses, Effect>>, <<Uses, Saves, Done>>, <<Effect>>,
                 <<Uses>>}

\* An adapter that asks again under the id of a request that was answered.
AskingTwice == {<<AskToApply, AskToApply, Done>>}

OneHost == [k \in Callers |-> "sidecar"]

\* Each call comes from a process of its own.
OwnHost == [k \in Callers |-> k]

CallersAlike == Permutations(Callers)
RunsAlike == Permutations(Runs)
Alike == CallersAlike \union RunsAlike
=============================================================================
