-------------------------- MODULE MCTurnLifecycle --------------------------
(* TurnLifecycle on small instances.                                        *)
EXTENDS TurnLifecycle, TLC

\* Runners of the same kind, calls of the same kind and tasks are
\* interchangeable.
Symmetry == Permutations(Runner \ StreamRunner) \cup Permutations(StreamRunner)
            \cup Permutations(LocalCall) \cup Permutations(GatedCall)
            \cup Permutations(AraCall) \cup Permutations(HostCall)
            \cup Permutations(Task)
=============================================================================
