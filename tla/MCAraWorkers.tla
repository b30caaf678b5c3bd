---------------------------- MODULE MCAraWorkers ----------------------------
(* Two workers, a repository task for one of them and a host command.       *)
EXTENDS AraWorkers, TLC
CONSTANTS a1, a2, t1, t2
MCSymmetry == Permutations(Lease)
MCTarget == (t1 :> a1) @@ (t2 :> None)
=============================================================================
