--------------------------- MODULE MCTaskLeasing ---------------------------
(* TaskLeasing on a small instance.                                         *)
EXTENDS TaskLeasing, TLC

\* ARAs, tasks, leases and approvals are interchangeable.
Symmetry == Permutations(Ara) \cup Permutations(Task)
            \cup Permutations(LeaseId) \cup Permutations(ApprovalId)
=============================================================================
