---------------------------- MODULE LeaseFencing ----------------------------
(***************************************************************************)
(* What the lease protocol between Astra Agent and its remote agents (ARA)  *)
(* promises, without clocks, agents, approvals or task states: a task is    *)
(* held under at most one lease, a lease is used for one tenure only, and a *)
(* result is delivered at most once per lease and only by the tenure that   *)
(* currently holds the task.  TaskLeasing implements this specification.    *)
(***************************************************************************)
CONSTANTS Task, LeaseId, None

VARIABLES holder,      \* the live lease of each task, or None
          used,        \* leases that were ever handed out
          delivered    \* leases under which a result was accepted

vars == <<holder, used, delivered>>

Init ==
    /\ holder = [t \in Task |-> None]
    /\ used = {}
    /\ delivered = {}

\* A free task is claimed under a lease that nobody ever saw before.
Acquire(t, l) ==
    /\ holder[t] = None
    /\ l \notin used
    /\ holder' = [holder EXCEPT ![t] = l]
    /\ used' = used \cup {l}
    /\ UNCHANGED delivered

\* Leases end without a result: time passes, or their holder is revoked.
Lapse(S) ==
    /\ holder' = [t \in Task |-> IF t \in S THEN None ELSE holder[t]]
    /\ UNCHANGED <<used, delivered>>

\* The holder delivers; the lease is spent and the task leaves its hands.
Deliver(t) ==
    /\ holder[t] # None
    /\ holder[t] \notin delivered
    /\ delivered' = delivered \cup {holder[t]}
    /\ holder' = [holder EXCEPT ![t] = None]
    /\ UNCHANGED used

Next ==
    \/ \E t \in Task, l \in LeaseId : Acquire(t, l)
    \/ \E S \in SUBSET Task : Lapse(S)
    \/ \E t \in Task : Deliver(t)

Spec == Init /\ [][Next]_vars
=============================================================================
