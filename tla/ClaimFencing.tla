---------------------------- MODULE ClaimFencing ----------------------------
(***************************************************************************)
(* What every claim of work in the system promises, of tasks in both stores *)
(* and of background jobs: it has a name that no claim had before, it takes *)
(* the place of the one before, and an outcome is recorded once and only    *)
(* for the claim that has the work.                                         *)
(*                                                                          *)
(* LeaseFencing promises more, namely that work is claimed only when nobody *)
(* has it.  Here the claim before may still be good: a job is taken over    *)
(* when its lease has run out, yet complete_job and retry_job accept the    *)
(* outcome of an overdue claim that was not taken over.                     *)
(***************************************************************************)
CONSTANTS Item, ClaimId, None

VARIABLES holder,      \* the claim that has each piece of work, or None
          used,        \* claims that were ever made
          delivered    \* claims for which an outcome was recorded

vars == <<holder, used, delivered>>

Init ==
    /\ holder = [i \in Item |-> None]
    /\ used = {}
    /\ delivered = {}

\* Work is claimed, or taken over, under a new name.
Acquire(i, c) ==
    /\ c \notin used
    /\ holder' = [holder EXCEPT ![i] = c]
    /\ used' = used \cup {c}
    /\ UNCHANGED delivered

\* Claims end without an outcome.
Lapse(S) ==
    /\ holder' = [i \in Item |-> IF i \in S THEN None ELSE holder[i]]
    /\ UNCHANGED <<used, delivered>>

\* The outcome is recorded, and the claim is spent.
Deliver(i) ==
    /\ holder[i] # None
    /\ holder[i] \notin delivered
    /\ delivered' = delivered \cup {holder[i]}
    /\ holder' = [holder EXCEPT ![i] = None]
    /\ UNCHANGED used

Next ==
    \/ \E i \in Item, c \in ClaimId : Acquire(i, c)
    \/ \E S \in SUBSET Item : Lapse(S)
    \/ \E i \in Item : Deliver(i)

Spec == Init /\ [][Next]_vars
=============================================================================
