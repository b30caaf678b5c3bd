--------------------------- MODULE InMemoryLeases ---------------------------
(***************************************************************************)
(* Tasks and leases in the in-memory store (runtime/memory.py), which the   *)
(* API uses when it is given no database.  One lock makes every call        *)
(* atomic.                                                                  *)
(*                                                                          *)
(* Its operations are those of TaskLeasing, with differences that matter:   *)
(*                                                                          *)
(* - the leases are a dictionary by lease id, and revoke_remote_agent       *)
(*   files the expired copy of a lease under the id of its task, where the  *)
(*   lease itself stays as it was beside it;                                *)
(* - lease_task asks for a good standing only where a task has a target,    *)
(*   and _active_lease never;                                               *)
(* - the grant of a coordinator approval counts for the linked task.        *)
(*                                                                          *)
(* Each operation says what becomes of the store; AraWorkers says who       *)
(* calls.  Time is the lapse of leases.                                     *)
(***************************************************************************)
EXTENDS Naturals, FiniteSets

CONSTANTS Ara,      \* remote agents
          Task,
          Target,   \* target_ara_id of each task, or None
          Gated,    \* tasks that need an approval to complete
          Lease,    \* bound: the lease ids there are
          None

ASSUME LeasesAssumption ==
    /\ Target \in [Task -> Ara \cup {None}]
    /\ Gated \subseteq Task
    /\ Lease \cap Task = {}
    /\ None \notin Ara \cup Task \cup Lease

VARIABLES tasks,    \* state of each task
          leases,   \* _leases: by lease id, or by task id
          used,     \* lease ids that were given out
          agents,   \* registered agents and their standing
          granted   \* gated tasks with a granted approval

storeVars == <<tasks, leases, used, agents, granted>>

Final == {"completed", "failed", "cancelled"}
NoLease == [task |-> None, ara |-> None, live |-> FALSE]
NoAgent == [known |-> FALSE, revoked |-> FALSE, trusted |-> FALSE]

StoreTypeOK ==
    /\ tasks \in [Task -> {"absent", "pending", "leased", "cancelling"} \cup Final]
    /\ leases \in [Lease \cup Task -> [task : Task \cup {None}, ara : Ara \cup {None},
                                       live : BOOLEAN]]
    /\ used \in SUBSET Lease
    /\ agents \in [Ara -> [known : BOOLEAN, revoked : BOOLEAN, trusted : BOOLEAN]]
    /\ granted \in SUBSET Gated

StoreInit ==
    /\ tasks = [t \in Task |-> "absent"]
    /\ leases = [k \in Lease \cup Task |-> NoLease]
    /\ used = {}
    /\ agents = [a \in Ara |-> NoAgent]
    /\ granted = {}
-----------------------------------------------------------------------------
(* Conditions.                                                              *)

\* Some entry for the task has expired.
Expired(t) == \E k \in Lease \cup Task : leases[k].task = t /\ ~leases[k].live

Suits(t, a) ==
    \/ Target[t] = None
    \/ Target[t] = a /\ ~agents[a].revoked /\ agents[a].trusted

\* lease_task: a task that waits or has an expired lease, a finished one too.
Claimable(t, a) ==
    /\ tasks[t] # "absent"
    /\ tasks[t] = "pending" \/ Expired(t)
    /\ Suits(t, a)

\* Faulty: a task that is finished takes another result.
ActiveLeaseAnyState(a, t, l) ==
    leases[l].task = t /\ leases[l].ara = a /\ leases[l].live

\* _active_lease.
ActiveLease(a, t, l) ==
    /\ leases[l].task = t /\ leases[l].ara = a
    /\ tasks[t] \in {"leased", "cancelling"}
    /\ leases[l].live

\* Faulty: whatever the outcome, it needs the approval.
AcceptsGranted(a, t, l, state) ==
    ActiveLease(a, t, l) /\ (t \in Gated => t \in granted)

\* finish_task: evaluate_capability is asked only of a completion.
Accepts(a, t, l, state) ==
    /\ ActiveLease(a, t, l)
    /\ state = "completed" /\ t \in Gated => t \in granted
-----------------------------------------------------------------------------
(* Operations.                                                              *)

\* register_ara: an agent that registers again keeps its standing.
Register(a) ==
    /\ agents' = [agents EXCEPT ![a].known = TRUE]
    /\ UNCHANGED <<tasks, leases, used, granted>>

\* lease_task: the old entries of the task go, a new one comes.
LeaseTask(a, t, l) ==
    /\ Claimable(t, a)
    /\ l \in Lease \ used
    /\ used' = used \cup {l}
    /\ leases' = [k \in Lease \cup Task |->
                    IF k = l THEN [task |-> t, ara |-> a, live |-> TRUE]
                    ELSE IF leases[k].task = t THEN NoLease
                    ELSE leases[k]]
    /\ tasks' = [tasks EXCEPT ![t] = "leased"]
    /\ UNCHANGED <<agents, granted>>

\* Faulty: the task keeps the state that says that it is worked on.
FinishedAsLeased(t, state) == [tasks EXCEPT ![t] = "finished"]

Finished(t, state) == [tasks EXCEPT ![t] = state]

\* finish_task; the entry of the lease stays.
FinishTask(t, state) ==
    /\ tasks' = Finished(t, state)
    /\ UNCHANGED <<leases, used, agents, granted>>

AddTask(t) ==
    /\ tasks[t] = "absent"
    /\ tasks' = [tasks EXCEPT ![t] = "pending"]
    /\ UNCHANGED <<leases, used, agents, granted>>

RequestTaskCancellation(t) ==
    /\ tasks[t] = "leased"
    /\ tasks' = [tasks EXCEPT ![t] = "cancelling"]
    /\ UNCHANGED <<leases, used, agents, granted>>

\* decide_approval, of the task's own or of the linked invocation's approval.
Grant(t) ==
    /\ t \in Gated
    /\ granted' = granted \cup {t}
    /\ UNCHANGED <<tasks, leases, used, agents>>

SetRemoteAgentTrust(a) ==
    /\ agents[a].known /\ ~agents[a].revoked
    /\ agents' = [agents EXCEPT ![a].trusted = ~@]
    /\ UNCHANGED <<tasks, leases, used, granted>>

\* revoke_remote_agent: each lease of the agent gets an expired copy under
\* the id of its task.
RevokeRemoteAgent(a) ==
    /\ agents[a].known
    /\ agents' = [agents EXCEPT ![a] = [known |-> TRUE, revoked |-> TRUE,
                                        trusted |-> FALSE]]
    /\ leases' = [k \in Lease \cup Task |->
                    IF \E l \in Lease \cup Task : leases[l].task = k /\ leases[l].ara = a
                    THEN [task |-> k, ara |-> a, live |-> FALSE]
                    ELSE leases[k]]
    /\ UNCHANGED <<tasks, used, granted>>

\* expires_at passes.
Lapse(l) ==
    /\ leases[l].live
    /\ leases' = [leases EXCEPT ![l].live = FALSE]
    /\ UNCHANGED <<tasks, used, agents, granted>>
=============================================================================
