----------------------------- MODULE TaskLeasing -----------------------------
(***************************************************************************)
(* Task leasing in the MariaDB runtime store of Astra Agent                 *)
(* (packages/runtime/src/astra_runtime/sql.py), for one tenant.             *)
(*                                                                          *)
(* Remote agents (ARAs) register, are trusted or revoked by an operator,    *)
(* poll for a task, work under a lease with an expiry time, renew it, ask   *)
(* for approvals, and report a result.  Every call names its own ARA, task  *)
(* and lease id; the store decides from its rows whether the call counts.   *)
(*                                                                          *)
(* One action is one store transaction.  The lease-bound calls lock the     *)
(* task, lease and agent rows with one SELECT ... FOR UPDATE before they    *)
(* look at them, so a transaction is atomic with respect to the others.     *)
(* Calls that the store refuses change nothing and are no action.           *)
(***************************************************************************)
EXTENDS Naturals

CONSTANTS Ara,          \* identities of remote agents
          Task,         \* task ids
          LeaseId,      \* lease ids; each is handed out at most once (uuid4)
          ApprovalId,   \* approval ids
          Capability,   \* (kind, scope) pairs that tasks require
          FileRead,     \* the capabilities of kind file.read
          Profile,      \* capability sets that ARAs offer and tasks require
          TrustLevel,   \* trust levels an operator may set
          MaxDuration,  \* longest lease an ARA may ask for
          MaxTime,      \* bound: the clock stops here
          None          \* no ARA, no lease

ASSUME LeasingAssumption ==
    /\ FileRead \subseteq Capability
    /\ Profile \subseteq SUBSET Capability
    /\ TrustLevel \subseteq Nat
    /\ {0, 1} \subseteq TrustLevel
    /\ MaxDuration \in Nat \ {0}
    /\ MaxTime \in Nat
    /\ None \notin Ara /\ None \notin Task
    /\ None \notin LeaseId /\ None \notin Capability

VARIABLES now,            \* the server's clock
          remote_agents,  \* rows of remote_agents
          tasks,          \* rows of tasks
          leases,         \* the lease row of each task: the latest one only
          approvals,      \* rows of approvals that are bound to a task
          issued,         \* audit trail of task.leased and lease.renewed:
                          \* what each lease's ARA was last told
          accepted        \* audit trail of terminal events: how many results
                          \* were accepted under each lease

vars == <<now, remote_agents, tasks, leases, approvals, issued, accepted>>

NoLease == [id |-> None, ara |-> None, expires_at |-> 0]
NoGrant == [task |-> None, ara |-> None, expires_at |-> 0]

HasLease(t) == leases[t].id # None
IsIssued(l) == issued[l].task # None

Live == {"leased", "cancelling"}
Terminal == {"completed", "failed", "cancelled"}

RemoteAgentRow == [status : {"unregistered", "active", "revoked"},
                   trust_level : TrustLevel,
                   capabilities : SUBSET Capability]
TaskRow == [state : {"absent", "pending"} \cup Live \cup Terminal,
            required_capabilities : SUBSET Capability,
            target_ara_id : Ara \cup {None},
            completed_by_ara_id : Ara \cup {None}]
LeaseRow == [id : LeaseId \cup {None}, ara : Ara \cup {None}, expires_at : Nat]
ApprovalRow == [state : {"absent", "pending", "granted", "denied"},
                task : Task \cup {None},
                capability : Capability \cup {None}]
Grant == [task : Task \cup {None}, ara : Ara \cup {None}, expires_at : Nat]

TypeOK ==
    /\ now \in Nat
    /\ remote_agents \in [Ara -> RemoteAgentRow]
    /\ tasks \in [Task -> TaskRow]
    /\ leases \in [Task -> LeaseRow]
    /\ approvals \in [ApprovalId -> ApprovalRow]
    /\ issued \in [LeaseId -> Grant]
    /\ accepted \in [LeaseId -> Nat]

Init ==
    /\ now = 0
    /\ remote_agents = [a \in Ara |-> [status |-> "unregistered",
                                       trust_level |-> 0,
                                       capabilities |-> {}]]
    /\ tasks = [t \in Task |-> [state |-> "absent",
                                required_capabilities |-> {},
                                target_ara_id |-> None,
                                completed_by_ara_id |-> None]]
    /\ leases = [t \in Task |-> NoLease]
    /\ approvals = [p \in ApprovalId |-> [state |-> "absent",
                                          task |-> None,
                                          capability |-> None]]
    /\ issued = [l \in LeaseId |-> NoGrant]
    /\ accepted = [l \in LeaseId |-> 0]
-----------------------------------------------------------------------------
(* Conditions of the queries.                                               *)

Eligible(a) ==
    /\ remote_agents[a].status = "active"
    /\ remote_agents[a].trust_level > 0

Revoked(a) == remote_agents[a].status = "revoked"

Expired(t) == leases[t].expires_at <= now

\* Faulty: the outer join forgets to compare the expiry of a lease.
ClaimableUnexpired(t) == tasks[t].state = "pending" \/ HasLease(t)

\* WHERE state = 'pending' OR lease.expires_at <= now, over an outer join.
Claimable(t) ==
    \/ tasks[t].state = "pending"
    \/ HasLease(t) /\ Expired(t)

\* Faulty: the state of the task is not looked at.
ActiveLeaseAnyState(a, t, l) ==
    /\ leases[t].id = l
    /\ leases[t].ara = a
    /\ Eligible(a)
    /\ ~Expired(t)

\* Faulty: the lease id is not compared, the ARA only has to know the task.
ActiveLeaseAnyId(a, t, l) ==
    /\ issued[l].task = t
    /\ issued[l].ara = a
    /\ Eligible(a)
    /\ tasks[t].state \in Live
    /\ ~Expired(t)

\* Faulty: any ARA that knows the lease id may use it.
ActiveLeaseAnyAra(a, t, l) ==
    /\ leases[t].id = l
    /\ Eligible(a)
    /\ tasks[t].state \in Live
    /\ ~Expired(t)

\* _active_lease: task, lease id, ARA, the ARA's standing, state and expiry.
ActiveLease(a, t, l) ==
    /\ leases[t].id = l
    /\ leases[t].ara = a
    /\ Eligible(a)
    /\ tasks[t].state \in Live
    /\ ~Expired(t)

\* Faulty: the target of a planned task is ignored.
SuitsAnyTarget(a, t) ==
    tasks[t].required_capabilities \subseteq remote_agents[a].capabilities

Suits(a, t) ==
    /\ tasks[t].required_capabilities \subseteq remote_agents[a].capabilities
    /\ tasks[t].target_ara_id \in {None, a}

GrantedFor(t) ==
    {c \in Capability : \E p \in ApprovalId :
        /\ approvals[p].state = "granted"
        /\ approvals[p].task = t
        /\ approvals[p].capability = c}

\* Faulty: any approval of the capability counts, whatever task it is for.
AllowedForAnyTask(c, t) ==
    c \in FileRead \/ \E p \in ApprovalId :
        approvals[p].state = "granted" /\ approvals[p].capability = c

\* evaluate_capability on a capability of the task itself: file.read is always
\* allowed, anything else needs a granted approval.
Allowed(c, t) == c \in FileRead \/ c \in GrantedFor(t)
-----------------------------------------------------------------------------
(* Operators and registration.                                              *)

\* Faulty: a second registration writes the defaults of a fresh RemoteAgent.
RegisterAraAfresh(a, caps) ==
    /\ remote_agents' = [remote_agents EXCEPT ![a] =
          [status |-> "active", trust_level |-> 1, capabilities |-> caps]]
    /\ UNCHANGED <<now, tasks, leases, approvals, issued, accepted>>

\* A second registration refreshes the capabilities and keeps status and trust.
RegisterAra(a, caps) ==
    /\ remote_agents' = [remote_agents EXCEPT ![a] =
          IF @.status = "unregistered"
          THEN [status |-> "active", trust_level |-> 1, capabilities |-> caps]
          ELSE [@ EXCEPT !.capabilities = caps]]
    /\ UNCHANGED <<now, tasks, leases, approvals, issued, accepted>>

SetRemoteAgentTrust(a, level) ==
    /\ remote_agents[a].status = "active"
    /\ remote_agents' = [remote_agents EXCEPT ![a].trust_level = level]
    /\ UNCHANGED <<now, tasks, leases, approvals, issued, accepted>>

RevokeRemoteAgent(a) ==
    /\ remote_agents[a].status # "unregistered"
    /\ remote_agents' = [remote_agents EXCEPT ![a] =
          [@ EXCEPT !.status = "revoked", !.trust_level = 0]]
    /\ leases' = [t \in Task |-> IF leases[t].ara = a
                                 THEN [leases[t] EXCEPT !.expires_at = now]
                                 ELSE leases[t]]
    /\ UNCHANGED <<now, tasks, approvals, issued, accepted>>

AddTask(t, required, target) ==
    /\ tasks[t].state = "absent"
    /\ tasks' = [tasks EXCEPT ![t] = [state |-> "pending",
                                      required_capabilities |-> required,
                                      target_ara_id |-> target,
                                      completed_by_ara_id |-> None]]
    /\ UNCHANGED <<now, remote_agents, leases, approvals, issued, accepted>>

RequestTaskCancellation(t) ==
    /\ tasks[t].state = "leased"
    /\ tasks' = [tasks EXCEPT ![t].state = "cancelling"]
    /\ UNCHANGED <<now, remote_agents, leases, approvals, issued, accepted>>
-----------------------------------------------------------------------------
(* Leasing.                                                                 *)

\* The poll takes the oldest claimable task it can lock; SKIP LOCKED passes
\* over any row another transaction holds, so any claimable task may be taken.
LeaseTask(a, t, l, d) ==
    /\ Eligible(a)
    /\ Claimable(t)
    /\ Suits(a, t)
    /\ ~IsIssued(l)
    /\ tasks' = [tasks EXCEPT ![t].state = "leased"]
    /\ leases' = [leases EXCEPT ![t] =
          [id |-> l, ara |-> a, expires_at |-> now + d]]
    /\ issued' = [issued EXCEPT ![l] =
          [task |-> t, ara |-> a, expires_at |-> now + d]]
    /\ UNCHANGED <<now, remote_agents, approvals, accepted>>

RenewLease(a, t, l, d) ==
    /\ ActiveLease(a, t, l)
    /\ leases' = [leases EXCEPT ![t].expires_at = now + d]
    /\ issued' = [issued EXCEPT ![l].expires_at = now + d]
    /\ UNCHANGED <<now, remote_agents, tasks, approvals, accepted>>

\* Faulty: the lease id is written where the ARA that finished belongs.
FinishTaskByLease(a, t, l, state) ==
    /\ ActiveLease(a, t, l)
    /\ state = "completed" =>
          \A c \in tasks[t].required_capabilities : Allowed(c, t)
    /\ tasks' = [tasks EXCEPT ![t] =
          [@ EXCEPT !.state = state, !.completed_by_ara_id = l]]
    /\ accepted' = [accepted EXCEPT ![l] = @ + 1]
    /\ UNCHANGED <<now, remote_agents, leases, approvals, issued>>

\* finish_task of a task that no tool invocation refers to.
FinishTask(a, t, l, state) ==
    /\ ActiveLease(a, t, l)
    /\ state = "completed" =>
          \A c \in tasks[t].required_capabilities : Allowed(c, t)
    /\ tasks' = [tasks EXCEPT ![t] =
          [@ EXCEPT !.state = state, !.completed_by_ara_id = a]]
    /\ accepted' = [accepted EXCEPT ![l] = @ + 1]
    /\ UNCHANGED <<now, remote_agents, leases, approvals, issued>>
-----------------------------------------------------------------------------
(* Approvals that an ARA asks for.                                          *)

RequestApproval(a, t, l, p, c) ==
    /\ ActiveLease(a, t, l)
    /\ c \in tasks[t].required_capabilities
    /\ approvals[p].state = "absent"
    /\ approvals' = [approvals EXCEPT ![p] =
          [state |-> "pending", task |-> t, capability |-> c]]
    /\ UNCHANGED <<now, remote_agents, tasks, leases, issued, accepted>>

\* A repeated decision returns the row as it is; a contrary one is refused.
DecideApproval(p, state) ==
    /\ approvals[p].state = "pending"
    /\ approvals' = [approvals EXCEPT ![p].state = state]
    /\ UNCHANGED <<now, remote_agents, tasks, leases, issued, accepted>>
-----------------------------------------------------------------------------
Tick ==
    /\ now < MaxTime
    /\ now' = now + 1
    /\ UNCHANGED <<remote_agents, tasks, leases, approvals, issued, accepted>>

Next ==
    \/ \E a \in Ara, caps \in Profile : RegisterAra(a, caps)
    \/ \E a \in Ara, level \in TrustLevel : SetRemoteAgentTrust(a, level)
    \/ \E a \in Ara : RevokeRemoteAgent(a)
    \/ \E t \in Task, required \in Profile, target \in Ara \cup {None} :
          AddTask(t, required, target)
    \/ \E t \in Task : RequestTaskCancellation(t)
    \/ \E a \in Ara, t \in Task, l \in LeaseId, d \in 1..MaxDuration :
          LeaseTask(a, t, l, d)
    \/ \E a \in Ara, t \in Task, l \in LeaseId, d \in 1..MaxDuration :
          RenewLease(a, t, l, d)
    \/ \E a \in Ara, t \in Task, l \in LeaseId, state \in Terminal :
          FinishTask(a, t, l, state)
    \/ \E a \in Ara, t \in Task, l \in LeaseId, p \in ApprovalId, c \in Capability :
          RequestApproval(a, t, l, p, c)
    \/ \E p \in ApprovalId, state \in {"granted", "denied"} :
          DecideApproval(p, state)
    \/ Tick

Spec == Init /\ [][Next]_vars
-----------------------------------------------------------------------------
(* Properties.                                                              *)

\* How the lease rows relate to the audit trail: a row repeats the last grant
\* of its lease, every older grant of the task has run out, and a task that was
\* never claimed has no row.  Revocation is what makes row and trail differ.
RowMatchesGrant ==
    \A t \in Task : HasLease(t) =>
        /\ issued[leases[t].id].task = t
        /\ issued[leases[t].id].ara = leases[t].ara
OlderGrantsAreDead ==
    \A l \in LeaseId : IsIssued(l) =>
        /\ issued[l].ara # None
        /\ tasks[issued[l].task].state \notin {"absent", "pending"}
        /\ \/ Revoked(issued[l].ara)
           \/ leases[issued[l].task].id # l /\ issued[l].expires_at <= now
           \/ leases[issued[l].task].id = l
              /\ issued[l].expires_at = leases[issued[l].task].expires_at
UnclaimedHasNoLease ==
    \A t \in Task : tasks[t].state \in {"absent", "pending"} => ~HasLease(t)
LeaseInv == RowMatchesGrant /\ OlderGrantsAreDead /\ UnclaimedHasNoLease

\* A lease with an accepted result is spent: it was superseded, or its task is
\* in a final state.
SpentLeases ==
    \A l \in LeaseId : accepted[l] > 0 =>
        /\ IsIssued(l)
        /\ \/ leases[issued[l].task].id # l
           \/ tasks[issued[l].task].state \in Terminal

\* Two ARAs never both believe, from what lease_task and renew_lease last told
\* them, that they hold the same task, unless one of them has been revoked:
\* a task is worked on by at most one trusted ARA at a time.
ExclusiveLease ==
    \A l, m \in LeaseId :
        /\ l # m /\ IsIssued(l) /\ IsIssued(m)
        /\ issued[l].task = issued[m].task
        /\ now < issued[l].expires_at /\ now < issued[m].expires_at
        => Revoked(issued[l].ara) \/ Revoked(issued[m].ara)

\* A lease that finish_task leaves in its row, unexpired, is spent all the
\* same: no second result is ever accepted under it, however the task is
\* cancelled, reclaimed or finished later.
OneResultPerLease == \A l \in LeaseId : accepted[l] <= 1

\* A finished task names as completed_by_ara_id an ARA that held it under a
\* lease and had a result accepted under that lease.
ResultHasProvenance ==
    \A t \in Task : tasks[t].state \in Terminal =>
        \E l \in LeaseId : /\ issued[l].task = t
                           /\ issued[l].ara = tasks[t].completed_by_ara_id
                           /\ accepted[l] > 0

\* A task is completed only if every impactful capability it requires has a
\* granted approval for this very task, whoever asked for it under which lease.
CompletedWasApproved ==
    \A t \in Task : tasks[t].state = "completed" =>
        tasks[t].required_capabilities \subseteq FileRead \cup GrantedFor(t)

\* What revoke_remote_agent leaves behind: no standing and no live lease.
RevokedArePowerless ==
    \A a \in Ara : Revoked(a) =>
        /\ ~Eligible(a)
        /\ \A t \in Task : leases[t].ara = a => Expired(t)

\* Revocation sets trust to zero, expires the ARA's leases and survives every
\* later registration, renewal, trust change and poll.
RevocationIsFinal ==
    [][\A a \in Ara :
          /\ Revoked(a) => Revoked(a)'
          /\ Revoked(a)' => ~Eligible(a)' /\ \A t \in Task :
                               leases'[t].ara = a => Expired(t)']_vars

\* A task with a target was never leased to any other ARA.
TargetHonoured ==
    \A l \in LeaseId : IsIssued(l) =>
        tasks[issued[l].task].target_ara_id \in {None, issued[l].ara}

\* A cancellation request stands until the task is finished, for as long as
\* the lease it was addressed to is live.
CancellationStands ==
    [][\A t \in Task : tasks[t].state = "cancelling" /\ ~Expired(t)
          => tasks'[t].state \in {"cancelling"} \cup Terminal]_vars

\* The state diagram of docs/architecture.md: nothing leaves a final state.
\* (The code disagrees: lease_task also selects finished tasks whose lease row
\* has expired.)
TerminalIsFinal ==
    [][\A t \in Task : tasks[t].state \in Terminal
          => tasks'[t].state = tasks[t].state]_vars

\* The leases implement LeaseFencing.
Holder == [t \in Task |-> IF tasks[t].state \in Live /\ ~Expired(t)
                          THEN leases[t].id ELSE None]
Fencing == INSTANCE LeaseFencing WITH
              holder <- Holder,
              used <- {l \in LeaseId : IsIssued(l)},
              delivered <- {l \in LeaseId : accepted[l] > 0}
ImplementsFencing == Fencing!Spec
=============================================================================
