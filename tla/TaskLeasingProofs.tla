-------------------------- MODULE TaskLeasingProofs --------------------------
(***************************************************************************)
(* Proofs about TaskLeasing, for every set of ARAs, tasks, leases,          *)
(* approvals and capabilities, every lease length and every clock bound.    *)
(***************************************************************************)
EXTENDS TaskLeasing, TLAPS

USE LeasingAssumption

-----------------------------------------------------------------------------
(* Type correctness.                                                        *)

\* Empty tables have their types.
LEMMA InitTypeOK == Init => TypeOK
  BY DEF Init, TypeOK, RemoteAgentRow, TaskRow, LeaseRow, ApprovalRow, Grant,
         NoLease, NoGrant

\* Every store transaction and every tick writes values of the declared types.
LEMMA StepTypeOK == TypeOK /\ [Next]_vars => TypeOK'
<1> SUFFICES ASSUME TypeOK, [Next]_vars
             PROVE  TypeOK'
  OBVIOUS
<1> USE DEF TypeOK
<1>1. ASSUME NEW a \in Ara, NEW caps \in Profile, RegisterAra(a, caps)
      PROVE  TypeOK'
  BY <1>1 DEF RegisterAra, RemoteAgentRow
<1>2. ASSUME NEW a \in Ara, NEW level \in TrustLevel, SetRemoteAgentTrust(a, level)
      PROVE  TypeOK'
  BY <1>2 DEF SetRemoteAgentTrust, RemoteAgentRow
<1>3. ASSUME NEW a \in Ara, RevokeRemoteAgent(a)
      PROVE  TypeOK'
  <2>1. remote_agents' \in [Ara -> RemoteAgentRow]
    <3> DEFINE untrusted == [remote_agents[a] EXCEPT !.status = "revoked"]
    <3>1. untrusted \in RemoteAgentRow
      BY DEF RemoteAgentRow
    <3>2. remote_agents' =
            [remote_agents EXCEPT ![a] = [untrusted EXCEPT !.trust_level = 0]]
      BY <1>3 DEF RevokeRemoteAgent
    <3> HIDE DEF untrusted
    <3>3. [untrusted EXCEPT !.trust_level = 0] \in RemoteAgentRow
      BY <3>1 DEF RemoteAgentRow
    <3> QED
      BY <3>2, <3>3
  <2>2. leases' \in [Task -> LeaseRow]
    BY <1>3 DEF RevokeRemoteAgent, LeaseRow
  <2> QED
    BY <1>3, <2>1, <2>2 DEF RevokeRemoteAgent
<1>4. ASSUME NEW t \in Task, NEW required \in Profile, NEW target \in Ara \cup {None},
             AddTask(t, required, target)
      PROVE  TypeOK'
  <2>1. tasks' \in [Task -> TaskRow]
    BY <1>4 DEF AddTask, TaskRow
  <2> QED
    BY <1>4, <2>1 DEF AddTask
<1>5. ASSUME NEW t \in Task, RequestTaskCancellation(t)
      PROVE  TypeOK'
  BY <1>5 DEF RequestTaskCancellation, TaskRow, Live
<1>6. ASSUME NEW a \in Ara, NEW t \in Task, NEW l \in LeaseId,
             NEW d \in 1..MaxDuration, LeaseTask(a, t, l, d)
      PROVE  TypeOK'
  <2>1. tasks' \in [Task -> TaskRow]
    BY <1>6 DEF LeaseTask, TaskRow, Live
  <2>2. leases' \in [Task -> LeaseRow]
    BY <1>6 DEF LeaseTask, LeaseRow
  <2>3. issued' \in [LeaseId -> Grant]
    BY <1>6 DEF LeaseTask, Grant
  <2> QED
    BY <1>6, <2>1, <2>2, <2>3 DEF LeaseTask
<1>7. ASSUME NEW a \in Ara, NEW t \in Task, NEW l \in LeaseId,
             NEW d \in 1..MaxDuration, RenewLease(a, t, l, d)
      PROVE  TypeOK'
  <2>1. leases' \in [Task -> LeaseRow]
    BY <1>7 DEF RenewLease, LeaseRow
  <2>2. issued' \in [LeaseId -> Grant]
    BY <1>7 DEF RenewLease, Grant
  <2> QED
    BY <1>7, <2>1, <2>2 DEF RenewLease
<1>8. ASSUME NEW a \in Ara, NEW t \in Task, NEW l \in LeaseId,
             NEW state \in Terminal, FinishTask(a, t, l, state)
      PROVE  TypeOK'
  <2>1. tasks' \in [Task -> TaskRow]
    <3> DEFINE done == [tasks[t] EXCEPT !.state = state]
    <3>1. done \in TaskRow
      BY DEF TaskRow
    <3>2. tasks' = [tasks EXCEPT ![t] = [done EXCEPT !.completed_by_ara_id = a]]
      BY <1>8 DEF FinishTask
    <3> HIDE DEF done
    <3>3. [done EXCEPT !.completed_by_ara_id = a] \in TaskRow
      BY <3>1 DEF TaskRow
    <3> QED
      BY <3>2, <3>3
  <2> QED
    BY <1>8, <2>1 DEF FinishTask
<1>9. ASSUME NEW a \in Ara, NEW t \in Task, NEW l \in LeaseId,
             NEW p \in ApprovalId, NEW c \in Capability, RequestApproval(a, t, l, p, c)
      PROVE  TypeOK'
  <2>1. approvals' \in [ApprovalId -> ApprovalRow]
    BY <1>9 DEF RequestApproval, ApprovalRow
  <2> QED
    BY <1>9, <2>1 DEF RequestApproval
<1>10. ASSUME NEW p \in ApprovalId, NEW state \in {"granted", "denied"},
              DecideApproval(p, state)
       PROVE  TypeOK'
  BY <1>10 DEF DecideApproval, ApprovalRow
<1>11. CASE Tick
  BY <1>11 DEF Tick
<1>12. CASE UNCHANGED vars
  BY <1>12 DEF vars
<1> QED
  BY <1>1, <1>2, <1>3, <1>4, <1>5, <1>6, <1>7, <1>8, <1>9, <1>10, <1>11, <1>12
  DEF Next

\* Every reachable state has the declared types: no step writes a row that the
\* domain models would reject.
THEOREM TypeCorrect == Spec => []TypeOK
  BY InitTypeOK, StepTypeOK, PTL DEF Spec
-----------------------------------------------------------------------------
(* Lease rows and the audit trail.                                          *)

\* With no lease handed out, lease rows and audit trail agree.
LEMMA InitLeaseInv == Init => LeaseInv
  BY DEF Init, LeaseInv, RowMatchesGrant, OlderGrantsAreDead, UnclaimedHasNoLease,
         HasLease, IsIssued, NoLease, NoGrant

\* LeaseInv is inductive: lease_task overwrites a row only when its lease has run
\* out, renew_lease moves row and trail together, revocation marks the ARA.
LEMMA StepLeaseInv == TypeOK /\ LeaseInv /\ [Next]_vars => LeaseInv'
<1> SUFFICES ASSUME TypeOK, LeaseInv, [Next]_vars
             PROVE  LeaseInv'
  OBVIOUS
<1> USE DEF TypeOK, LeaseInv, RowMatchesGrant, OlderGrantsAreDead, UnclaimedHasNoLease,
            HasLease, IsIssued, Revoked, RemoteAgentRow, TaskRow, LeaseRow, Grant
<1>1. ASSUME NEW a \in Ara, NEW caps \in Profile, RegisterAra(a, caps)
      PROVE  LeaseInv'
  BY <1>1 DEF RegisterAra
<1>2. ASSUME NEW a \in Ara, NEW level \in TrustLevel, SetRemoteAgentTrust(a, level)
      PROVE  LeaseInv'
  BY <1>2 DEF SetRemoteAgentTrust
<1>3. ASSUME NEW a \in Ara, RevokeRemoteAgent(a)
      PROVE  LeaseInv'
  BY <1>3 DEF RevokeRemoteAgent
<1>4. ASSUME NEW t \in Task, NEW required \in Profile, NEW target \in Ara \cup {None},
             AddTask(t, required, target)
      PROVE  LeaseInv'
  BY <1>4 DEF AddTask
<1>5. ASSUME NEW t \in Task, RequestTaskCancellation(t)
      PROVE  LeaseInv'
  BY <1>5 DEF RequestTaskCancellation
<1>6. ASSUME NEW a \in Ara, NEW t \in Task, NEW l \in LeaseId,
             NEW d \in 1..MaxDuration, LeaseTask(a, t, l, d)
      PROVE  LeaseInv'
  BY <1>6 DEF LeaseTask, Claimable, Expired
<1>7. ASSUME NEW a \in Ara, NEW t \in Task, NEW l \in LeaseId,
             NEW d \in 1..MaxDuration, RenewLease(a, t, l, d)
      PROVE  LeaseInv'
  BY <1>7 DEF RenewLease, ActiveLease, Eligible, Expired
<1>8. ASSUME NEW a \in Ara, NEW t \in Task, NEW l \in LeaseId,
             NEW state \in Terminal, FinishTask(a, t, l, state)
      PROVE  LeaseInv'
  BY <1>8 DEF FinishTask, ActiveLease, Terminal
<1>9. ASSUME NEW a \in Ara, NEW t \in Task, NEW l \in LeaseId,
             NEW p \in ApprovalId, NEW c \in Capability, RequestApproval(a, t, l, p, c)
      PROVE  LeaseInv'
  BY <1>9 DEF RequestApproval
<1>10. ASSUME NEW p \in ApprovalId, NEW state \in {"granted", "denied"},
              DecideApproval(p, state)
       PROVE  LeaseInv'
  BY <1>10 DEF DecideApproval
<1>11. CASE Tick
  BY <1>11 DEF Tick
<1>12. CASE UNCHANGED vars
  BY <1>12 DEF vars
<1> QED
  BY <1>1, <1>2, <1>3, <1>4, <1>5, <1>6, <1>7, <1>8, <1>9, <1>10, <1>11, <1>12
  DEF Next

\* Lease rows and audit trail agree in every reachable state.
LEMMA LeaseInvariant == Spec => []LeaseInv
  BY InitLeaseInv, StepLeaseInv, TypeCorrect, PTL DEF Spec
-----------------------------------------------------------------------------
(* At most one result per lease, and whose result it is.                    *)

\* Nothing is finished at the start.
LEMMA InitResults == Init => SpentLeases /\ OneResultPerLease /\ ResultHasProvenance
  BY DEF Init, SpentLeases, OneResultPerLease, ResultHasProvenance, Terminal

\* A lease under which finish_task accepted a result stays spent: its task stays
\* final until lease_task replaces the lease.
LEMMA StepSpentLeases == TypeOK /\ LeaseInv /\ SpentLeases /\ [Next]_vars => SpentLeases'
<1> SUFFICES ASSUME TypeOK, LeaseInv, SpentLeases, [Next]_vars
             PROVE  SpentLeases'
  OBVIOUS
<1> USE DEF TypeOK, LeaseInv, RowMatchesGrant, OlderGrantsAreDead, UnclaimedHasNoLease,
            HasLease, IsIssued, TaskRow, LeaseRow, Grant, SpentLeases
<1>1. ASSUME NEW a \in Ara, NEW caps \in Profile, RegisterAra(a, caps)
      PROVE  SpentLeases'
  BY <1>1 DEF RegisterAra
<1>2. ASSUME NEW a \in Ara, NEW level \in TrustLevel,
             SetRemoteAgentTrust(a, level)
      PROVE  SpentLeases'
  BY <1>2 DEF SetRemoteAgentTrust
<1>3. ASSUME NEW a \in Ara, RevokeRemoteAgent(a)
      PROVE  SpentLeases'
  BY <1>3 DEF RevokeRemoteAgent
<1>4. ASSUME NEW t \in Task, NEW required \in Profile, NEW target \in Ara \cup {None},
             AddTask(t, required, target)
      PROVE  SpentLeases'
  BY <1>4 DEF AddTask, Terminal
<1>5. ASSUME NEW t \in Task, RequestTaskCancellation(t)
      PROVE  SpentLeases'
  BY <1>5 DEF RequestTaskCancellation, Terminal
<1>6. ASSUME NEW a \in Ara, NEW t \in Task, NEW l \in LeaseId,
             NEW d \in 1..MaxDuration, LeaseTask(a, t, l, d)
      PROVE  SpentLeases'
  BY <1>6 DEF LeaseTask, Claimable
<1>7. ASSUME NEW a \in Ara, NEW t \in Task, NEW l \in LeaseId,
             NEW d \in 1..MaxDuration, RenewLease(a, t, l, d)
      PROVE  SpentLeases'
  BY <1>7 DEF RenewLease, ActiveLease, Live
<1>8. ASSUME NEW a \in Ara, NEW t \in Task, NEW l \in LeaseId,
             NEW state \in Terminal, FinishTask(a, t, l, state)
      PROVE  SpentLeases'
  BY <1>8 DEF FinishTask, ActiveLease, Live
<1>9. ASSUME NEW a \in Ara, NEW t \in Task, NEW l \in LeaseId,
             NEW p \in ApprovalId, NEW c \in Capability,
             RequestApproval(a, t, l, p, c)
      PROVE  SpentLeases'
  BY <1>9 DEF RequestApproval
<1>10. ASSUME NEW p \in ApprovalId, NEW state \in {"granted", "denied"},
             DecideApproval(p, state)
      PROVE  SpentLeases'
  BY <1>10 DEF DecideApproval
<1>11. CASE Tick
  BY <1>11 DEF Tick
<1>12. CASE UNCHANGED vars
  BY <1>12 DEF vars
<1> QED
  BY <1>1, <1>2, <1>3, <1>4, <1>5, <1>6, <1>7, <1>8, <1>9, <1>10, <1>11, <1>12
  DEF Next

\* finish_task accepts a result only under a lease that is not yet spent.
LEMMA StepOneResult ==
  TypeOK /\ LeaseInv /\ SpentLeases /\ OneResultPerLease /\ [Next]_vars
    => OneResultPerLease'
<1> SUFFICES ASSUME TypeOK, LeaseInv, SpentLeases, OneResultPerLease, [Next]_vars
             PROVE  OneResultPerLease'
  OBVIOUS
<1> USE DEF TypeOK, LeaseInv, RowMatchesGrant, OlderGrantsAreDead, UnclaimedHasNoLease,
            HasLease, IsIssued, TaskRow, LeaseRow, Grant, SpentLeases, OneResultPerLease
<1>1. ASSUME NEW a \in Ara, NEW caps \in Profile, RegisterAra(a, caps)
      PROVE  OneResultPerLease'
  BY <1>1 DEF RegisterAra
<1>2. ASSUME NEW a \in Ara, NEW level \in TrustLevel,
             SetRemoteAgentTrust(a, level)
      PROVE  OneResultPerLease'
  BY <1>2 DEF SetRemoteAgentTrust
<1>3. ASSUME NEW a \in Ara, RevokeRemoteAgent(a)
      PROVE  OneResultPerLease'
  BY <1>3 DEF RevokeRemoteAgent
<1>4. ASSUME NEW t \in Task, NEW required \in Profile, NEW target \in Ara \cup {None},
             AddTask(t, required, target)
      PROVE  OneResultPerLease'
  BY <1>4 DEF AddTask
<1>5. ASSUME NEW t \in Task, RequestTaskCancellation(t)
      PROVE  OneResultPerLease'
  BY <1>5 DEF RequestTaskCancellation
<1>6. ASSUME NEW a \in Ara, NEW t \in Task, NEW l \in LeaseId,
             NEW d \in 1..MaxDuration, LeaseTask(a, t, l, d)
      PROVE  OneResultPerLease'
  BY <1>6 DEF LeaseTask
<1>7. ASSUME NEW a \in Ara, NEW t \in Task, NEW l \in LeaseId,
             NEW d \in 1..MaxDuration, RenewLease(a, t, l, d)
      PROVE  OneResultPerLease'
  BY <1>7 DEF RenewLease
<1>8. ASSUME NEW a \in Ara, NEW t \in Task, NEW l \in LeaseId,
             NEW state \in Terminal, FinishTask(a, t, l, state)
      PROVE  OneResultPerLease'
  BY <1>8 DEF FinishTask, ActiveLease, Live, Terminal
<1>9. ASSUME NEW a \in Ara, NEW t \in Task, NEW l \in LeaseId,
             NEW p \in ApprovalId, NEW c \in Capability,
             RequestApproval(a, t, l, p, c)
      PROVE  OneResultPerLease'
  BY <1>9 DEF RequestApproval
<1>10. ASSUME NEW p \in ApprovalId, NEW state \in {"granted", "denied"},
             DecideApproval(p, state)
      PROVE  OneResultPerLease'
  BY <1>10 DEF DecideApproval
<1>11. CASE Tick
  BY <1>11 DEF Tick
<1>12. CASE UNCHANGED vars
  BY <1>12 DEF vars
<1> QED
  BY <1>1, <1>2, <1>3, <1>4, <1>5, <1>6, <1>7, <1>8, <1>9, <1>10, <1>11, <1>12
  DEF Next

\* No step separates a final state from the grant its result came from.
LEMMA StepProvenance ==
  TypeOK /\ LeaseInv /\ ResultHasProvenance /\ [Next]_vars => ResultHasProvenance'
<1> SUFFICES ASSUME TypeOK, LeaseInv, ResultHasProvenance, [Next]_vars
             PROVE  ResultHasProvenance'
  OBVIOUS
<1> USE DEF TypeOK, LeaseInv, RowMatchesGrant, OlderGrantsAreDead, UnclaimedHasNoLease,
            HasLease, IsIssued, TaskRow, LeaseRow, Grant, ResultHasProvenance
<1>1. ASSUME NEW a \in Ara, NEW caps \in Profile, RegisterAra(a, caps)
      PROVE  ResultHasProvenance'
  BY <1>1 DEF RegisterAra
<1>2. ASSUME NEW a \in Ara, NEW level \in TrustLevel,
             SetRemoteAgentTrust(a, level)
      PROVE  ResultHasProvenance'
  BY <1>2 DEF SetRemoteAgentTrust
<1>3. ASSUME NEW a \in Ara, RevokeRemoteAgent(a)
      PROVE  ResultHasProvenance'
  BY <1>3 DEF RevokeRemoteAgent
<1>4. ASSUME NEW t \in Task, NEW required \in Profile, NEW target \in Ara \cup {None},
             AddTask(t, required, target)
      PROVE  ResultHasProvenance'
  BY <1>4 DEF AddTask, Terminal
<1>5. ASSUME NEW t \in Task, RequestTaskCancellation(t)
      PROVE  ResultHasProvenance'
  BY <1>5 DEF RequestTaskCancellation, Terminal
<1>6. ASSUME NEW a \in Ara, NEW t \in Task, NEW l \in LeaseId,
             NEW d \in 1..MaxDuration, LeaseTask(a, t, l, d)
      PROVE  ResultHasProvenance'
  BY <1>6 DEF LeaseTask, Terminal
<1>7. ASSUME NEW a \in Ara, NEW t \in Task, NEW l \in LeaseId,
             NEW d \in 1..MaxDuration, RenewLease(a, t, l, d)
      PROVE  ResultHasProvenance'
  BY <1>7 DEF RenewLease, ActiveLease, Live
<1>8. ASSUME NEW a \in Ara, NEW t \in Task, NEW l \in LeaseId,
             NEW state \in Terminal, FinishTask(a, t, l, state)
      PROVE  ResultHasProvenance'
  BY <1>8 DEF FinishTask, ActiveLease, Live
<1>9. ASSUME NEW a \in Ara, NEW t \in Task, NEW l \in LeaseId,
             NEW p \in ApprovalId, NEW c \in Capability,
             RequestApproval(a, t, l, p, c)
      PROVE  ResultHasProvenance'
  BY <1>9 DEF RequestApproval
<1>10. ASSUME NEW p \in ApprovalId, NEW state \in {"granted", "denied"},
             DecideApproval(p, state)
      PROVE  ResultHasProvenance'
  BY <1>10 DEF DecideApproval
<1>11. CASE Tick
  BY <1>11 DEF Tick
<1>12. CASE UNCHANGED vars
  BY <1>12 DEF vars
<1> QED
  BY <1>1, <1>2, <1>3, <1>4, <1>5, <1>6, <1>7, <1>8, <1>9, <1>10, <1>11, <1>12
  DEF Next

\* No lease is good for two results: a lost answer may be retried, a task may be
\* reclaimed after it was finished, and still every lease is spent once.
THEOREM OneResult == Spec => []OneResultPerLease
  BY InitResults, StepSpentLeases, StepOneResult, TypeCorrect, LeaseInvariant, PTL
  DEF Spec

\* completed_by_ara_id always names an ARA whose result was accepted under a
\* lease on that task.
THEOREM Provenance == Spec => []ResultHasProvenance
  BY InitResults, StepProvenance, TypeCorrect, LeaseInvariant, PTL DEF Spec

-----------------------------------------------------------------------------
(* Approvals.                                                               *)

\* No task is completed at the start.
LEMMA InitApproved == Init => CompletedWasApproved
  BY DEF Init, CompletedWasApproved

\* finish_task checks the approvals, and no step takes a granted one back.
LEMMA StepApproved ==
  TypeOK /\ CompletedWasApproved /\ [Next]_vars => CompletedWasApproved'
<1> SUFFICES ASSUME TypeOK, CompletedWasApproved, [Next]_vars
             PROVE  CompletedWasApproved'
  OBVIOUS
<1> USE DEF TypeOK, CompletedWasApproved, GrantedFor, TaskRow, ApprovalRow
<1>1. ASSUME NEW a \in Ara, NEW caps \in Profile, RegisterAra(a, caps)
      PROVE  CompletedWasApproved'
  BY <1>1 DEF RegisterAra
<1>2. ASSUME NEW a \in Ara, NEW level \in TrustLevel,
             SetRemoteAgentTrust(a, level)
      PROVE  CompletedWasApproved'
  BY <1>2 DEF SetRemoteAgentTrust
<1>3. ASSUME NEW a \in Ara, RevokeRemoteAgent(a)
      PROVE  CompletedWasApproved'
  BY <1>3 DEF RevokeRemoteAgent
<1>4. ASSUME NEW t \in Task, NEW required \in Profile, NEW target \in Ara \cup {None},
             AddTask(t, required, target)
      PROVE  CompletedWasApproved'
  BY <1>4 DEF AddTask
<1>5. ASSUME NEW t \in Task, RequestTaskCancellation(t)
      PROVE  CompletedWasApproved'
  BY <1>5 DEF RequestTaskCancellation
<1>6. ASSUME NEW a \in Ara, NEW t \in Task, NEW l \in LeaseId,
             NEW d \in 1..MaxDuration, LeaseTask(a, t, l, d)
      PROVE  CompletedWasApproved'
  BY <1>6 DEF LeaseTask
<1>7. ASSUME NEW a \in Ara, NEW t \in Task, NEW l \in LeaseId,
             NEW d \in 1..MaxDuration, RenewLease(a, t, l, d)
      PROVE  CompletedWasApproved'
  BY <1>7 DEF RenewLease
<1>8. ASSUME NEW a \in Ara, NEW t \in Task, NEW l \in LeaseId,
             NEW state \in Terminal, FinishTask(a, t, l, state)
      PROVE  CompletedWasApproved'
  BY <1>8 DEF FinishTask, Allowed
<1>9. ASSUME NEW a \in Ara, NEW t \in Task, NEW l \in LeaseId,
             NEW p \in ApprovalId, NEW c \in Capability,
             RequestApproval(a, t, l, p, c)
      PROVE  CompletedWasApproved'
  BY <1>9 DEF RequestApproval
<1>10. ASSUME NEW p \in ApprovalId, NEW state \in {"granted", "denied"},
             DecideApproval(p, state)
      PROVE  CompletedWasApproved'
  BY <1>10 DEF DecideApproval
<1>11. CASE Tick
  BY <1>11 DEF Tick
<1>12. CASE UNCHANGED vars
  BY <1>12 DEF vars
<1> QED
  BY <1>1, <1>2, <1>3, <1>4, <1>5, <1>6, <1>7, <1>8, <1>9, <1>10, <1>11, <1>12
  DEF Next

\* Completion needs a granted approval of this task for every impactful
\* capability, and no later decision takes the approval back.
THEOREM Approved == Spec => []CompletedWasApproved
  BY InitApproved, StepApproved, TypeCorrect, PTL DEF Spec

-----------------------------------------------------------------------------
(* Revocation, targets and exclusion.                                       *)

\* At the start no ARA is revoked and no lease is handed out.
LEMMA InitRevocation == Init => RevokedArePowerless /\ TargetHonoured
  BY DEF Init, RevokedArePowerless, TargetHonoured, Revoked, IsIssued, NoGrant

\* A revoked ARA gets neither trust nor a live lease back from any step.
LEMMA StepRevocation == TypeOK /\ RevokedArePowerless /\ [Next]_vars => RevokedArePowerless'
<1> SUFFICES ASSUME TypeOK, RevokedArePowerless, [Next]_vars
             PROVE  RevokedArePowerless'
  OBVIOUS
<1> USE DEF TypeOK, RevokedArePowerless, Revoked, Eligible, Expired,
            RemoteAgentRow, LeaseRow
<1>1. ASSUME NEW a \in Ara, NEW caps \in Profile, RegisterAra(a, caps)
      PROVE  RevokedArePowerless'
  BY <1>1 DEF RegisterAra
<1>2. ASSUME NEW a \in Ara, NEW level \in TrustLevel,
             SetRemoteAgentTrust(a, level)
      PROVE  RevokedArePowerless'
  BY <1>2 DEF SetRemoteAgentTrust
<1>3. ASSUME NEW a \in Ara, RevokeRemoteAgent(a)
      PROVE  RevokedArePowerless'
  BY <1>3 DEF RevokeRemoteAgent
<1>4. ASSUME NEW t \in Task, NEW required \in Profile, NEW target \in Ara \cup {None},
             AddTask(t, required, target)
      PROVE  RevokedArePowerless'
  BY <1>4 DEF AddTask
<1>5. ASSUME NEW t \in Task, RequestTaskCancellation(t)
      PROVE  RevokedArePowerless'
  BY <1>5 DEF RequestTaskCancellation
<1>6. ASSUME NEW a \in Ara, NEW t \in Task, NEW l \in LeaseId,
             NEW d \in 1..MaxDuration, LeaseTask(a, t, l, d)
      PROVE  RevokedArePowerless'
  BY <1>6 DEF LeaseTask
<1>7. ASSUME NEW a \in Ara, NEW t \in Task, NEW l \in LeaseId,
             NEW d \in 1..MaxDuration, RenewLease(a, t, l, d)
      PROVE  RevokedArePowerless'
  BY <1>7 DEF RenewLease, ActiveLease
<1>8. ASSUME NEW a \in Ara, NEW t \in Task, NEW l \in LeaseId,
             NEW state \in Terminal, FinishTask(a, t, l, state)
      PROVE  RevokedArePowerless'
  BY <1>8 DEF FinishTask
<1>9. ASSUME NEW a \in Ara, NEW t \in Task, NEW l \in LeaseId,
             NEW p \in ApprovalId, NEW c \in Capability,
             RequestApproval(a, t, l, p, c)
      PROVE  RevokedArePowerless'
  BY <1>9 DEF RequestApproval
<1>10. ASSUME NEW p \in ApprovalId, NEW state \in {"granted", "denied"},
             DecideApproval(p, state)
      PROVE  RevokedArePowerless'
  BY <1>10 DEF DecideApproval
<1>11. CASE Tick
  BY <1>11 DEF Tick
<1>12. CASE UNCHANGED vars
  BY <1>12 DEF vars
<1> QED
  BY <1>1, <1>2, <1>3, <1>4, <1>5, <1>6, <1>7, <1>8, <1>9, <1>10, <1>11, <1>12
  DEF Next

\* lease_task compares the target, and no step changes it once the task exists.
LEMMA StepTarget == TypeOK /\ LeaseInv /\ TargetHonoured /\ [Next]_vars => TargetHonoured'
<1> SUFFICES ASSUME TypeOK, LeaseInv, TargetHonoured, [Next]_vars
             PROVE  TargetHonoured'
  OBVIOUS
<1> USE DEF TypeOK, LeaseInv, RowMatchesGrant, OlderGrantsAreDead, UnclaimedHasNoLease,
            HasLease, IsIssued, TaskRow, LeaseRow, Grant, TargetHonoured
<1>1. ASSUME NEW a \in Ara, NEW caps \in Profile, RegisterAra(a, caps)
      PROVE  TargetHonoured'
  BY <1>1 DEF RegisterAra
<1>2. ASSUME NEW a \in Ara, NEW level \in TrustLevel,
             SetRemoteAgentTrust(a, level)
      PROVE  TargetHonoured'
  BY <1>2 DEF SetRemoteAgentTrust
<1>3. ASSUME NEW a \in Ara, RevokeRemoteAgent(a)
      PROVE  TargetHonoured'
  BY <1>3 DEF RevokeRemoteAgent
<1>4. ASSUME NEW t \in Task, NEW required \in Profile, NEW target \in Ara \cup {None},
             AddTask(t, required, target)
      PROVE  TargetHonoured'
  BY <1>4 DEF AddTask
<1>5. ASSUME NEW t \in Task, RequestTaskCancellation(t)
      PROVE  TargetHonoured'
  BY <1>5 DEF RequestTaskCancellation
<1>6. ASSUME NEW a \in Ara, NEW t \in Task, NEW l \in LeaseId,
             NEW d \in 1..MaxDuration, LeaseTask(a, t, l, d)
      PROVE  TargetHonoured'
  BY <1>6 DEF LeaseTask, Suits
<1>7. ASSUME NEW a \in Ara, NEW t \in Task, NEW l \in LeaseId,
             NEW d \in 1..MaxDuration, RenewLease(a, t, l, d)
      PROVE  TargetHonoured'
  BY <1>7 DEF RenewLease
<1>8. ASSUME NEW a \in Ara, NEW t \in Task, NEW l \in LeaseId,
             NEW state \in Terminal, FinishTask(a, t, l, state)
      PROVE  TargetHonoured'
  BY <1>8 DEF FinishTask
<1>9. ASSUME NEW a \in Ara, NEW t \in Task, NEW l \in LeaseId,
             NEW p \in ApprovalId, NEW c \in Capability,
             RequestApproval(a, t, l, p, c)
      PROVE  TargetHonoured'
  BY <1>9 DEF RequestApproval
<1>10. ASSUME NEW p \in ApprovalId, NEW state \in {"granted", "denied"},
             DecideApproval(p, state)
      PROVE  TargetHonoured'
  BY <1>10 DEF DecideApproval
<1>11. CASE Tick
  BY <1>11 DEF Tick
<1>12. CASE UNCHANGED vars
  BY <1>12 DEF vars
<1> QED
  BY <1>1, <1>2, <1>3, <1>4, <1>5, <1>6, <1>7, <1>8, <1>9, <1>10, <1>11, <1>12
  DEF Next

\* The one step that could bring a revoked ARA back is a registration, and it
\* keeps the status of a row that exists.
LEMMA StepRevoked ==
  ASSUME TypeOK, [Next]_vars, NEW a \in Ara, Revoked(a)
  PROVE  Revoked(a)'
<1> USE DEF TypeOK, Revoked, RemoteAgentRow
<1>1. ASSUME NEW b \in Ara, NEW caps \in Profile, RegisterAra(b, caps)
      PROVE  Revoked(a)'
  BY <1>1 DEF RegisterAra
<1>2. ASSUME NEW b \in Ara, NEW level \in TrustLevel, SetRemoteAgentTrust(b, level)
      PROVE  Revoked(a)'
  BY <1>2 DEF SetRemoteAgentTrust
<1>3. ASSUME NEW b \in Ara, RevokeRemoteAgent(b)
      PROVE  Revoked(a)'
  <2>1. CASE a # b
    BY <1>3, <2>1 DEF RevokeRemoteAgent
  <2>2. CASE a = b
    <3> DEFINE untrusted == [remote_agents[b] EXCEPT !.status = "revoked",
                                                     !.trust_level = 0]
    <3>1. remote_agents' = [remote_agents EXCEPT ![b] = untrusted]
      BY <1>3 DEF RevokeRemoteAgent
    <3>2. untrusted.status = "revoked"
      OBVIOUS
    <3> HIDE DEF untrusted
    <3> QED
      BY <2>2, <3>1, <3>2
  <2> QED
    BY <2>1, <2>2
<1>4. CASE UNCHANGED remote_agents
  BY <1>4
<1> QED
  BY <1>1, <1>2, <1>3, <1>4
  DEF Next, vars, AddTask, RequestTaskCancellation, LeaseTask, RenewLease, FinishTask,
      RequestApproval, DecideApproval, Tick

\* Revocation is for good: the status stays, trust stays zero, no lease row of
\* the ARA is ever live again.
THEOREM Revocation == Spec => RevocationIsFinal
<1>1. Spec => []RevokedArePowerless
  BY InitRevocation, StepRevocation, TypeCorrect, PTL DEF Spec
<1>2. ASSUME TypeOK, RevokedArePowerless', [Next]_vars
      PROVE  \A a \in Ara :
               /\ Revoked(a) => Revoked(a)'
               /\ Revoked(a)' => ~Eligible(a)' /\ \A t \in Task :
                                    leases'[t].ara = a => Expired(t)'
  BY <1>2, StepRevoked DEF RevokedArePowerless
<1> QED
  BY <1>1, <1>2, TypeCorrect, PTL DEF Spec, RevocationIsFinal

\* A planned task was only ever leased to the ARA it was planned for.
THEOREM Target == Spec => []TargetHonoured
  BY InitRevocation, StepTarget, TypeCorrect, LeaseInvariant, PTL DEF Spec

\* Two unexpired grants of one task: at most one is the lease row's, and the
\* other can only be a revoked ARA's.
LEMMA LeaseInvGivesExclusion == TypeOK /\ LeaseInv => ExclusiveLease
  BY DEF TypeOK, LeaseInv, OlderGrantsAreDead, ExclusiveLease, IsIssued, Grant, LeaseRow

\* Two grants of one task that both ARAs still take for live imply that one of
\* the two ARAs was revoked.
THEOREM Exclusion == Spec => []ExclusiveLease
  BY LeaseInvGivesExclusion, TypeCorrect, LeaseInvariant, PTL

-----------------------------------------------------------------------------
(* Cancellation and the refinement of LeaseFencing.                         *)

\* A cancellation request is not overwritten while the lease it addresses is
\* live: only a reclaim of the expired lease or a final state replaces it.
THEOREM Cancellation == Spec => CancellationStands
<1>1. TypeOK /\ [Next]_vars =>
        [\A t \in Task : tasks[t].state = "cancelling" /\ ~Expired(t)
            => tasks'[t].state \in {"cancelling"} \cup Terminal]_vars
  <2> SUFFICES ASSUME TypeOK, Next, NEW x \in Task,
                      tasks[x].state = "cancelling", ~Expired(x)
               PROVE  tasks'[x].state \in {"cancelling"} \cup Terminal
    OBVIOUS
  <2> USE DEF TypeOK, TaskRow
  <2>1. CASE UNCHANGED tasks
    BY <2>1
  <2>2. ASSUME NEW t \in Task, NEW required \in Profile, NEW target \in Ara \cup {None},
               AddTask(t, required, target)
        PROVE  tasks'[x].state = "cancelling"
    BY <2>2 DEF AddTask
  <2>3. ASSUME NEW t \in Task, RequestTaskCancellation(t)
        PROVE  tasks'[x].state = "cancelling"
    BY <2>3 DEF RequestTaskCancellation
  <2>4. ASSUME NEW a \in Ara, NEW t \in Task, NEW l \in LeaseId,
               NEW d \in 1..MaxDuration, LeaseTask(a, t, l, d)
        PROVE  tasks'[x].state = "cancelling"
    BY <2>4 DEF LeaseTask, Claimable
  <2>5. ASSUME NEW a \in Ara, NEW t \in Task, NEW l \in LeaseId,
               NEW state \in Terminal, FinishTask(a, t, l, state)
        PROVE  tasks'[x].state \in {"cancelling"} \cup Terminal
    BY <2>5 DEF FinishTask
  <2> QED
    BY <2>1, <2>2, <2>3, <2>4, <2>5
    DEF Next, RegisterAra, SetRemoteAgentTrust, RevokeRemoteAgent, RenewLease,
        RequestApproval, DecideApproval, Tick
<1> QED
  BY <1>1, TypeCorrect, PTL DEF Spec, CancellationStands

\* Empty tables map to the abstract initial state.
LEMMA InitFencing == Init => Fencing!Init
  BY DEF Init, Fencing!Init, Holder, Expired, Live, IsIssued, NoGrant, NoLease

\* Steps that leave tasks, lease rows and clock alone, or that only start or end
\* a task, do not show in LeaseFencing.
LEMMA HolderOnlyLapses ==
  ASSUME TypeOK, TypeOK',
         \A t \in Task : Holder'[t] \in {Holder[t], None},
         UNCHANGED <<issued, accepted>>
  PROVE  [Fencing!Next]_(Fencing!vars)
<1> DEFINE gone == {t \in Task : Holder'[t] = None}
<1>1. Holder' = [t \in Task |-> IF t \in gone THEN None ELSE Holder[t]]
  BY DEF Holder
<1>2. Fencing!Lapse(gone)
  BY <1>1 DEF Fencing!Lapse, IsIssued
<1> QED
  BY <1>2 DEF Fencing!Next

\* Holder is known at every task once it is known at t and elsewhere.
LEMMA HolderAt ==
  ASSUME NEW t \in Task, NEW h, Holder'[t] = h,
         \A x \in Task \ {t} : Holder'[x] = Holder[x]
  PROVE  Holder' = [Holder EXCEPT ![t] = h]
<1>1. Holder = [x \in Task |-> Holder[x]]
  BY DEF Holder
<1>2. Holder' = [x \in Task |-> Holder'[x]]
  BY DEF Holder
<1> QED
  BY <1>1, <1>2

\* Every step of the store maps to a step of LeaseFencing or to a stutter.
LEMMA StepFencing ==
  ASSUME TypeOK, TypeOK', LeaseInv, SpentLeases, [Next]_vars
  PROVE  [Fencing!Next]_(Fencing!vars)
<1> USE DEF TypeOK, TaskRow, LeaseRow, Grant
<1>1. CASE \/ \E a \in Ara, caps \in Profile : RegisterAra(a, caps)
           \/ \E a \in Ara, level \in TrustLevel : SetRemoteAgentTrust(a, level)
           \/ \E a \in Ara, t \in Task, l \in LeaseId, p \in ApprovalId,
                 c \in Capability : RequestApproval(a, t, l, p, c)
           \/ \E p \in ApprovalId, state \in {"granted", "denied"} :
                 DecideApproval(p, state)
           \/ UNCHANGED vars
  <2>1. UNCHANGED <<now, tasks, leases, issued, accepted>>
    BY <1>1 DEF RegisterAra, SetRemoteAgentTrust, RequestApproval, DecideApproval, vars
  <2> QED
    BY <2>1 DEF Fencing!vars, Holder, Expired, IsIssued
<1>2. ASSUME NEW a \in Ara, RevokeRemoteAgent(a)
      PROVE  [Fencing!Next]_(Fencing!vars)
  <2>1. \A t \in Task : Holder'[t] \in {Holder[t], None}
    BY <1>2 DEF RevokeRemoteAgent, Holder, Expired
  <2> QED
    BY <1>2, <2>1, HolderOnlyLapses DEF RevokeRemoteAgent
<1>3. ASSUME NEW t \in Task, NEW required \in Profile, NEW target \in Ara \cup {None},
             AddTask(t, required, target)
      PROVE  [Fencing!Next]_(Fencing!vars)
  <2>1. \A x \in Task : Holder'[x] \in {Holder[x], None}
    BY <1>3 DEF AddTask, Holder, Expired, Live
  <2> QED
    BY <1>3, <2>1, HolderOnlyLapses DEF AddTask
<1>4. ASSUME NEW t \in Task, RequestTaskCancellation(t)
      PROVE  [Fencing!Next]_(Fencing!vars)
  <2>1. \A x \in Task : Holder'[x] \in {Holder[x], None}
    BY <1>4 DEF RequestTaskCancellation, Holder, Expired, Live
  <2> QED
    BY <1>4, <2>1, HolderOnlyLapses DEF RequestTaskCancellation
<1>5. ASSUME NEW a \in Ara, NEW t \in Task, NEW l \in LeaseId,
             NEW d \in 1..MaxDuration, LeaseTask(a, t, l, d)
      PROVE  [Fencing!Next]_(Fencing!vars)
  <2>1. Holder[t] = None
    BY <1>5 DEF LeaseTask, Claimable, Holder, Live
  <2>2. Holder' = [Holder EXCEPT ![t] = l]
    <3>1. Holder'[t] = l
      BY <1>5 DEF LeaseTask, Holder, Expired, Live
    <3>2. \A x \in Task \ {t} : Holder'[x] = Holder[x]
      BY <1>5 DEF LeaseTask, Holder, Expired
    <3> QED
      BY <3>1, <3>2, HolderAt
  <2>3. ~IsIssued(l) /\ \A m \in LeaseId : IsIssued(m)' <=> IsIssued(m) \/ m = l
    BY <1>5 DEF LeaseTask, IsIssued
  <2>4. Fencing!Acquire(t, l)
    BY <1>5, <2>1, <2>2, <2>3 DEF LeaseTask, Fencing!Acquire
  <2> QED
    BY <2>4 DEF Fencing!Next
<1>6. ASSUME NEW a \in Ara, NEW t \in Task, NEW l \in LeaseId,
             NEW d \in 1..MaxDuration, RenewLease(a, t, l, d)
      PROVE  [Fencing!Next]_(Fencing!vars)
  <2>1. Holder' = Holder
    BY <1>6 DEF RenewLease, ActiveLease, Holder, Expired
  <2>2. \A m \in LeaseId : IsIssued(m)' <=> IsIssued(m)
    BY <1>6 DEF RenewLease, IsIssued
  <2> QED
    BY <1>6, <2>1, <2>2 DEF RenewLease, Fencing!vars
<1>7. ASSUME NEW a \in Ara, NEW t \in Task, NEW l \in LeaseId,
             NEW state \in Terminal, FinishTask(a, t, l, state)
      PROVE  [Fencing!Next]_(Fencing!vars)
  <2>1. Holder[t] = l
    BY <1>7 DEF FinishTask, ActiveLease, Holder
  <2>2. ~(accepted[l] > 0)
    BY <1>7 DEF FinishTask, ActiveLease, SpentLeases, LeaseInv, RowMatchesGrant,
                HasLease, Live, Terminal
  <2>3. Holder' = [Holder EXCEPT ![t] = None]
    <3> DEFINE finished == [tasks[t] EXCEPT !.state = state, !.completed_by_ara_id = a]
    <3>1. tasks' = [tasks EXCEPT ![t] = finished]
      BY <1>7 DEF FinishTask
    <3>2. finished.state = state
      OBVIOUS
    <3> HIDE DEF finished
    <3>3. tasks'[t].state \in Terminal
      BY <3>1, <3>2
    <3>4. Holder'[t] = None
      BY <3>3 DEF Holder, Live, Terminal
    <3>5. \A x \in Task \ {t} : Holder'[x] = Holder[x]
      BY <1>7, <3>1 DEF FinishTask, Holder, Expired
    <3> QED
      BY <3>4, <3>5, HolderAt
  <2>4. \A m \in LeaseId : accepted'[m] > 0 <=> accepted[m] > 0 \/ m = l
    BY <1>7 DEF FinishTask
  <2>5. Fencing!Deliver(t)
    BY <1>7, <2>1, <2>2, <2>3, <2>4 DEF FinishTask, Fencing!Deliver, IsIssued
  <2> QED
    BY <2>5 DEF Fencing!Next
<1>8. CASE Tick
  <2>1. \A t \in Task : Holder'[t] \in {Holder[t], None}
    BY <1>8 DEF Tick, Holder, Expired
  <2> QED
    BY <1>8, <2>1, HolderOnlyLapses DEF Tick
<1> QED
  BY <1>1, <1>2, <1>3, <1>4, <1>5, <1>6, <1>7, <1>8 DEF Next

\* The store implements the abstract protocol: at most one live lease per task,
\* never reused, spent by its one result.
THEOREM Refinement == Spec => ImplementsFencing
<1>1. Spec => []SpentLeases
  BY InitResults, StepSpentLeases, TypeCorrect, LeaseInvariant, PTL DEF Spec
<1> QED
  BY <1>1, InitFencing, StepFencing, TypeCorrect, LeaseInvariant, PTL
  DEF Spec, ImplementsFencing, Fencing!Spec

\* ClaimFencing, the part of LeaseFencing that jobs and the in-memory store keep.
Claims == INSTANCE ClaimFencing WITH
             Item <- Task, ClaimId <- LeaseId,
             holder <- Holder,
             used <- {l \in LeaseId : IsIssued(l)},
             delivered <- {l \in LeaseId : accepted[l] > 0}

\* What is leased only when it is free is claimed, too: LeaseFencing implements
\* ClaimFencing, and so do the leases of the MariaDB store.
THEOREM LeasingFencesClaims == Spec => Claims!Spec
<1>1. Fencing!Init => Claims!Init
  BY DEF Fencing!Init, Claims!Init
<1>2. [Fencing!Next]_(Fencing!vars) => [Claims!Next]_(Claims!vars)
  BY DEF Fencing!Next, Fencing!Acquire, Fencing!Lapse, Fencing!Deliver, Fencing!vars,
         Claims!Next, Claims!Acquire, Claims!Lapse, Claims!Deliver, Claims!vars
<1> QED
  BY <1>1, <1>2, Refinement, PTL DEF ImplementsFencing, Fencing!Spec, Claims!Spec
=============================================================================
