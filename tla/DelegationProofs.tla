-------------------------- MODULE DelegationProofs --------------------------
(***************************************************************************)
(* What holds of a delegated turn for any number of siblings, leases and    *)
(* mishaps: that its answer draws on every result, that it is handed out    *)
(* once, and the only ways in which it can be left behind.                  *)
(*                                                                          *)
(* The argument follows the results on their way into the answer: from the  *)
(* settled siblings a transaction sees to the wake-up it decides on, from   *)
(* the woken turn to the runner that claims it, and through a checkpoint,   *)
(* which forgets the plan but keeps what was read, to the next runner.      *)
(***************************************************************************)
EXTENDS Delegation, TLAPS

\* A task has an invocation, every plan has its first call, and what is
\* settled has its result.
RowsMatch ==
    /\ \A t \in Task : tasks[t] = "absent" <=> invs[t] = "absent"
    /\ \A t \in Task : tasks[t] # "absent" => tasks[First] # "absent"
    /\ SettledInvs \subseteq results

\* A transaction is about a planned task and has seen nothing that is not
\* there; one at a time has locked the turn, and since then nothing has
\* happened that it would have to see.
TxSound ==
    \A t \in Task :
        /\ txs[t].pc # "none" => tasks[t] # "absent"
        /\ txs[t].view \subseteq results
        /\ txs[t].pc = "locked" =>
              /\ txs[t].wakes <=> Planned \subseteq Seen(t)
              /\ \A u \in Task : txs[u].pc = "locked" => u = t

\* The turn asks for an approval after its plan, or has none.
ApprovalLast ==
    approval = "pending" => ~turn.planned /\ (Planned = {} => turn.state = "paused")

\* A turn that goes on after its plan has all results; one that has
\* forgotten the plan has kept them.
PlanWaits == turn.planned /\ turn.state # "paused" => Planned \subseteq results
ForgottenKept == ~turn.planned => Planned \subseteq turn.kept

\* Who claims such a turn has read them.
ClaimerKnows ==
    \A r \in Runner :
        runners[r].pc = "plan" /\ ~turn.planned /\ ActiveTurn(r)
            => Planned \subseteq runners[r].seen

RowsInv == RowsMatch /\ TxSound
TurnInv == ApprovalLast /\ PlanWaits /\ ForgottenKept /\ ClaimerKnows
             /\ SynthesisSeesAllResults
DelegationInv == TypeOK /\ RowsInv /\ TurnInv

TurnRow == [state : {"absent", "pending", "running", "paused", "completed"},
            planned : BOOLEAN, kept : SUBSET Task,
            runner : Runner \cup {"none"}, lapsed : BOOLEAN]
TaskState == {"absent", "pending", "leased"} \cup Final
InvState == {"absent", "pending"} \cup Terminal
Tx == [pc : {"none", "begun", "locked"}, outcome : Final,
       view : SUBSET Task, wakes : BOOLEAN]
RunnerRow == [pc : {"none", "claim", "plan", "answer", "stopping"}, seen : SUBSET Task]
-----------------------------------------------------------------------------
(* Types.                                                                   *)

\* A runner that goes on is a runner.
LEMMA GoesTypes ==
    ASSUME TypeOK, NEW r \in Runner, NEW pc \in {"none", "claim", "plan", "answer", "stopping"}
    PROVE  /\ Goes(r, pc) => runners' \in [Runner -> RunnerRow]
           /\ Done(r) => runners' \in [Runner -> RunnerRow] /\ wakes' \in SUBSET {"event", "message"}
           /\ Ends(r) => runners' \in [Runner -> RunnerRow] /\ wakes' \in SUBSET {"event", "message"}
<1>1. runners \in [Runner -> RunnerRow] /\ wakes \in SUBSET {"event", "message"}
  BY DEF TypeOK, RunnerRow
<1>2. ASSUME NEW q \in {"none", "claim", "plan", "answer", "stopping"}, Goes(r, q)
      PROVE  runners' \in [Runner -> RunnerRow] /\ wakes' = wakes
  <2>1. [runners[r] EXCEPT !.pc = q] \in RunnerRow
    BY <1>1 DEF RunnerRow
  <2>2. runners' = [runners EXCEPT ![r] = [runners[r] EXCEPT !.pc = q]]
    BY <1>2 DEF Goes
  <2> QED
    BY <1>1, <1>2, <2>1, <2>2 DEF Goes
<1>3. Idle \in RunnerRow
  BY DEF Idle, RunnerRow
<1> QED
  BY <1>1, <1>2, <1>3 DEF Done, Ends

\* What a runner writes into the turn's row fits.
LEMMA TurnTypes ==
    ASSUME TypeOK, NEW r \in Runner,
           NEW state \in {"absent", "pending", "running", "paused", "completed"}
    PROVE  /\ turn \in TurnRow
           /\ Release(state) \in TurnRow
           /\ [turn EXCEPT !.state = state] \in TurnRow
           /\ \A lapsed \in BOOLEAN : [turn EXCEPT !.lapsed = lapsed] \in TurnRow
           /\ \A row \in TurnRow, planned \in BOOLEAN :
                 [row EXCEPT !.planned = planned, !.kept = runners[r].seen] \in TurnRow
           /\ [turn EXCEPT !.state = "running", !.runner = r, !.lapsed = FALSE] \in TurnRow
<1>1. turn \in TurnRow /\ runners[r].seen \in SUBSET Task
  BY DEF TypeOK, TurnRow, RunnerRow
<1>2. Release(state) \in TurnRow
  BY <1>1 DEF Release, TurnRow
<1>3. [turn EXCEPT !.state = state] \in TurnRow
  BY <1>1 DEF TurnRow
<1>4. \A lapsed \in BOOLEAN : [turn EXCEPT !.lapsed = lapsed] \in TurnRow
  BY <1>1 DEF TurnRow
<1>5. \A row \in TurnRow, planned \in BOOLEAN :
         [row EXCEPT !.planned = planned, !.kept = runners[r].seen] \in TurnRow
  BY <1>1 DEF TurnRow
<1>6. [turn EXCEPT !.state = "running", !.runner = r, !.lapsed = FALSE] \in TurnRow
  BY <1>1 DEF TurnRow
<1> QED
  BY <1>1, <1>2, <1>3, <1>4, <1>5, <1>6

\* A step of a runner keeps the types.
LEMMA RunnerTypes ==
    ASSUME TypeOK, DelegationAssumption, NEW r \in Runner, RunnerStep(r)
    PROVE  TypeOK'
<1> USE DEF turnVars, planVars, leaseVars
<1>1. turn \in TurnRow /\ runners \in [Runner -> RunnerRow]
      /\ tasks \in [Task -> TaskState] /\ invs \in [Task -> InvState]
  BY DEF TypeOK, TurnRow, RunnerRow, TaskState, InvState
<1>2. ASSUME turn' \in TurnRow, runners' \in [Runner -> RunnerRow],
             wakes' \in SUBSET {"event", "message"}, mishaps' \in 0 .. MaxMishaps,
             approval' \in {"none", "pending", "decided"},
             tasks' \in [Task -> TaskState], invs' \in [Task -> InvState],
             UNCHANGED <<results, leases, leased, txs>>
      PROVE  TypeOK'
  BY <1>2 DEF TypeOK, TurnRow, RunnerRow, TaskState, InvState
<1>3. wakes \in SUBSET {"event", "message"} /\ mishaps \in 0 .. MaxMishaps
      /\ approval \in {"none", "pending", "decided"}
  BY DEF TypeOK
<1>4. mishaps < MaxMishaps => mishaps + 1 \in 0 .. MaxMishaps
  BY <1>3 DEF DelegationAssumption
<1>5. CASE Claim(r)
  <2>1. CASE /\ turn' = [turn EXCEPT !.state = "running", !.runner = r, !.lapsed = FALSE]
             /\ runners' = [runners EXCEPT ![r] = [pc |-> "plan", seen |-> turn.kept]]
             /\ UNCHANGED wakes
    <3>1. [pc |-> "plan", seen |-> turn.kept] \in RunnerRow
      BY <1>1 DEF TurnRow, RunnerRow
    <3>2. runners' \in [Runner -> RunnerRow] /\ turn' \in TurnRow
      BY <1>1, <2>1, <3>1, TurnTypes
    <3> QED
      BY <1>1, <1>2, <1>3, <1>5, <2>1, <3>2 DEF Claim
  <2>2. CASE (Goes(r, "stopping") \/ Done(r)) /\ UNCHANGED turn
    <3>1. runners' \in [Runner -> RunnerRow] /\ wakes' \in SUBSET {"event", "message"}
      BY <1>3, <2>2, GoesTypes DEF Goes
    <3> QED
      BY <1>1, <1>2, <1>3, <1>5, <2>2, <3>1 DEF Claim
  <2> QED
    BY <1>5, <2>1, <2>2 DEF Claim
<1>6. CASE ReadResults(r)
  <2>1. [pc |-> "answer", seen |-> runners[r].seen \cup results] \in RunnerRow
    BY <1>1 DEF RunnerRow, TypeOK
  <2>2. runners' \in [Runner -> RunnerRow]
    BY <1>1, <1>6, <2>1 DEF ReadResults
  <2> QED
    BY <1>1, <1>2, <1>3, <1>6, <2>2 DEF ReadResults
<1>7. CASE Plan(r)
  <2>1. tasks' \in [Task -> TaskState] /\ invs' \in [Task -> InvState]
    BY <1>1, <1>7 DEF Plan, TaskState, InvState
  <2>2. turn' \in TurnRow
    BY <1>7, TurnTypes DEF Plan
  <2>3. runners' \in [Runner -> RunnerRow] /\ wakes' \in SUBSET {"event", "message"}
    BY <1>7, GoesTypes DEF Plan
  <2> QED
    BY <1>2, <1>3, <1>7, <2>1, <2>2, <2>3 DEF Plan
<1>8. CASE PlanRefused(r) \/ ModelFails(r) \/ Refused(r)
  <2>1. runners' \in [Runner -> RunnerRow] /\ wakes' \in SUBSET {"event", "message"}
    BY <1>8, GoesTypes DEF PlanRefused, ModelFails, Refused
  <2>2. mishaps' \in 0 .. MaxMishaps
    BY <1>3, <1>4, <1>8 DEF PlanRefused, ModelFails, Refused
  <2> QED
    BY <1>1, <1>2, <1>3, <1>8, <2>1, <2>2 DEF PlanRefused, ModelFails, Refused
<1>9. CASE NoPlan(r)
  <2>1. runners' \in [Runner -> RunnerRow] /\ wakes' = wakes
    BY <1>9, GoesTypes DEF NoPlan, Goes
  <2> QED
    BY <1>1, <1>2, <1>3, <1>9, <2>1 DEF NoPlan
<1>10. CASE Checkpoint(r)
  <2>1. turn' \in TurnRow
    BY <1>10, TurnTypes DEF Checkpoint, Forget
  <2> QED
    BY <1>1, <1>2, <1>3, <1>10, <2>1 DEF Checkpoint
<1>11. CASE AskApproval(r)
  <2>1. turn' \in TurnRow
    BY <1>11, TurnTypes DEF AskApproval, Forget
  <2>2. runners' \in [Runner -> RunnerRow] /\ wakes' \in SUBSET {"event", "message"}
    BY <1>11, GoesTypes DEF AskApproval
  <2> QED
    BY <1>1, <1>2, <1>3, <1>11, <2>1, <2>2 DEF AskApproval
<1>12. CASE Answer(r)
  <2>1. turn' \in TurnRow
    BY <1>12, TurnTypes DEF Answer
  <2>2. runners' \in [Runner -> RunnerRow] /\ wakes' \in SUBSET {"event", "message"}
    BY <1>12, GoesTypes DEF Answer
  <2> QED
    BY <1>1, <1>2, <1>3, <1>12, <2>1, <2>2 DEF Answer
<1>13. CASE Stop
  <2>1. runners' \in [Runner -> RunnerRow]
    BY <1>1, <1>13 DEF Stop, Idle, RunnerRow
  <2> QED
    BY <1>1, <1>2, <1>3, <1>13, <2>1 DEF Stop
<1> QED
  BY <1>5, <1>6, <1>7, <1>8, <1>9, <1>10, <1>11, <1>12, <1>13 DEF RunnerStep
\* A request, a result or the passing of time keeps the types.
LEMMA OtherTypes ==
    ASSUME TypeOK, DelegationAssumption,
           \/ PostMessage \/ Decide \/ RunLeaseLapses \/ Outlive \/ Crash
           \/ \E w \in wakes : AdvanceTurn(w)
           \/ \E t \in Task : TaskStep(t) \/ LeaseLapses(t)
    PROVE  TypeOK'
<1> USE DEF turnVars, planVars, leaseVars
<1>1. turn \in TurnRow /\ runners \in [Runner -> RunnerRow] /\ txs \in [Task -> Tx]
      /\ tasks \in [Task -> TaskState] /\ invs \in [Task -> InvState]
  BY DEF TypeOK, TurnRow, RunnerRow, TaskState, InvState, Tx
<1>2. TypeOK' <=> /\ turn' \in TurnRow /\ runners' \in [Runner -> RunnerRow]
                  /\ txs' \in [Task -> Tx]
                  /\ tasks' \in [Task -> TaskState] /\ invs' \in [Task -> InvState]
                  /\ approval' \in {"none", "pending", "decided"}
                  /\ results' \in SUBSET Task
                  /\ leases' \in [Task -> {"none", "live", "lapsed"}]
                  /\ leased' \in 0 .. MaxLeases
                  /\ wakes' \in SUBSET {"event", "message"}
                  /\ mishaps' \in 0 .. MaxMishaps
  BY DEF TypeOK, TurnRow, RunnerRow, TaskState, InvState, Tx
<1>3. /\ approval \in {"none", "pending", "decided"}
      /\ results \in SUBSET Task
      /\ leases \in [Task -> {"none", "live", "lapsed"}]
      /\ leased \in 0 .. MaxLeases
      /\ wakes \in SUBSET {"event", "message"}
      /\ mishaps \in 0 .. MaxMishaps
  BY DEF TypeOK
<1>4. "tenant" \in Runner /\ "request" \in Runner
  BY DEF Runner
<1>5. \A r \in Runner : [runners EXCEPT ![r].pc = "claim"] \in [Runner -> RunnerRow]
  <2>1. ASSUME NEW r \in Runner
        PROVE  [runners EXCEPT ![r].pc = "claim"] \in [Runner -> RunnerRow]
    <3>1. [runners[r] EXCEPT !.pc = "claim"] \in RunnerRow
      BY <1>1 DEF RunnerRow
    <3> QED
      BY <1>1, <3>1
  <2> QED
    BY <2>1
<1>6. \A state \in {"absent", "pending", "running", "paused", "completed"} :
         [turn EXCEPT !.state = state] \in TurnRow
  BY <1>4, TurnTypes
<1>7. \A lapsed \in BOOLEAN : [turn EXCEPT !.lapsed = lapsed] \in TurnRow
  BY <1>4, TurnTypes
<1>8. CASE PostMessage
  BY <1>1, <1>2, <1>3, <1>4, <1>5, <1>6, <1>8 DEF PostMessage
<1>9. CASE Decide
  BY <1>1, <1>2, <1>3, <1>6, <1>9 DEF Decide
<1>10. CASE \E w \in wakes : AdvanceTurn(w)
  <2>1. PICK w \in wakes : AdvanceTurn(w)
    BY <1>10
  <2>2. runners' \in [Runner -> RunnerRow]
    BY <1>1, <1>4, <1>5, <2>1 DEF AdvanceTurn
  <2> QED
    BY <1>1, <1>2, <1>3, <2>1, <2>2 DEF AdvanceTurn
<1>11. CASE RunLeaseLapses
  BY <1>1, <1>2, <1>3, <1>7, <1>11 DEF RunLeaseLapses
<1>12. CASE Outlive
  <2>1. mishaps' \in 0 .. MaxMishaps
    BY <1>3, <1>12 DEF Outlive, DelegationAssumption
  <2> QED
    BY <1>1, <1>2, <1>3, <1>7, <1>12, <2>1 DEF Outlive
<1>13. NoTx \in Tx /\ Idle \in RunnerRow
  BY DEF NoTx, Tx, Idle, RunnerRow, Final
<1>14. CASE Crash
  <2>1. mishaps' \in 0 .. MaxMishaps
    BY <1>3, <1>14 DEF Crash, DelegationAssumption
  <2> QED
    BY <1>1, <1>2, <1>3, <1>13, <1>14, <2>1 DEF Crash
<1>15. ASSUME NEW t \in Task, Lease(t)
       PROVE  TypeOK'
  <2>1. leased' \in 0 .. MaxLeases
    BY <1>3, <1>15 DEF Lease, DelegationAssumption
  <2>2. tasks' \in [Task -> TaskState] /\ leases' \in [Task -> {"none", "live", "lapsed"}]
    BY <1>1, <1>3, <1>15 DEF Lease, TaskState
  <2> QED
    BY <1>1, <1>2, <1>3, <1>15, <2>1, <2>2 DEF Lease
<1>16. ASSUME NEW t \in Task, BeginFinish(t)
       PROVE  TypeOK'
  <2>1. PICK outcome \in Final :
            txs' = [txs EXCEPT ![t] = [NoTx EXCEPT
                       !.pc = "begun", !.outcome = outcome,
                       !.view = IF outcome = "completed" THEN SettledInvs ELSE {}]]
    BY <1>16 DEF BeginFinish
  <2>2. [NoTx EXCEPT !.pc = "begun", !.outcome = outcome,
                     !.view = IF outcome = "completed" THEN SettledInvs ELSE {}] \in Tx
    BY <1>13 DEF Tx, SettledInvs
  <2>3. txs' \in [Task -> Tx]
    BY <1>1, <2>1, <2>2
  <2> QED
    BY <1>1, <1>2, <1>3, <1>16, <2>3 DEF BeginFinish
<1>17. ASSUME NEW t \in Task, LockTurn(t)
       PROVE  TypeOK'
  <2>1. WakesTurn(Seen(t)) \in BOOLEAN
    BY DEF WakesTurn
  <2>2. [txs[t] EXCEPT !.pc = "locked", !.wakes = WakesTurn(Seen(t))] \in Tx
    <3>1. ASSUME NEW row \in Tx, NEW b \in BOOLEAN
          PROVE  [row EXCEPT !.pc = "locked", !.wakes = b] \in Tx
      BY DEF Tx
    <3> QED
      BY <1>1, <2>1, <3>1
  <2>3. txs' = [txs EXCEPT ![t] = [txs[t] EXCEPT !.pc = "locked",
                                                 !.wakes = WakesTurn(Seen(t))]]
    BY <1>17 DEF LockTurn
  <2>4. txs' \in [Task -> Tx]
    BY <1>1, <2>2, <2>3
  <2> QED
    BY <1>1, <1>2, <1>3, <1>17, <2>4 DEF LockTurn
<1>18. ASSUME NEW t \in Task, CommitFinish(t)
       PROVE  TypeOK'
  <2>1. txs[t].outcome \in Final
    BY <1>1 DEF Tx
  <2>2. InvocationState(txs[t].outcome) \in InvState /\ txs[t].outcome \in TaskState
    BY <2>1 DEF InvocationState, InvState, Terminal, TaskState
  <2>3. tasks' \in [Task -> TaskState] /\ invs' \in [Task -> InvState]
    BY <1>1, <1>18, <2>2 DEF CommitFinish
  <2>4. txs' \in [Task -> Tx] /\ turn' \in TurnRow
    BY <1>1, <1>6, <1>13, <1>18 DEF CommitFinish
  <2> QED
    BY <1>1, <1>2, <1>3, <1>18, <2>3, <2>4 DEF CommitFinish
<1>19. ASSUME NEW t \in Task, LeaseLapses(t)
       PROVE  TypeOK'
  BY <1>1, <1>2, <1>3, <1>19 DEF LeaseLapses
<1> QED
  BY <1>8, <1>9, <1>10, <1>11, <1>12, <1>14, <1>15, <1>16, <1>17, <1>18, <1>19 DEF TaskStep
-----------------------------------------------------------------------------
(* Rows, results and transactions.                                          *)

\* Rows and transactions say the same after a step that leaves them alone.
LEMMA RowsStay ==
    ASSUME RowsInv, UNCHANGED <<tasks, invs, results, txs>>
    PROVE  RowsInv' /\ Planned' = Planned /\ SettledInvs' = SettledInvs
BY DEF RowsInv, RowsMatch, TxSound, Planned, SettledInvs, Seen

\* The plan's rows come together, where there were none.
LEMMA PlanRows ==
    ASSUME TypeOK, RowsInv, DelegationAssumption, NEW r \in Runner, Plan(r)
    PROVE  /\ RowsInv' /\ Planned = {} /\ SettledInvs = {} /\ SettledInvs' = {}
           /\ Planned' # {} /\ approval' = approval
<1>1. PICK plan \in {S \in SUBSET Task : First \in S} :
          /\ Fresh(plan)
          /\ tasks' = [t \in Task |-> IF t \in plan THEN "pending" ELSE tasks[t]]
          /\ invs' = [t \in Task |-> IF t \in plan THEN "pending" ELSE invs[t]]
  BY DEF Plan
<1>2. tasks[First] = "absent"
  BY <1>1 DEF Fresh, RowsInv, RowsMatch
<1>3. \A t \in Task : tasks[t] = "absent" /\ invs[t] = "absent"
  BY <1>2, DelegationAssumption DEF DelegationAssumption, RowsInv, RowsMatch
<1>4. Planned = {} /\ SettledInvs = {} /\ SettledInvs' = {}
  BY <1>1, <1>3 DEF Planned, SettledInvs, Terminal
<1>5. tasks'[First] = "pending" /\ First \in Planned'
  BY <1>1 DEF Planned
<1>6. UNCHANGED <<approval, results, txs>>
  BY DEF Plan
<1>7. RowsMatch'
  BY <1>1, <1>3, <1>4, <1>5 DEF RowsMatch
<1>8. TxSound'
  BY <1>3, <1>6 DEF TxSound, RowsInv
<1> QED
  BY <1>4, <1>5, <1>6, <1>7, <1>8 DEF RowsInv

\* An agent leases a task, or begins to report on it.
LEMMA LeaseRows ==
    ASSUME TypeOK, RowsInv, NEW t \in Task, Lease(t) \/ BeginFinish(t)
    PROVE  RowsInv' /\ Planned' = Planned /\ SettledInvs' = SettledInvs
<1>1. tasks \in [Task -> TaskState] /\ txs \in [Task -> Tx] /\ results \in SUBSET Task
  BY DEF TypeOK, TaskState, Tx
<1>2. CASE Lease(t)
  <2>1. \A u \in Task : tasks'[u] = "absent" <=> tasks[u] = "absent"
    BY <1>1, <1>2 DEF Lease
  <2>2. Planned' = Planned
    BY <2>1 DEF Planned
  <2>3. UNCHANGED <<invs, results, txs>>
    BY <1>2 DEF Lease
  <2>4. SettledInvs' = SettledInvs
    BY <2>3 DEF SettledInvs
  <2>5. RowsMatch'
    BY <2>1, <2>3, <2>4, DelegationAssumption
       DEF RowsInv, RowsMatch, DelegationAssumption
  <2>6. TxSound'
    <3>1. \A u \in Task : Seen(u)' = Seen(u)
      BY <2>3, <2>4 DEF Seen
    <3> QED
      BY <2>1, <2>2, <2>3, <3>1 DEF RowsInv, TxSound
  <2> QED
    BY <2>2, <2>4, <2>5, <2>6 DEF RowsInv
<1>3. CASE BeginFinish(t)
  <2>1. UNCHANGED <<tasks, invs, results>> /\ tasks[t] # "absent"
    BY <1>3 DEF BeginFinish, planVars
  <2>2. Planned' = Planned /\ SettledInvs' = SettledInvs /\ RowsMatch'
    BY <2>1 DEF Planned, SettledInvs, RowsInv, RowsMatch
  <2>3. PICK outcome \in Final :
            txs' = [txs EXCEPT ![t] = [NoTx EXCEPT
                       !.pc = "begun", !.outcome = outcome,
                       !.view = IF outcome = "completed" THEN SettledInvs ELSE {}]]
    BY <1>3 DEF BeginFinish
  <2>4. txs'[t].pc = "begun"
    BY <1>1, <2>3 DEF NoTx
  <2>5. txs'[t].view \subseteq SettledInvs
    BY <1>1, <2>3 DEF NoTx
  <2>6. \A u \in Task \ {t} : txs'[u] = txs[u] /\ Seen(u)' = Seen(u)
    BY <1>1, <2>2, <2>3 DEF Seen
  <2>7. TxSound'
    BY <2>1, <2>2, <2>4, <2>5, <2>6 DEF RowsInv, RowsMatch, TxSound
  <2> QED
    BY <2>2, <2>7 DEF RowsInv
<1> QED
  BY <1>2, <1>3

\* The turn is locked, and the siblings are read.
LEMMA LockRows ==
    ASSUME TypeOK, RowsInv, NEW t \in Task, LockTurn(t)
    PROVE  RowsInv' /\ Planned' = Planned /\ SettledInvs' = SettledInvs
<1>1. txs \in [Task -> Tx]
  BY DEF TypeOK, Tx
<1>2. UNCHANGED <<tasks, invs, results>> /\ txs[t].pc = "begun" /\ ~TurnLocked
  BY DEF LockTurn, planVars
<1>3. Planned' = Planned /\ SettledInvs' = SettledInvs /\ RowsMatch'
  BY <1>2 DEF Planned, SettledInvs, RowsInv, RowsMatch
<1>4. txs' = [txs EXCEPT ![t] = [txs[t] EXCEPT !.pc = "locked",
                                               !.wakes = WakesTurn(Seen(t))]]
  BY DEF LockTurn
<1>5. /\ txs'[t].pc = "locked"
      /\ txs'[t].view = txs[t].view
      /\ txs'[t].outcome = txs[t].outcome
  BY <1>1, <1>4 DEF Tx
<1>6. txs'[t].wakes = (Planned \subseteq Seen(t))
  BY <1>1, <1>4 DEF Tx, WakesTurn
<1>7. Seen(t)' = Seen(t)
  BY <1>3, <1>5 DEF Seen
<1>8. \A u \in Task \ {t} : txs'[u] = txs[u] /\ txs[u].pc # "locked"
  BY <1>1, <1>2, <1>4 DEF TurnLocked
<1>9. tasks[t] # "absent" /\ txs[t].view \subseteq results
  BY <1>2 DEF RowsInv, TxSound
<1>10. TxSound'
  <2>1. SUFFICES ASSUME NEW u \in Task
                 PROVE  /\ txs'[u].pc # "none" => tasks[u] # "absent"
                        /\ txs'[u].view \subseteq results
                        /\ txs'[u].pc = "locked" =>
                              /\ txs'[u].wakes <=> Planned \subseteq Seen(u)'
                              /\ \A v \in Task : txs'[v].pc = "locked" => v = u
    BY <1>2, <1>3 DEF TxSound
  <2>2. CASE u = t
    BY <1>5, <1>6, <1>7, <1>8, <1>9, <2>2
  <2>3. CASE u # t
    <3>1. txs'[u] = txs[u] /\ txs[u].pc # "locked"
      BY <1>8, <2>3
    <3> QED
      BY <3>1 DEF RowsInv, TxSound
  <2> QED
    BY <2>2, <2>3
<1> QED
  BY <1>3, <1>10 DEF RowsInv

\* The result is there; a transaction that wakes the turn was the last.
LEMMA CommitRows ==
    ASSUME TypeOK, RowsInv, DelegationAssumption, NEW t \in Task, CommitFinish(t)
    PROVE  /\ RowsInv' /\ Planned' = Planned /\ t \in Planned
           /\ SettledInvs' = SettledInvs \cup {t}
           /\ results \subseteq results'
           /\ txs[t].wakes => Planned \subseteq results'
<1>1. tasks \in [Task -> TaskState] /\ invs \in [Task -> InvState] /\ txs \in [Task -> Tx]
  BY DEF TypeOK, TaskState, InvState, Tx
<1>2. /\ txs[t].pc = "locked"
      /\ tasks' = [tasks EXCEPT ![t] = txs[t].outcome]
      /\ results' = results \cup {t}
      /\ invs' = [invs EXCEPT ![t] = InvocationState(txs[t].outcome)]
      /\ txs' = [txs EXCEPT ![t] = NoTx]
  BY DEF CommitFinish
<1>3. txs[t].outcome \in Final /\ InvocationState(txs[t].outcome) \in Terminal
  BY <1>1 DEF Tx, InvocationState, Terminal
<1>4. tasks[t] # "absent"
  BY <1>2 DEF RowsInv, TxSound
<1>5. \A u \in Task : tasks'[u] = "absent" <=> tasks[u] = "absent"
  BY <1>1, <1>2, <1>3, <1>4 DEF Final
<1>6. \A u \in Task : invs'[u] = "absent" <=> invs[u] = "absent"
  BY <1>1, <1>2, <1>3, <1>4 DEF Terminal, RowsInv, RowsMatch
<1>7. Planned' = Planned /\ t \in Planned
  BY <1>4, <1>5 DEF Planned
<1>8. SettledInvs' = SettledInvs \cup {t}
  BY <1>1, <1>2, <1>3 DEF SettledInvs
<1>9. RowsMatch'
  BY <1>2, <1>5, <1>6, <1>8, DelegationAssumption
     DEF RowsInv, RowsMatch, DelegationAssumption
<1>10. \A u \in Task \ {t} : txs'[u] = txs[u] /\ txs[u].pc # "locked"
  BY <1>1, <1>2 DEF RowsInv, TxSound
<1>11. txs'[t] = NoTx
  BY <1>1, <1>2
<1>12. TxSound'
  BY <1>2, <1>5, <1>10, <1>11 DEF RowsInv, TxSound, NoTx
<1>13. txs[t].wakes => Planned \subseteq results'
  <2>1. txs[t].wakes => Planned \subseteq Seen(t)
    BY <1>2 DEF RowsInv, TxSound
  <2>2. Seen(t) \subseteq results'
    BY <1>2 DEF RowsInv, RowsMatch, TxSound, Seen
  <2> QED
    BY <2>1, <2>2
<1> QED
  BY <1>2, <1>7, <1>8, <1>9, <1>12, <1>13 DEF RowsInv

\* A crash rolls the transactions back.
LEMMA CrashRows ==
    ASSUME RowsInv, Crash
    PROVE  RowsInv' /\ Planned' = Planned /\ SettledInvs' = SettledInvs
<1>1. UNCHANGED <<tasks, invs, results>> /\ txs' = [t \in Task |-> NoTx]
  BY DEF Crash, planVars
<1>2. Planned' = Planned /\ SettledInvs' = SettledInvs /\ RowsMatch'
  BY <1>1 DEF Planned, SettledInvs, RowsInv, RowsMatch
<1>3. TxSound'
  BY <1>1 DEF TxSound, NoTx
<1> QED
  BY <1>2, <1>3 DEF RowsInv
-----------------------------------------------------------------------------
(* The turn and its runners.                                                *)

\* A step that changes but who runs: nobody becomes active, or knows less,
\* or goes on to the answer.
LEMMA TurnStays ==
    ASSUME TurnInv, UNCHANGED <<turn, approval>>, Planned' = Planned, results \subseteq results',
           \A r \in Runner :
               /\ runners'[r].pc = "plan" => runners[r].pc = "plan"
                                              /\ runners'[r].seen = runners[r].seen
               /\ runners'[r].pc = "answer" => runners[r].pc = "answer"
                                                /\ runners'[r].seen = runners[r].seen
    PROVE  TurnInv'
BY DEF TurnInv, ApprovalLast, PlanWaits, ForgottenKept, ClaimerKnows,
       SynthesisSeesAllResults, ActiveTurn

\* A turn that nobody runs after the step is sound if its row is.
LEMMA RowSuffices ==
    ASSUME ApprovalLast', PlanWaits', ForgottenKept',
           \A r \in Runner : ~ActiveTurn(r)'
    PROVE  TurnInv'
BY DEF TurnInv, ClaimerKnows, SynthesisSeesAllResults

\* Fields of a row that is released, or forgets the plan.
LEMMA ReleaseFields ==
    ASSUME TypeOK, NEW r \in Runner,
           NEW state \in {"absent", "pending", "running", "paused", "completed"}
    PROVE  /\ Release(state).state = state /\ Release(state).runner = "none"
           /\ Release(state).planned = turn.planned /\ Release(state).kept = turn.kept
           /\ Release(state) \in TurnRow
           /\ \A row \in TurnRow :
                 /\ Forget(row, r).state = row.state /\ Forget(row, r).runner = row.runner
                 /\ Forget(row, r).lapsed = row.lapsed
                 /\ ~Forget(row, r).planned /\ Forget(row, r).kept = runners[r].seen
<1>1. turn \in TurnRow
  BY DEF TypeOK, TurnRow
<1>2. /\ Release(state).state = state /\ Release(state).runner = "none"
      /\ Release(state).planned = turn.planned /\ Release(state).kept = turn.kept
  BY <1>1 DEF Release, TurnRow
<1>3. Release(state) \in TurnRow
  BY <1>1 DEF Release, TurnRow
<1>4. ASSUME NEW row \in TurnRow
      PROVE  /\ Forget(row, r).state = row.state /\ Forget(row, r).runner = row.runner
             /\ Forget(row, r).lapsed = row.lapsed
             /\ ~Forget(row, r).planned /\ Forget(row, r).kept = runners[r].seen
  BY DEF Forget, TurnRow
<1> QED
  BY <1>2, <1>3, <1>4

\* The pc of the runner that is done, or ends, and what others have seen.
LEMMA GoesFields ==
    ASSUME TypeOK, NEW r \in Runner
    PROVE  /\ \A pc : Goes(r, pc) => runners'[r].pc = pc /\ runners'[r].seen = runners[r].seen
           /\ Done(r) => runners'[r].pc \in {"claim", "none"}
           /\ Ends(r) => runners'[r].pc \in {"stopping", "none"}
           /\ (\E pc : Goes(r, pc)) \/ Done(r) \/ Ends(r)
                  => \A q \in Runner \ {r} : runners'[q] = runners[q]
<1>1. runners \in [Runner -> RunnerRow]
  BY DEF TypeOK, RunnerRow
<1>2. ASSUME NEW pc, Goes(r, pc)
      PROVE  /\ runners'[r].pc = pc /\ runners'[r].seen = runners[r].seen
             /\ \A q \in Runner \ {r} : runners'[q] = runners[q]
  <2>1. runners' = [runners EXCEPT ![r] = [runners[r] EXCEPT !.pc = pc]]
    BY <1>2 DEF Goes
  <2> QED
    BY <1>1, <2>1 DEF RunnerRow
<1>3. ASSUME runners' = [runners EXCEPT ![r] = Idle]
      PROVE  runners'[r].pc = "none" /\ \A q \in Runner \ {r} : runners'[q] = runners[q]
  BY <1>1, <1>3 DEF Idle
<1> QED
  BY <1>2, <1>3 DEF Done, Ends

\* A runner claims the turn with what its messages keep.
LEMMA ClaimTurn ==
    ASSUME TypeOK, TurnInv, Planned' = Planned, results' = results,
           NEW r \in Runner, Claim(r)
    PROVE  TurnInv'
<1>1. runners \in [Runner -> RunnerRow] /\ turn \in TurnRow
  BY DEF TypeOK, RunnerRow, TurnRow
<1>2. CASE /\ ClaimableTurn
           /\ turn' = [turn EXCEPT !.state = "running", !.runner = r, !.lapsed = FALSE]
           /\ runners' = [runners EXCEPT ![r] = [pc |-> "plan", seen |-> turn.kept]]
  <2>1. /\ turn'.state = "running" /\ turn'.runner = r
        /\ turn'.planned = turn.planned /\ turn'.kept = turn.kept
    BY <1>1, <1>2 DEF TurnRow
  <2>2. runners'[r] = [pc |-> "plan", seen |-> turn.kept]
    BY <1>1, <1>2
  <2>3. turn.state # "paused" /\ approval' = approval
    BY <1>2 DEF ClaimableTurn, Claim
  <2>4. \A q \in Runner : ActiveTurn(q)' => q = r
    BY <2>1 DEF ActiveTurn
  <2>5. ApprovalLast' /\ PlanWaits' /\ ForgottenKept'
    BY <2>1, <2>3 DEF TurnInv, ApprovalLast, PlanWaits, ForgottenKept
  <2>6. ClaimerKnows' /\ SynthesisSeesAllResults'
    BY <2>1, <2>2, <2>4 DEF TurnInv, ForgottenKept, ClaimerKnows, SynthesisSeesAllResults
  <2> QED
    BY <2>5, <2>6 DEF TurnInv
<1>3. CASE (Goes(r, "stopping") \/ Done(r)) /\ UNCHANGED turn
  BY <1>3, TurnStays, GoesFields DEF Claim
<1> QED
  BY <1>2, <1>3 DEF Claim

\* A runner that goes on to the answer knows all results.
LEMMA AnswerKnows ==
    ASSUME TypeOK, TurnInv, Planned' = Planned, UNCHANGED <<turn, approval, results>>,
           NEW r \in Runner, runners'[r].pc = "answer",
           runners[r].seen \subseteq runners'[r].seen,
           ActiveTurn(r) => Planned \subseteq runners'[r].seen,
           \A q \in Runner \ {r} : runners'[q] = runners[q]
    PROVE  TurnInv'
<1>1. \A q \in Runner : ActiveTurn(q)' = ActiveTurn(q)
  BY DEF ActiveTurn
<1>2. ApprovalLast' /\ PlanWaits' /\ ForgottenKept'
  BY DEF TurnInv, ApprovalLast, PlanWaits, ForgottenKept
<1>3. ASSUME NEW q \in Runner
      PROVE  /\ runners'[q].pc = "plan" /\ ~turn.planned /\ ActiveTurn(q)
                    => Planned \subseteq runners'[q].seen
             /\ runners'[q].pc = "answer" /\ ActiveTurn(q)
                    => Planned \subseteq runners'[q].seen
  <2>1. CASE q = r
    BY <2>1
  <2>2. CASE q # r
    BY <2>2 DEF TurnInv, ClaimerKnows, SynthesisSeesAllResults
  <2> QED
    BY <2>1, <2>2
<1>4. ClaimerKnows' /\ SynthesisSeesAllResults'
  BY <1>1, <1>3 DEF ClaimerKnows, SynthesisSeesAllResults
<1> QED
  BY <1>2, <1>4 DEF TurnInv

\* What a runner does with the turn it has.
LEMMA RunnerTurn ==
    ASSUME TypeOK, RowsInv, TurnInv, DelegationAssumption, NEW r \in Runner, RunnerStep(r)
    PROVE  RowsInv' /\ TurnInv'
<1> USE DEF planVars, turnVars
<1>1. turn \in TurnRow /\ runners \in [Runner -> RunnerRow]
  BY DEF TypeOK, TurnRow, RunnerRow
<1>2. CASE Plan(r)
  <2>1. RowsInv' /\ Planned = {} /\ Planned' # {} /\ approval' = approval
    BY <1>2, PlanRows
  <2>2. /\ turn' = [Release("paused") EXCEPT !.planned = TRUE, !.kept = runners[r].seen]
        /\ turn.state = "running"
    BY <1>2 DEF Plan, ActiveTurn
  <2>3. turn'.state = "paused" /\ turn'.planned
    <3>1. ASSUME NEW row \in TurnRow, NEW seen
          PROVE  /\ [row EXCEPT !.planned = TRUE, !.kept = seen].state = row.state
                 /\ [row EXCEPT !.planned = TRUE, !.kept = seen].planned
      BY DEF TurnRow
    <3> QED
      BY <2>2, <3>1, ReleaseFields
  <2>4. approval # "pending"
    BY <2>1, <2>2 DEF TurnInv, ApprovalLast
  <2>5. ApprovalLast' /\ PlanWaits' /\ ForgottenKept' /\ \A q \in Runner : ~ActiveTurn(q)'
    BY <2>1, <2>3, <2>4 DEF ApprovalLast, PlanWaits, ForgottenKept, ActiveTurn
  <2> QED
    BY <2>1, <2>5, RowSuffices
<1>3. ASSUME ~Plan(r)
      PROVE  RowsInv' /\ Planned' = Planned /\ results' = results
  <2>1. UNCHANGED <<tasks, invs, results, txs>>
    BY <1>3 DEF RunnerStep, Claim, ReadResults, PlanRefused, NoPlan, Checkpoint, AskApproval,
                Answer, ModelFails, Refused, Stop
  <2> QED
    BY <2>1, RowsStay
<1>4. CASE Claim(r) /\ ~Plan(r)
  BY <1>3, <1>4, ClaimTurn
<1>5. CASE ReadResults(r) /\ ~Plan(r)
  <2>1. runners'[r].pc = "answer" /\ runners'[r].seen = runners[r].seen \cup results
        /\ \A q \in Runner \ {r} : runners'[q] = runners[q]
    BY <1>1, <1>5 DEF ReadResults
  <2>2. ActiveTurn(r) => Planned \subseteq results
    BY <1>5 DEF ReadResults, ActiveTurn, TurnInv, PlanWaits
  <2>3. UNCHANGED <<turn, approval>>
    BY <1>5 DEF ReadResults
  <2> QED
    BY <1>3, <1>5, <2>1, <2>2, <2>3, AnswerKnows
<1>6. CASE NoPlan(r) /\ ~Plan(r)
  <2>1. runners'[r].pc = "answer" /\ runners'[r].seen = runners[r].seen
        /\ \A q \in Runner \ {r} : runners'[q] = runners[q]
    BY <1>6, GoesFields DEF NoPlan
  <2>2. ActiveTurn(r) => Planned \subseteq runners[r].seen
    BY <1>6 DEF NoPlan, TurnInv, ClaimerKnows
  <2>3. UNCHANGED <<turn, approval>>
    BY <1>6 DEF NoPlan
  <2> QED
    BY <1>3, <1>6, <2>1, <2>2, <2>3, AnswerKnows
<1>7. CASE (PlanRefused(r) \/ ModelFails(r) \/ Refused(r)) /\ ~Plan(r)
  <2>1. Ends(r) /\ UNCHANGED <<turn, approval>>
    BY <1>7 DEF PlanRefused, ModelFails, Refused
  <2> QED
    BY <1>3, <1>7, <2>1, TurnStays, GoesFields
<1>8. CASE Checkpoint(r) /\ ~Plan(r)
  <2>1. Planned \subseteq runners[r].seen
    BY <1>8 DEF Checkpoint, TurnInv, SynthesisSeesAllResults
  <2>2. /\ turn'.state = "running" /\ turn'.runner = turn.runner /\ turn'.lapsed = turn.lapsed
        /\ ~turn'.planned /\ turn'.kept = runners[r].seen
        /\ turn.state = "running"
    BY <1>1, <1>8, ReleaseFields DEF Checkpoint, ActiveTurn
  <2>3. UNCHANGED <<approval, runners>>
    BY <1>8 DEF Checkpoint
  <2>4. \A q \in Runner : ActiveTurn(q)' = ActiveTurn(q) /\ (ActiveTurn(q) => q = r)
    BY <1>8, <2>2 DEF Checkpoint, ActiveTurn
  <2>5. ApprovalLast' /\ PlanWaits' /\ ForgottenKept'
    BY <1>3, <1>8, <2>1, <2>2, <2>3
       DEF TurnInv, ApprovalLast, PlanWaits, ForgottenKept
  <2>6. ClaimerKnows' /\ SynthesisSeesAllResults'
    BY <1>3, <1>8, <2>1, <2>3, <2>4 DEF ClaimerKnows, SynthesisSeesAllResults
  <2> QED
    BY <1>3, <1>8, <2>5, <2>6 DEF TurnInv
<1>9. CASE AskApproval(r) /\ ~Plan(r)
  <2>1. Planned \subseteq runners[r].seen
    BY <1>9 DEF AskApproval, TurnInv, SynthesisSeesAllResults
  <2>2. /\ turn'.state = "paused" /\ ~turn'.planned /\ turn'.kept = runners[r].seen
    BY <1>9, ReleaseFields DEF AskApproval
  <2>3. ApprovalLast' /\ PlanWaits' /\ ForgottenKept' /\ \A q \in Runner : ~ActiveTurn(q)'
    BY <1>3, <1>9, <2>1, <2>2 DEF ApprovalLast, PlanWaits, ForgottenKept, ActiveTurn
  <2> QED
    BY <1>3, <1>9, <2>3, RowSuffices
<1>10. CASE Answer(r) /\ ~Plan(r)
  <2>1. /\ turn'.state = "completed" /\ turn'.planned = turn.planned
        /\ turn'.kept = turn.kept /\ approval' = approval
        /\ turn.state = "running"
    BY <1>10, ReleaseFields DEF Answer, ActiveTurn
  <2>2. ApprovalLast' /\ PlanWaits' /\ ForgottenKept' /\ \A q \in Runner : ~ActiveTurn(q)'
    BY <1>3, <1>10, <2>1
       DEF TurnInv, ApprovalLast, PlanWaits, ForgottenKept, ActiveTurn
  <2> QED
    BY <1>3, <1>10, <2>2, RowSuffices
<1>11. CASE Stop /\ ~Plan(r)
  <2>1. runners' = [runners EXCEPT !["tenant"] = Idle] /\ UNCHANGED <<turn, approval>>
    BY <1>11 DEF Stop
  <2>2. \A q \in Runner : runners'[q] = runners[q] \/ runners'[q].pc = "none"
    BY <1>1, <2>1 DEF Idle
  <2> QED
    BY <1>3, <1>11, <2>1, <2>2, TurnStays
<1> QED
  BY <1>2, <1>4, <1>5, <1>6, <1>7, <1>8, <1>9, <1>10, <1>11 DEF RunnerStep
\* A turn that becomes pending with all its results, or without a plan, is
\* sound, and nobody runs it.
LEMMA PendingTurn ==
    ASSUME TypeOK, TurnInv, turn' = [turn EXCEPT !.state = "pending"],
           Planned' = Planned, results \subseteq results',
           turn.planned => Planned \subseteq results',
           approval' = "pending" => approval = "pending" /\ Planned # {}
    PROVE  TurnInv'
<1>1. turn \in TurnRow
  BY DEF TypeOK, TurnRow
<1>2. /\ turn'.state = "pending" /\ turn'.planned = turn.planned /\ turn'.kept = turn.kept
  BY <1>1 DEF TurnRow
<1>3. ApprovalLast' /\ PlanWaits' /\ ForgottenKept' /\ \A q \in Runner : ~ActiveTurn(q)'
  BY <1>2 DEF TurnInv, ApprovalLast, PlanWaits, ForgottenKept, ActiveTurn
<1> QED
  BY <1>3, RowSuffices

\* Requests, agents, time and crashes.
LEMMA OtherTurn ==
    ASSUME DelegationInv, DelegationAssumption,
           \/ PostMessage \/ Decide \/ RunLeaseLapses \/ Outlive \/ Crash
           \/ \E w \in wakes : AdvanceTurn(w)
           \/ \E t \in Task : TaskStep(t) \/ LeaseLapses(t)
    PROVE  RowsInv' /\ TurnInv'
<1> USE DEF turnVars, planVars, leaseVars
<1>1. TypeOK /\ RowsInv /\ TurnInv
  BY DEF DelegationInv
<1>2. turn \in TurnRow /\ runners \in [Runner -> RunnerRow]
  BY <1>1 DEF TypeOK, TurnRow, RunnerRow
<1>3. ASSUME UNCHANGED <<tasks, invs, results, txs>>
      PROVE  RowsInv' /\ Planned' = Planned /\ results \subseteq results'
  BY <1>1, <1>3, RowsStay
<1>4. CASE PostMessage
  <2>1. RowsInv' /\ Planned' = Planned /\ results \subseteq results'
    BY <1>3, <1>4 DEF PostMessage
  <2>2. runners' = [runners EXCEPT !["request"] = [runners["request"] EXCEPT !.pc = "claim"]]
    BY <1>4 DEF PostMessage
  <2>3. \A q \in Runner : runners'[q] = runners[q] \/ runners'[q].pc = "claim"
    BY <1>2, <2>2 DEF RunnerRow, Runner
  <2>4. CASE turn.state = "absent"
    <3>1. turn' = [turn EXCEPT !.state = "pending"] /\ approval' = approval
      BY <1>4, <2>4 DEF PostMessage
    <3>2. turn.planned => Planned \subseteq results
      BY <1>1, <2>4 DEF TurnInv, PlanWaits
    <3>3. approval = "pending" => Planned # {}
      BY <1>1, <2>4 DEF TurnInv, ApprovalLast
    <3> QED
      BY <1>1, <2>1, <3>1, <3>2, <3>3, PendingTurn
  <2>5. CASE turn.state # "absent"
    <3>1. UNCHANGED <<turn, approval>>
      BY <1>4, <2>5 DEF PostMessage
    <3> QED
      BY <1>1, <2>1, <2>3, <3>1, TurnStays
  <2> QED
    BY <2>4, <2>5
<1>5. CASE Decide
  <2>1. RowsInv' /\ Planned' = Planned /\ results \subseteq results'
    BY <1>3, <1>5 DEF Decide
  <2>2. turn' = [turn EXCEPT !.state = "pending"] /\ approval' = "decided" /\ ~turn.planned
    BY <1>1, <1>5 DEF Decide, TurnInv, ApprovalLast
  <2> QED
    BY <1>1, <2>1, <2>2, PendingTurn
<1>6. CASE \E w \in wakes : AdvanceTurn(w)
  <2>1. UNCHANGED <<turn, approval, tasks, invs, results, txs>>
    BY <1>6 DEF AdvanceTurn
  <2>2. \/ runners' = runners
        \/ runners' = [runners EXCEPT !["tenant"] = [runners["tenant"] EXCEPT !.pc = "claim"]]
    BY <1>6 DEF AdvanceTurn
  <2>3. \A q \in Runner : runners'[q] = runners[q] \/ runners'[q].pc = "claim"
    BY <1>2, <2>2 DEF RunnerRow, Runner
  <2> QED
    BY <1>1, <1>3, <2>1, <2>3, TurnStays
<1>7. CASE RunLeaseLapses \/ Outlive
  <2>1. /\ UNCHANGED <<approval, tasks, invs, results, txs, runners>>
        /\ turn' = [turn EXCEPT !.lapsed = TRUE] /\ turn.state = "running"
    BY <1>7 DEF RunLeaseLapses, Outlive
  <2>2. /\ turn'.state = turn.state /\ turn'.planned = turn.planned
        /\ turn'.kept = turn.kept /\ turn'.lapsed
    BY <1>2, <2>1 DEF TurnRow
  <2>3. RowsInv' /\ Planned' = Planned /\ results' = results
    BY <1>3, <2>1
  <2>4. ApprovalLast' /\ PlanWaits' /\ ForgottenKept' /\ \A q \in Runner : ~ActiveTurn(q)'
    BY <1>1, <2>1, <2>2, <2>3
       DEF TurnInv, ApprovalLast, PlanWaits, ForgottenKept, ActiveTurn
  <2> QED
    BY <2>3, <2>4, RowSuffices
<1>8. CASE Crash
  <2>1. RowsInv' /\ Planned' = Planned
    BY <1>1, <1>8, CrashRows
  <2>2. UNCHANGED <<turn, approval, results>> /\ \A q \in Runner : runners'[q].pc = "none"
    BY <1>8 DEF Crash, Idle
  <2> QED
    BY <1>1, <2>1, <2>2, TurnStays
<1>9. ASSUME NEW t \in Task, Lease(t) \/ BeginFinish(t) \/ LockTurn(t) \/ LeaseLapses(t)
      PROVE  RowsInv' /\ TurnInv'
  <2>1. UNCHANGED <<turn, approval, results, runners>>
    BY <1>9 DEF Lease, BeginFinish, LockTurn, LeaseLapses
  <2>2. RowsInv' /\ Planned' = Planned
    <3>1. CASE Lease(t) \/ BeginFinish(t)
      BY <1>1, <3>1, LeaseRows
    <3>2. CASE LockTurn(t)
      BY <1>1, <3>2, LockRows
    <3>3. CASE LeaseLapses(t)
      BY <1>3, <3>3 DEF LeaseLapses
    <3> QED
      BY <1>9, <3>1, <3>2, <3>3
  <2> QED
    BY <1>1, <2>1, <2>2, TurnStays
<1>10. ASSUME NEW t \in Task, CommitFinish(t)
       PROVE  RowsInv' /\ TurnInv'
  <2>1. /\ RowsInv' /\ Planned' = Planned /\ t \in Planned
        /\ results \subseteq results'
        /\ txs[t].wakes => Planned \subseteq results'
    BY <1>1, <1>10, CommitRows
  <2>2. UNCHANGED <<approval, runners>>
    BY <1>10 DEF CommitFinish
  <2>3. CASE txs[t].wakes
    <3>1. turn' = [turn EXCEPT !.state = "pending"]
      BY <1>10, <2>3 DEF CommitFinish
    <3> QED
      BY <1>1, <2>1, <2>2, <2>3, <3>1, PendingTurn
  <2>4. CASE ~txs[t].wakes
    <3>1. turn' = turn
      BY <1>10, <2>4 DEF CommitFinish
    <3> QED
      BY <1>1, <2>1, <2>2, <3>1, TurnStays
  <2> QED
    BY <2>3, <2>4
<1> QED
  BY <1>4, <1>5, <1>6, <1>7, <1>8, <1>9, <1>10 DEF TaskStep
-----------------------------------------------------------------------------
(* The theorems.                                                            *)

\* Requests, runners, agents, time and crashes keep what the argument needs.
THEOREM DelegationInvariant == Spec => []DelegationInv
<1>1. Init => DelegationInv
  <2>1. SUFFICES ASSUME Init PROVE DelegationInv
    OBVIOUS
  <2>2. TypeOK
    BY <2>1, DelegationAssumption
       DEF Init, TypeOK, NoTx, Idle, Final, DelegationAssumption
  <2>3. Planned = {} /\ SettledInvs = {}
    BY <2>1 DEF Init, Planned, SettledInvs, Terminal
  <2>4. RowsInv
    BY <2>1, <2>3 DEF Init, RowsInv, RowsMatch, TxSound, NoTx
  <2>5. TurnInv
    BY <2>1, <2>3 DEF Init, TurnInv, ApprovalLast, PlanWaits, ForgottenKept, ClaimerKnows,
                      SynthesisSeesAllResults
  <2> QED
    BY <2>2, <2>4, <2>5 DEF DelegationInv
<1>2. DelegationInv /\ [Next]_vars => DelegationInv'
  <2> SUFFICES ASSUME DelegationInv, [Next]_vars PROVE DelegationInv'
    OBVIOUS
  <2> USE DelegationAssumption
  <2>1. CASE \E r \in Runner : RunnerStep(r)
    BY <2>1, RunnerTypes, RunnerTurn DEF DelegationInv
  <2>2. CASE \/ PostMessage \/ Decide \/ RunLeaseLapses \/ Outlive \/ Crash
             \/ \E w \in wakes : AdvanceTurn(w)
             \/ \E t \in Task : TaskStep(t) \/ LeaseLapses(t)
    BY <2>2, OtherTypes, OtherTurn DEF DelegationInv
  <2>3. CASE UNCHANGED vars
    <3>1. UNCHANGED <<turn, approval, tasks, invs, results, leases, leased, txs, wakes,
                      runners, mishaps>>
      BY <2>3 DEF vars, turnVars, planVars, leaseVars
    <3>2. TypeOK'
      BY <3>1 DEF DelegationInv, TypeOK
    <3>3. RowsInv' /\ Planned' = Planned
      BY <3>1, RowsStay DEF DelegationInv
    <3>4. TurnInv'
      BY <3>1, <3>3, TurnStays DEF DelegationInv
    <3> QED
      BY <3>2, <3>3, <3>4 DEF DelegationInv
  <2> QED
    BY <2>1, <2>2, <2>3 DEF Next
<1> QED
  BY <1>1, <1>2, PTL DEF Spec

\* The turn's row, tasks, transactions and runners keep their types.
THEOREM DelegationTypeCorrect == Spec => []TypeOK
<1>1. DelegationInv => TypeOK
  BY DEF DelegationInv
<1> QED
  BY <1>1, DelegationInvariant, PTL

\* A runner that answers a delegated turn has read the result of every
\* sibling (_sibling_provenance, finish_task).
THEOREM AnswerDrawsOnAll == Spec => []SynthesisSeesAllResults
<1>1. DelegationInv => SynthesisSeesAllResults
  BY DEF DelegationInv, TurnInv
<1> QED
  BY <1>1, DelegationInvariant, PTL

\* A turn that was handed out is not handed out again (the unique constraint
\* on the calls of a turn, in create_delegated_tasks).
THEOREM HandedOutOnce == Spec => DelegatedOnce
<1> DEFINE Once == Planned # {}
                     => \A t \in Task : tasks[t] = "absent" => tasks'[t] = "absent"
<1>1. DelegationInv /\ [Next]_vars => [Once]_vars
  <2> SUFFICES ASSUME DelegationInv, [Next]_vars, Planned # {}, NEW t \in Task,
                      tasks[t] = "absent"
               PROVE  tasks'[t] = "absent"
    OBVIOUS
  <2>1. TypeOK /\ RowsInv
    BY DEF DelegationInv
  <2>2. Planned' = Planned => tasks'[t] = "absent"
    BY DEF Planned
  <2>3. CASE UNCHANGED tasks
    BY <2>3
  <2>4. CASE \E r \in Runner : Plan(r)
    BY <2>1, <2>4, PlanRows, DelegationAssumption
  <2>5. CASE \E u \in Task : Lease(u) \/ CommitFinish(u)
    BY <2>1, <2>2, <2>5, LeaseRows, CommitRows, DelegationAssumption
  <2>6. CASE \E r \in Runner : RunnerStep(r) /\ ~Plan(r)
    BY <2>3, <2>6 DEF RunnerStep, Claim, ReadResults, PlanRefused, NoPlan, Checkpoint,
          AskApproval, Answer, ModelFails, Refused, Stop, planVars
  <2>7. CASE \E u \in Task : BeginFinish(u) \/ LockTurn(u) \/ LeaseLapses(u)
    BY <2>3, <2>7 DEF BeginFinish, LockTurn, LeaseLapses, planVars
  <2>8. CASE \/ PostMessage \/ Decide \/ RunLeaseLapses \/ Outlive \/ Crash
             \/ \E w \in wakes : AdvanceTurn(w)
    BY <2>3, <2>8 DEF PostMessage, Decide, RunLeaseLapses, Outlive, Crash, AdvanceTurn, planVars
  <2>9. CASE UNCHANGED vars
    BY <2>3, <2>9 DEF vars, planVars
  <2> QED
    BY <2>4, <2>5, <2>6, <2>7, <2>8, <2>9 DEF Next, TaskStep
<1> QED
  BY <1>1, DelegationInvariant, PTL DEF Spec, DelegatedOnce
\* A turn misses its last result only where two siblings complete at the
\* same time, and the later commit has not seen the earlier (finish_task).
THEOREM OverlapAloneStrands == Spec => OnlyOverlapStrands
<1> DEFINE Overlap == \E t, u \in Planned :
                          /\ txs[t].pc = "locked" /\ txs[t].outcome = "completed"
                          /\ u \in SettledInvs \ Seen(t)
           Only == ~Stranded /\ Stranded' => Overlap
<1>1. DelegationInv /\ [Next]_vars => [Only]_vars
  <2> SUFFICES ASSUME DelegationInv, [Next]_vars, ~Stranded, Stranded'
               PROVE  Overlap
    OBVIOUS
  <2> USE DEF turnVars, planVars, leaseVars
  <2>1. TypeOK /\ RowsInv /\ turn \in TurnRow
    BY DEF DelegationInv, TypeOK, TurnRow
  <2>2. turn'.state = "paused" /\ turn'.planned /\ Planned' \subseteq SettledInvs'
    BY DEF Stranded
  <2>3. ASSUME NEW t \in Task, CommitFinish(t)
        PROVE  Overlap
    <3>1. Planned' = Planned /\ t \in Planned /\ SettledInvs' = SettledInvs \cup {t}
      BY <2>1, <2>3, CommitRows, DelegationAssumption
    <3>2. ~txs[t].wakes /\ turn' = turn
      BY <2>1, <2>2, <2>3 DEF CommitFinish, TurnRow
    <3>3. txs[t].pc = "locked" /\ ~(Planned \subseteq Seen(t))
      BY <2>1, <2>3, <3>2 DEF CommitFinish, RowsInv, TxSound
    <3>4. PICK u \in Planned : u \notin Seen(t)
      BY <3>3
    <3>5. u # t /\ (txs[t].outcome # "completed" => u \notin SettledInvs)
      BY <3>4 DEF Seen
    <3>6. u \in SettledInvs
      BY <2>2, <3>1, <3>4, <3>5
    <3> QED
      BY <3>1, <3>3, <3>4, <3>5, <3>6
  <2>4. ASSUME Planned' = Planned, SettledInvs' = SettledInvs
        PROVE  turn' # turn
    BY <2>2, <2>4 DEF Stranded
  <2>5. ASSUME NEW r \in Runner, RunnerStep(r)
        PROVE  FALSE
    <3>1. CASE Plan(r)
      <4>1. Planned' # {} /\ SettledInvs' = {}
        BY <2>1, <3>1, PlanRows, DelegationAssumption
      <4> QED
        BY <2>2, <4>1
    <3>2. CASE ~Plan(r)
      <4>1. UNCHANGED <<tasks, invs, results, txs>>
        BY <2>5, <3>2 DEF RunnerStep, Claim, ReadResults, PlanRefused, NoPlan, Checkpoint,
                  AskApproval, Answer, ModelFails, Refused, Stop
      <4>2. turn' # turn
        BY <2>1, <2>4, <4>1, RowsStay
      <4>3. Claim(r) \/ Checkpoint(r) \/ AskApproval(r) \/ Answer(r)
        BY <2>5, <3>2, <4>2 DEF RunnerStep, ReadResults, PlanRefused, NoPlan, ModelFails,
                  Refused, Stop
      <4>4. CASE Claim(r)
        <5>1. turn' = [turn EXCEPT !.state = "running", !.runner = r, !.lapsed = FALSE]
          BY <4>2, <4>4 DEF Claim
        <5> QED
          BY <2>1, <2>2, <5>1 DEF TurnRow
      <4>5. CASE Checkpoint(r) \/ AskApproval(r)
        <5>1. PICK row \in TurnRow : turn' = Forget(row, r)
          BY <2>1, <4>5, ReleaseFields DEF Checkpoint, AskApproval
        <5> QED
          BY <2>1, <2>2, <5>1, ReleaseFields
      <4>6. CASE Answer(r)
        BY <2>1, <2>2, <4>6, ReleaseFields DEF Answer
      <4> QED
        BY <4>3, <4>4, <4>5, <4>6
    <3> QED
      BY <3>1, <3>2
  <2>6. ASSUME NEW t \in Task, Lease(t) \/ BeginFinish(t) \/ LockTurn(t)
        PROVE  FALSE
    <3>1. Planned' = Planned /\ SettledInvs' = SettledInvs
      BY <2>1, <2>6, LeaseRows, LockRows
    <3>2. turn' = turn
      BY <2>6 DEF Lease, BeginFinish, LockTurn
    <3> QED
      BY <2>4, <3>1, <3>2
  <2>7. CASE \/ PostMessage \/ Decide \/ RunLeaseLapses \/ Outlive
             \/ (\E w \in wakes : AdvanceTurn(w)) \/ (\E t \in Task : LeaseLapses(t))
             \/ UNCHANGED vars
    <3>1. UNCHANGED <<tasks, invs, results, txs>>
      BY <2>7 DEF PostMessage, Decide, RunLeaseLapses, Outlive, AdvanceTurn, LeaseLapses, vars
    <3>2. turn' # turn
      BY <2>1, <2>4, <3>1, RowsStay
    <3>3. PostMessage \/ Decide \/ RunLeaseLapses \/ Outlive
      BY <2>7, <3>2 DEF AdvanceTurn, LeaseLapses, vars
    <3>4. \/ turn' = [turn EXCEPT !.state = "pending"]
          \/ turn' = [turn EXCEPT !.lapsed = TRUE] /\ turn.state = "running"
      BY <3>2, <3>3 DEF PostMessage, Decide, RunLeaseLapses, Outlive
    <3> QED
      BY <2>1, <2>2, <3>4 DEF TurnRow
  <2>8. CASE Crash
    <3>1. Planned' = Planned /\ SettledInvs' = SettledInvs /\ turn' = turn
      BY <2>1, <2>8, CrashRows DEF Crash
    <3> QED
      BY <2>4, <3>1
  <2> QED
    BY <2>3, <2>5, <2>6, <2>7, <2>8 DEF Next, TaskStep
<1> QED
  BY <1>1, DelegationInvariant, PTL DEF Spec, OnlyOverlapStrands

\* A pending turn is left without a runner only by a crash, by a runner that
\* is about to end, or by a request that fails (advance_turn, send_message).
THEOREM EndsAloneForget == Spec => OnlyRunnersEndForgets
<1> DEFINE Only == ~Forgotten /\ Forgotten'
                     => \/ Crash
                        \/ runners["tenant"].pc = "stopping"
                        \/ RequestFails
<1>1. DelegationInv /\ [Next]_vars => [Only]_vars
  <2> SUFFICES ASSUME DelegationInv, [Next]_vars, ~Forgotten, Forgotten',
                      ~Crash, runners["tenant"].pc # "stopping"
               PROVE  RequestFails
    OBVIOUS
  <2> USE DEF turnVars, planVars, leaseVars
  <2>1. TypeOK /\ runners \in [Runner -> RunnerRow] /\ turn \in TurnRow
    BY DEF DelegationInv, TypeOK, TurnRow, RunnerRow
  <2>2. /\ turn'.state = "pending" /\ wakes' = {}
        /\ \A r \in Runner : runners'[r].pc = "none"
    BY DEF Forgotten
  <2>3. "tenant" \in Runner /\ "request" \in Runner
    BY DEF Runner
  <2>4. ASSUME turn'.state = turn.state, wakes' = wakes, runners' = runners
        PROVE  FALSE
    BY <2>4 DEF Forgotten
  <2>5. ASSUME NEW r \in Runner, RunnerStep(r)
        PROVE  RequestFails
    <3>1. ASSUME NEW pc \in {"claim", "stopping", "answer"}, Goes(r, pc)
          PROVE  FALSE
      BY <2>1, <2>2, <3>1, GoesFields
    <3>2. ~Done(r)
      BY <2>2, <3>1 DEF Done
    <3>3. ~(Claim(r) \/ Plan(r) \/ NoPlan(r) \/ AskApproval(r) \/ Answer(r))
      <4>1. CASE runners' = [runners EXCEPT ![r] = [pc |-> "plan", seen |-> turn.kept]]
        <5>1. runners'[r].pc = "plan"
          BY <2>1, <4>1
        <5> QED
          BY <2>2, <5>1
      <4> QED
        BY <3>1, <3>2, <4>1 DEF Claim, Plan, NoPlan, AskApproval, Answer
    <3>4. ~ReadResults(r)
      <4>1. ReadResults(r) => runners'[r].pc = "answer"
        BY <2>1 DEF ReadResults
      <4> QED
        BY <2>2, <4>1
    <3>5. ~Checkpoint(r)
      <4>1. Checkpoint(r) => runners'[r].pc = "answer"
        BY DEF Checkpoint
      <4> QED
        BY <2>2, <4>1
    <3>6. ~Stop
      BY DEF Stop
    <3>7. PlanRefused(r) \/ ModelFails(r) \/ Refused(r)
      BY <2>5, <3>3, <3>4, <3>5, <3>6 DEF RunnerStep
    <3>8. r = "request" /\ UNCHANGED wakes
      BY <3>1, <3>7 DEF PlanRefused, ModelFails, Refused, Ends
    <3> QED
      BY <2>2, <2>3, <3>7, <3>8 DEF PlanRefused, ModelFails, Refused, RequestFails
  <2>6. CASE PostMessage
    <3>1. runners'["request"].pc = "claim"
      BY <2>1, <2>3, <2>6 DEF PostMessage, RunnerRow
    <3> QED
      BY <2>2, <2>3, <3>1
  <2>7. CASE Decide
    BY <2>2, <2>7 DEF Decide
  <2>8. CASE \E w \in wakes : AdvanceTurn(w)
    <3>1. runners'["tenant"].pc # "none"
      BY <2>1, <2>3, <2>8 DEF AdvanceTurn, RunnerRow
    <3> QED
      BY <2>2, <2>3, <3>1
  <2>9. ASSUME NEW t \in Task, TaskStep(t) \/ LeaseLapses(t)
        PROVE  FALSE
    <3>1. ~CommitFinish(t)
      BY <2>2 DEF CommitFinish
    <3>2. UNCHANGED <<turn, wakes, runners>>
      BY <2>9, <3>1 DEF TaskStep, Lease, BeginFinish, LockTurn, LeaseLapses
    <3> QED
      BY <2>4, <3>2
  <2>10. CASE RunLeaseLapses
    <3>1. turn'.state = turn.state /\ UNCHANGED <<wakes, runners>>
      BY <2>1, <2>10 DEF RunLeaseLapses, TurnRow
    <3> QED
      BY <2>4, <3>1
  <2>11. ~Outlive
    BY <2>1, <2>2 DEF Outlive, TurnRow
  <2>12. CASE UNCHANGED vars
    BY <2>4, <2>12 DEF vars
  <2> QED
    BY <2>5, <2>6, <2>7, <2>8, <2>9, <2>10, <2>11, <2>12 DEF Next
<1> QED
  BY <1>1, DelegationInvariant, PTL DEF Spec, OnlyRunnersEndForgets
=============================================================================
