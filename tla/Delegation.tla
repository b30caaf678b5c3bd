----------------------------- MODULE Delegation -----------------------------
(***************************************************************************)
(* A turn that the planner hands to several remote agents at once, from the *)
(* claim of the turn to the answer that draws on all their results.         *)
(*                                                                          *)
(* TurnLifecycle follows the tool calls of a turn and TaskLeasing a task's  *)
(* leases; here both appear only as far as siblings need them.  What is     *)
(* followed closely is how the results of siblings wake the turn:           *)
(*                                                                          *)
(* - finish_task is a transaction of several statements.  It locks the      *)
(*   task, for a completed one reads the approvals (a plain read, which     *)
(*   opens the transaction's snapshot), locks the turn, and then reads the  *)
(*   siblings in its snapshot, or, with none open yet, as they are.         *)
(* - a commit wakes nobody.  The route then calls advance_turn, which       *)
(*   starts a runner for the tenant unless there is one.                    *)
(* - that runner claims turns until it finds none, and ends a little later; *)
(*   the request that posts a message claims and runs one turn itself, and  *)
(*   calls advance_turn when that went well.                                *)
(*                                                                          *)
(* One API process runs; a crash loses its transactions, its runners and    *)
(* its wake-up calls, and it is up again at once.                           *)
(***************************************************************************)
EXTENDS Naturals, FiniteSets

CONSTANTS Task,        \* planner-0, planner-1, ...: the calls of a plan
          First,       \* planner-0, a call of every plan
          MaxLeases,   \* bound: leases of all tasks together
          MaxMishaps   \* bound: crashes and late runners together

ASSUME DelegationAssumption ==
    /\ First \in Task
    /\ MaxLeases \in Nat /\ MaxMishaps \in Nat

VARIABLES turn,      \* the turn's row and the parts of its checkpoint
          approval,  \* of a gated call that the turn makes after its plan
          tasks,     \* state of each planned task
          results,   \* tasks that have a result
          invs,      \* state of each linked invocation
          leases,    \* state of the lease row of each task
          leased,    \* leases so far
          txs,       \* the finish_task of each task that is under way
          wakes,     \* callers that are about to call advance_turn
          runners,   \* the tenant's task in runner_tasks, and a request
          mishaps

planVars == <<tasks, invs>>
leaseVars == <<leases, leased>>
turnVars == <<turn, approval>>
vars == <<turnVars, planVars, results, leaseVars, txs, wakes, runners, mishaps>>

Final == {"completed", "failed", "cancelled"}
Terminal == {"completed", "failed"}   \* DENIED is not used for agents
NoTx == [pc |-> "none", outcome |-> "failed", view |-> {}, wakes |-> FALSE]
Idle == [pc |-> "none", seen |-> {}]
Runner == {"tenant", "request"}

TypeOK ==
    /\ turn \in [state : {"absent", "pending", "running", "paused", "completed"},
                 planned : BOOLEAN,   \* checkpoint has planned_task_ids
                 kept : SUBSET Task,  \* ... and these results in its messages
                 runner : Runner \cup {"none"},   \* who has its run lease
                 lapsed : BOOLEAN]                \* its run lease is over
    /\ approval \in {"none", "pending", "decided"}
    /\ tasks \in [Task -> {"absent", "pending", "leased"} \cup Final]
    /\ results \in SUBSET Task
    /\ invs \in [Task -> {"absent", "pending"} \cup Terminal]
    /\ leases \in [Task -> {"none", "live", "lapsed"}]
    /\ leased \in 0 .. MaxLeases
    /\ txs \in [Task -> [pc : {"none", "begun", "locked"}, outcome : Final,
                         view : SUBSET Task,   \* settled siblings it sees
                         wakes : BOOLEAN]]
    /\ wakes \in SUBSET {"event", "message"}
    /\ runners \in [Runner -> [pc : {"none", "claim", "plan", "answer", "stopping"},
                               seen : SUBSET Task]]   \* results in its context
    /\ mishaps \in 0 .. MaxMishaps

Init ==
    /\ turn = [state |-> "absent", planned |-> FALSE, kept |-> {},
               runner |-> "none", lapsed |-> FALSE]
    /\ approval = "none"
    /\ tasks = [t \in Task |-> "absent"]
    /\ results = {}
    /\ invs = [t \in Task |-> "absent"]
    /\ leases = [t \in Task |-> "none"]
    /\ leased = 0
    /\ txs = [t \in Task |-> NoTx]
    /\ wakes = {}
    /\ runners = [r \in Runner |-> Idle]
    /\ mishaps = 0
-----------------------------------------------------------------------------
(* Conditions.                                                              *)

Planned == {t \in Task : tasks[t] # "absent"}
SettledInvs == {t \in Task : invs[t] \in Terminal}

\* A finish_task holds the lock of the turn's row.
TurnLocked == \E t \in Task : txs[t].pc = "locked"

\* Faulty: only a turn that is pending.
ClaimablePending == turn.state = "pending"

\* The WHERE clause of claim_pending_turn.
ClaimableTurn ==
    \/ turn.state = "pending"
    \/ turn.state = "running" /\ turn.lapsed

\* _active_turn.
ActiveTurn(r) == turn.state = "running" /\ turn.runner = r /\ ~turn.lapsed

\* Faulty: any plan's rows can be inserted.
FreshAlways(plan) == TRUE

\* uq_invocations_turn_call: the turn has no invocation of that name.
Fresh(plan) == \A t \in plan : invs[t] = "absent"

\* The siblings that a transaction sees as settled, its own result included.
\* Faulty: each has opened its snapshot before it locks the turn.
SeenInSnapshot(t) == txs[t].view \cup {t}

Seen(t) ==
    {t} \cup IF txs[t].outcome = "completed" THEN txs[t].view ELSE SettledInvs

\* Faulty: one result is enough.
WakesTurnAtOnce(seen) == seen # {}

WakesTurn(seen) == Planned \subseteq seen

\* Faulty: the invocation takes over the state of the task.
InvocationStateCopied(outcome) == outcome

InvocationState(outcome) == IF outcome = "completed" THEN "completed" ELSE "failed"
-----------------------------------------------------------------------------
(* Requests.                                                                *)

\* send_message: create_turn, or a message that starts another turn of the
\* tenant, which is not followed here.
PostMessage ==
    /\ runners["request"].pc = "none"
    /\ turn' = IF turn.state = "absent" THEN [turn EXCEPT !.state = "pending"] ELSE turn
    /\ runners' = [runners EXCEPT !["request"].pc = "claim"]
    /\ UNCHANGED <<approval, planVars, results, leaseVars, txs, wakes, mishaps>>

\* Faulty: the route leaves the turn to the next wake-up call.
DecideQuietly ==
    /\ approval = "pending" /\ ~TurnLocked
    /\ approval' = "decided"
    /\ turn' = [turn EXCEPT !.state = "pending"]
    /\ UNCHANGED <<planVars, results, leaseVars, txs, wakes, runners, mishaps>>

\* decide_approval, and the route that wakes the turn.
Decide ==
    /\ approval = "pending" /\ ~TurnLocked
    /\ approval' = "decided"
    /\ turn' = [turn EXCEPT !.state = "pending"]
    /\ wakes' = wakes \cup {"event"}
    /\ UNCHANGED <<planVars, results, leaseVars, txs, runners, mishaps>>

\* advance_turn: while the last runner has not ended, no other is started.
AdvanceTurn(w) ==
    /\ w \in wakes
    /\ wakes' = wakes \ {w}
    /\ runners' = IF runners["tenant"].pc = "none"
                  THEN [runners EXCEPT !["tenant"].pc = "claim"] ELSE runners
    /\ UNCHANGED <<turnVars, planVars, results, leaseVars, txs, mishaps>>
-----------------------------------------------------------------------------
(* Runners: run_pending_turns of the tenant, advance_one of a request.      *)

Goes(r, pc) == runners' = [runners EXCEPT ![r].pc = pc] /\ UNCHANGED wakes

\* The turn was paused or answered: the tenant's runner claims the next; a
\* request, which had no turn to claim or is done with it, goes on to call
\* advance_turn.
Done(r) ==
    \/ r = "tenant" /\ Goes(r, "claim")
    \/ /\ r = "request"
       /\ runners' = [runners EXCEPT ![r] = Idle]
       /\ wakes' = wakes \cup {"message"}

\* An error ends the runner, and a request without a call of advance_turn.
Ends(r) ==
    \/ r = "tenant" /\ Goes(r, "stopping")
    \/ /\ r = "request"
       /\ runners' = [runners EXCEPT ![r] = Idle]
       /\ UNCHANGED wakes

\* The run lease is cleared with the pause or the answer.
Release(state) == [turn EXCEPT !.state = state, !.runner = "none"]

\* _checkpoint: it keeps the messages of runner r, and forgets the plan.
Forget(row, r) == [row EXCEPT !.planned = FALSE, !.kept = runners[r].seen]

\* claim_pending_turn skips a row that is locked.
Claim(r) ==
    /\ runners[r].pc = "claim"
    /\ \/ /\ ClaimableTurn /\ ~TurnLocked
          /\ turn' = [turn EXCEPT !.state = "running", !.runner = r, !.lapsed = FALSE]
          /\ runners' = [runners EXCEPT ![r] = [pc |-> "plan", seen |-> turn.kept]]
          /\ UNCHANGED wakes
       \/ /\ ~ClaimableTurn \/ TurnLocked
          /\ IF r = "tenant" THEN Goes(r, "stopping") ELSE Done(r)
          /\ UNCHANGED turn
    /\ UNCHANGED <<approval, planVars, results, leaseVars, txs, mishaps>>

\* _sibling_provenance.
ReadResults(r) ==
    /\ runners[r].pc = "plan" /\ turn.planned
    /\ runners' = [runners EXCEPT ![r] = [pc |-> "answer", seen |-> @.seen \cup results]]
    /\ UNCHANGED <<turnVars, planVars, results, leaseVars, txs, wakes, mishaps>>

\* create_delegated_tasks.  Each task finds an agent of its own that is seen,
\* trusted and free; whether there are enough is left open.
Plan(r) ==
    /\ runners[r].pc = "plan" /\ ~turn.planned
    /\ ActiveTurn(r) /\ ~TurnLocked
    /\ \E plan \in {S \in SUBSET Task : First \in S} :
        /\ Fresh(plan)
        /\ tasks' = [t \in Task |-> IF t \in plan THEN "pending" ELSE tasks[t]]
        /\ invs' = [t \in Task |-> IF t \in plan THEN "pending" ELSE invs[t]]
    /\ turn' = [Release("paused") EXCEPT !.planned = TRUE, !.kept = runners[r].seen]
    /\ Done(r)
    /\ UNCHANGED <<approval, results, leaseVars, txs, mishaps>>

\* ... refused: a task finds no agent that is free, or the turn had a plan
\* before, of which its checkpoint knows no more.  The turn stays as it is, and
\* whoever claims it next may be refused as well.
PlanRefused(r) ==
    /\ runners[r].pc = "plan" /\ ~turn.planned
    /\ ActiveTurn(r) /\ ~TurnLocked
    /\ Ends(r)
    /\ UNCHANGED <<turnVars, planVars, results, leaseVars, txs, mishaps>>

\* The planner has nothing to hand out, fails, or asks for what
\* validate_planner_decision denies.
NoPlan(r) ==
    /\ runners[r].pc = "plan" /\ ~turn.planned
    /\ Goes(r, "answer")
    /\ UNCHANGED <<turnVars, planVars, results, leaseVars, txs, mishaps>>

\* The model asks for a tool.
Checkpoint(r) ==
    /\ runners[r].pc = "answer"
    /\ ActiveTurn(r) /\ ~TurnLocked
    /\ turn' = Forget(turn, r)
    /\ UNCHANGED <<approval, planVars, results, leaseVars, txs, wakes, runners, mishaps>>

\* ... which needs an approval.
AskApproval(r) ==
    /\ runners[r].pc = "answer" /\ approval = "none"
    /\ ActiveTurn(r) /\ ~TurnLocked
    /\ approval' = "pending"
    /\ turn' = Forget(Release("paused"), r)
    /\ Done(r)
    /\ UNCHANGED <<planVars, results, leaseVars, txs, mishaps>>

\* complete_turn.
Answer(r) ==
    /\ runners[r].pc = "answer"
    /\ ActiveTurn(r) /\ ~TurnLocked
    /\ turn' = Release("completed")
    /\ Done(r)
    /\ UNCHANGED <<approval, planVars, results, leaseVars, txs, mishaps>>

\* The model fails: the error ends the runner, and the turn stays as it is.
ModelFails(r) ==
    /\ runners[r].pc = "answer"
    /\ Ends(r)
    /\ UNCHANGED <<turnVars, planVars, results, leaseVars, txs, mishaps>>

\* The turn is not the runner's any more.
Refused(r) ==
    /\ runners[r].pc \in {"plan", "answer"}
    /\ ~ActiveTurn(r) /\ ~TurnLocked
    /\ Ends(r)
    /\ UNCHANGED <<turnVars, planVars, results, leaseVars, txs, mishaps>>

\* The task leaves runner_tasks.
Stop ==
    /\ runners["tenant"].pc = "stopping"
    /\ runners' = [runners EXCEPT !["tenant"] = Idle]
    /\ UNCHANGED <<turnVars, planVars, results, leaseVars, txs, wakes, mishaps>>

RunnerStep(r) ==
    Claim(r) \/ ReadResults(r) \/ Plan(r) \/ PlanRefused(r) \/ NoPlan(r)
    \/ Checkpoint(r) \/ AskApproval(r) \/ Answer(r) \/ ModelFails(r)
    \/ Refused(r) \/ (r = "tenant" /\ Stop)
-----------------------------------------------------------------------------
(* Agents.                                                                  *)

\* lease_task by the target, of a task that waits or whose lease is over,
\* a finished one as well.
Lease(t) ==
    /\ tasks[t] # "absent"
    /\ tasks[t] = "pending" \/ leases[t] = "lapsed"
    /\ txs[t].pc = "none"
    /\ leased < MaxLeases
    /\ leased' = leased + 1
    /\ tasks' = [tasks EXCEPT ![t] = "leased"]
    /\ leases' = [leases EXCEPT ![t] = "live"]
    /\ UNCHANGED <<turnVars, invs, results, txs, wakes, runners, mishaps>>

\* finish_task: the lease is good, and the task locked.  A completed one
\* reads the approvals, and with them opens its snapshot.
BeginFinish(t) ==
    /\ tasks[t] = "leased" /\ leases[t] = "live"
    /\ txs[t].pc = "none"
    /\ \E outcome \in Final :
          txs' = [txs EXCEPT ![t] = [NoTx EXCEPT
                     !.pc = "begun", !.outcome = outcome,
                     !.view = IF outcome = "completed" THEN SettledInvs ELSE {}]]
    /\ UNCHANGED <<turnVars, planVars, results, leaseVars, wakes, runners, mishaps>>

\* ... the turn is locked, and the siblings read.
LockTurn(t) ==
    /\ txs[t].pc = "begun" /\ ~TurnLocked
    /\ txs' = [txs EXCEPT ![t].pc = "locked", ![t].wakes = WakesTurn(Seen(t))]
    /\ UNCHANGED <<turnVars, planVars, results, leaseVars, wakes, runners, mishaps>>

\* ... commit.  The turn is pending again, whatever it was.
CommitFinish(t) ==
    /\ txs[t].pc = "locked"
    /\ tasks' = [tasks EXCEPT ![t] = txs[t].outcome]
    /\ results' = results \cup {t}
    /\ invs' = [invs EXCEPT ![t] = InvocationState(txs[t].outcome)]
    /\ turn' = IF txs[t].wakes THEN [turn EXCEPT !.state = "pending"] ELSE turn
    /\ wakes' = wakes \cup {"event"}
    /\ txs' = [txs EXCEPT ![t] = NoTx]
    /\ UNCHANGED <<approval, leaseVars, runners, mishaps>>
-----------------------------------------------------------------------------
(* Time and crashes.                                                        *)

LeaseLapses(t) ==
    /\ leases[t] = "live"
    /\ leases' = [leases EXCEPT ![t] = "lapsed"]
    /\ UNCHANGED <<turnVars, planVars, results, leased, txs, wakes, runners, mishaps>>

\* The holder of the run lease is at work.
Held == turn.runner \in Runner /\ runners[turn.runner].pc \in {"plan", "answer"}

\* The run lease of a runner that is gone is over, sooner or later.
RunLeaseLapses ==
    /\ turn.state = "running" /\ ~turn.lapsed
    /\ ~Held
    /\ turn' = [turn EXCEPT !.lapsed = TRUE]
    /\ UNCHANGED <<approval, planVars, results, leaseVars, txs, wakes, runners,
                   mishaps>>

\* A runner takes longer than its run lease.
Outlive ==
    /\ turn.state = "running" /\ ~turn.lapsed
    /\ Held
    /\ mishaps < MaxMishaps
    /\ mishaps' = mishaps + 1
    /\ turn' = [turn EXCEPT !.lapsed = TRUE]
    /\ UNCHANGED <<approval, planVars, results, leaseVars, txs, wakes, runners>>

Crash ==
    /\ mishaps < MaxMishaps
    /\ mishaps' = mishaps + 1
    /\ txs' = [t \in Task |-> NoTx]
    /\ wakes' = {}
    /\ runners' = [r \in Runner |-> Idle]
    /\ UNCHANGED <<turnVars, planVars, results, leaseVars>>

TaskStep(t) == Lease(t) \/ BeginFinish(t) \/ LockTurn(t) \/ CommitFinish(t)

Next ==
    \/ PostMessage \/ Decide
    \/ \E w \in wakes : AdvanceTurn(w)
    \/ \E r \in Runner : RunnerStep(r)
    \/ \E t \in Task : TaskStep(t) \/ LeaseLapses(t)
    \/ RunLeaseLapses \/ Outlive \/ Crash

\* The process runs on: its calls, its transactions, its runners; time passes.
\* Nothing is assumed of agents, operators and users.
Fairness ==
    /\ \A r \in Runner : WF_vars(RunnerStep(r))
    /\ WF_vars(\E w \in wakes : AdvanceTurn(w))
    /\ \A t \in Task : WF_vars(LockTurn(t) \/ CommitFinish(t))
    /\ WF_vars(RunLeaseLapses)

Spec == Init /\ [][Next]_vars /\ Fairness
-----------------------------------------------------------------------------
(* "Answers include each sibling's task and ARA provenance, including       *)
(* transparent partial failures" (README.md): a turn that goes on after its *)
(* plan goes on with the result of every sibling, whichever came last,      *)
(* failed, was cancelled or was leased again meanwhile.                     *)
SynthesisSeesAllResults ==
    \A r \in Runner :
        runners[r].pc = "answer" /\ ActiveTurn(r)
            => Planned \subseteq runners[r].seen

(* A turn is handed out once.  After a tool call its checkpoint has         *)
(* forgotten the plan, and the planner is asked again; only the unique      *)
(* constraint on its calls keeps it from handing out the turn again.        *)
DelegatedOnce ==
    [][Planned # {}
          => \A t \in Task : tasks[t] = "absent" => tasks'[t] = "absent"]_vars

\* All results are in, and the turn was not told.
Stranded ==
    /\ turn.state = "paused" /\ turn.planned
    /\ Planned \subseteq SettledInvs

(* A turn misses its last result in one way only: two siblings complete at  *)
(* the same time, and the later commit has not seen the earlier one.  A     *)
(* failed or cancelled result, or a crash, never leaves it behind so.       *)
OnlyOverlapStrands ==
    [][~Stranded /\ Stranded'
          => \E t, u \in Planned :
                /\ txs[t].pc = "locked" /\ txs[t].outcome = "completed"
                /\ u \in SettledInvs \ Seen(t)]_vars

\* A turn waits for a runner, and none is there or on its way.
Forgotten ==
    /\ turn.state = "pending" /\ wakes = {}
    /\ \A r \in Runner : runners[r].pc = "none"

\* A request ends with an error, and without its call of advance_turn.
RequestFails ==
    /\ runners["request"].pc # "none" /\ runners'["request"].pc = "none"
    /\ wakes' = wakes

(* A pending turn is forgotten in three ways only: the process crashes; the *)
(* call that should start its runner finds the old one, which has looked    *)
(* for turns already, and which ends (advance_turn); or it became pending   *)
(* in the hands of a request, which fails for that (send_message).          *)
OnlyRunnersEndForgets ==
    [][~Forgotten /\ Forgotten'
          => \/ Crash
             \/ runners["tenant"].pc = "stopping"
             \/ RequestFails]_vars

\* In the end plans are not refused any more, and the model does not fail.  (A
\* plan is refused as long as no agent is free, and for good when a checkpoint
\* has forgotten the plan and the planner asks for the same calls again.)
AttemptsGetThrough ==
    <>[][\A r \in Runner : ~PlanRefused(r) /\ ~ModelFails(r)]_vars

(* As long as messages keep coming, a turn that was forgotten, or that a    *)
(* crash, a refused plan, an error of the model or a late runner left       *)
(* running, is taken up again; and if the attempts are not refused and do   *)
(* not fail for ever, it comes to a pause or an answer (run_pending_turns,  *)
(* advance_one, claim_pending_turn).                                        *)
NudgedTurnGoesOn ==
    []<>(runners["request"].pc = "claim") /\ AttemptsGetThrough
        => (turn.state \in {"pending", "running"} ~> turn.state \in {"paused", "completed"})
=============================================================================
