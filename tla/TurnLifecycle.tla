---------------------------- MODULE TurnLifecycle ----------------------------
(***************************************************************************)
(* One conversation turn of Astra Agent: the tool loop of the orchestrator  *)
(* (apps/astra-agent-api/src/astra_agent/conversations.py) on top of the    *)
(* turn, tool invocation and approval rows of the MariaDB store             *)
(* (packages/runtime/src/astra_runtime/sql.py).                             *)
(*                                                                          *)
(* A runner is one execution of run_turn or stream_turn.  It claims the     *)
(* turn under a run lease, asks the model for tool calls, works through     *)
(* them and writes the answer.  It may stop anywhere, its run lease may     *)
(* lapse while it goes on working, and another runner may then claim the    *)
(* turn: several runners can be at work, each with its own view of the      *)
(* pending calls.  Operators decide approvals and remote agents finish      *)
(* delegated tasks in between.                                              *)
(*                                                                          *)
(* One action is one store transaction or one tool execution; what a runner *)
(* does between two of them is folded into the earlier one.  A store call   *)
(* that is refused raises in the runner, which ends it: Stop.  Turns share  *)
(* no rows, so one turn stands for all.                                     *)
(***************************************************************************)
EXTENDS Naturals, Sequences

CONSTANTS Runner,        \* slots for executions; an idle slot may be reused
          StreamRunner,  \* those that execute stream_turn
          LocalCall,     \* tool calls that policy allows outright
          GatedCall,     \* tool calls that need an operator's approval
          AraCall,       \* delegate_ara
          HostCall,      \* delegate_host_command
          Task,          \* bound: tasks that can be created
          None           \* no runner, no task, no call

Call == LocalCall \cup GatedCall \cup AraCall \cup HostCall
Delegated == AraCall \cup HostCall

ASSUME TurnAssumption ==
    /\ StreamRunner \subseteq Runner
    /\ None \notin Runner /\ None \notin Call /\ None \notin Task
    /\ (LocalCall \cup GatedCall) \cap Delegated = {}
    /\ LocalCall \cap GatedCall = {}
    /\ AraCall \cap HostCall = {}

VARIABLES turn,         \* the row of conversation_turns
          invocations,  \* the tool_invocations row of each call
          approvals,    \* the latest approvals row bound to each call's invocation
          tasks,        \* rows of tasks the turn created
          runners,      \* program counter and local variables of each runner
          asked,        \* call ids the model has returned (each is new)
          executed      \* calls whose tool has been executed

vars == <<turn, invocations, approvals, tasks, runners, asked, executed>>

Settled == {"completed", "failed", "denied"}
Finished == {"completed", "failed"}

\* A model response: one or two calls, worked through in order.
Batch == {<<c>> : c \in Call} \cup {<<c, d>> : c, d \in Call}
FreshBatch == {b \in Batch : /\ \A i \in DOMAIN b : b[i] \notin asked
                             /\ \A i, j \in DOMAIN b : i # j => b[i] # b[j]}
CallsOf(b) == {b[i] : i \in DOMAIN b}

TurnRow == [state : {"absent", "pending", "running", "paused", "completed"},
            run_lease_id : Runner \cup {None},
            lapsed : BOOLEAN,
            pending_calls : Seq(Call)]
InvocationRow == [state : {"absent", "pending", "awaiting_approval"} \cup Settled,
                  target : {"local", "ara"},
                  task : Task \cup {None}]
TaskRow == [state : {"absent", "open"} \cup Finished, call : Call \cup {None}]
RunnerState == [pc : {"idle", "loop", "approve", "dispatch", "complete", "fail",
                      "link", "pause", "checkpoint"},
                calls : Seq(Call),
                known : SUBSET Delegated,
                task : Task \cup {None}]

TypeOK ==
    /\ turn \in TurnRow
    /\ invocations \in [Call -> InvocationRow]
    /\ approvals \in [Call -> {"absent", "pending", "granted", "denied"}]
    /\ tasks \in [Task -> TaskRow]
    /\ runners \in [Runner -> RunnerState]
    /\ asked \subseteq Call
    /\ executed \subseteq Call

Idle == [pc |-> "idle", calls |-> <<>>, known |-> {}, task |-> None]

Init ==
    /\ turn = [state |-> "absent", run_lease_id |-> None, lapsed |-> FALSE,
               pending_calls |-> <<>>]
    /\ invocations = [c \in Call |->
          [state |-> "absent", target |-> "local", task |-> None]]
    /\ approvals = [c \in Call |-> "absent"]
    /\ tasks = [k \in Task |-> [state |-> "absent", call |-> None]]
    /\ runners = [r \in Runner |-> Idle]
    /\ asked = {}
    /\ executed = {}
-----------------------------------------------------------------------------
(* Views and updates.                                                       *)

\* Faulty: the run lease is not compared.
ActiveAnyRunner(r) ==
    /\ turn.state = "running"
    /\ ~turn.lapsed

\* _active_turn: the turn is running under this very run lease, unexpired.
Active(r) ==
    /\ turn.state = "running"
    /\ turn.run_lease_id = r
    /\ ~turn.lapsed

At(r, pc) == runners[r].pc = pc
Working(r) == runners[r].calls # <<>>
Current(r) == Head(runners[r].calls)
Known(c) == invocations[c].state # "absent"

\* delegate_ara is known to a runner that found a trusted remote agent when it
\* started, delegate_host_command to every runner (_has_available_host_ara).
Offers == {HostCall, HostCall \cup AraCall}

\* _execute_call treats a call to a delegation tool that the runner does not
\* know like a local one.
AtDelegation(r) ==
    At(r, "loop") /\ Working(r) /\ Current(r) \in runners[r].known
AtLocalCall(r) ==
    At(r, "loop") /\ Working(r) /\ Current(r) \notin runners[r].known

\* Runner r goes on at pc.
Goto(r, pc) == runners' = [runners EXCEPT ![r].pc = pc]

\* Runner r is back at the head of its loop.
Loop(r, calls, known) ==
    runners' = [runners EXCEPT ![r] =
        [pc |-> "loop", calls |-> calls, known |-> known, task |-> None]]

\* create_tool_invocation: one row per call.
Create(c, target, task) ==
    invocations' = [invocations EXCEPT ![c] =
        [state |-> "pending", target |-> target, task |-> task]]

\* The invocation of call c moves to a state.
Mark(c, state) == invocations' = [invocations EXCEPT ![c].state = state]

\* The turn leaves its runner's hands.
Release(state) ==
    turn' = [state |-> state, run_lease_id |-> None, lapsed |-> FALSE,
             pending_calls |-> turn.pending_calls]
-----------------------------------------------------------------------------
(* Claiming and answering.                                                  *)

\* start_turn; a repeated client_request_id returns the existing turn.
CreateTurn ==
    /\ turn.state = "absent"
    /\ turn' = [turn EXCEPT !.state = "pending"]
    /\ UNCHANGED <<invocations, approvals, tasks, runners, asked, executed>>

Claim(r, calls) ==
    /\ turn' = [state |-> "running", run_lease_id |-> r, lapsed |-> FALSE,
                pending_calls |-> turn.pending_calls]
    /\ \E known \in Offers : Loop(r, calls, known)
    /\ UNCHANGED <<invocations, approvals, tasks, asked, executed>>

\* Faulty: the runner starts over without the pending calls.
ClaimPendingTurnAfresh(r) ==
    /\ r \notin StreamRunner
    /\ At(r, "idle")
    /\ \/ turn.state = "pending"
       \/ turn.state = "running" /\ turn.lapsed
    /\ Claim(r, <<>>)

\* advance_one: a pending turn, or a running one whose run lease has expired;
\* the runner takes the pending calls from the checkpoint of the row it claims.
ClaimPendingTurn(r) ==
    /\ r \notin StreamRunner
    /\ At(r, "idle")
    /\ \/ turn.state = "pending"
       \/ turn.state = "running" /\ turn.lapsed
    /\ Claim(r, turn.pending_calls)

\* The streaming route claims its own turn, if pending, and drops the pending
\* calls of the checkpoint.
ClaimTurn(r) ==
    /\ r \in StreamRunner
    /\ At(r, "idle")
    /\ turn.state = "pending"
    /\ Claim(r, <<>>)

\* The model answers, or the iteration limit is reached.
CompleteTurn(r) ==
    /\ At(r, "loop") /\ ~Working(r)
    /\ Active(r)
    /\ Release("completed")
    /\ runners' = [runners EXCEPT ![r] = Idle]
    /\ UNCHANGED <<invocations, approvals, tasks, asked, executed>>
-----------------------------------------------------------------------------
(* The tool loop.                                                           *)

\* The model asks for tool calls; run_turn checkpoints them, stream_turn does
\* not and so never meets its run lease here.
ModelCalls(r, calls) ==
    /\ At(r, "loop") /\ ~Working(r)
    /\ Loop(r, calls, runners[r].known)
    /\ asked' = asked \cup CallsOf(calls)
    /\ \/ r \in StreamRunner /\ UNCHANGED turn
       \/ /\ r \notin StreamRunner
          /\ Active(r)
          /\ turn' = [turn EXCEPT !.pending_calls = calls]
    /\ UNCHANGED <<invocations, approvals, tasks, executed>>

\* A local call that has no invocation yet: a gated one is not executed but
\* goes on to ask for approval, an unknown one fails.
CreateToolInvocation(r) ==
    /\ AtLocalCall(r)
    /\ ~Known(Current(r))
    /\ Create(Current(r), "local", None)
    /\ \/ Current(r) \in LocalCall /\ Goto(r, "dispatch")
       \/ Current(r) \in GatedCall /\ Goto(r, "approve")
       \/ Current(r) \in Delegated /\ Goto(r, "fail")
    /\ UNCHANGED <<turn, approvals, tasks, asked, executed>>

\* A local call whose invocation exists: a denied one is passed over, an
\* unknown one fails, any other is dispatched as if it were approved.
ReuseToolInvocation(r) ==
    /\ AtLocalCall(r)
    /\ Known(Current(r))
    /\ \/ invocations[Current(r)].state = "denied" /\ Goto(r, "checkpoint")
       \/ /\ invocations[Current(r)].state # "denied"
          /\ Goto(r, IF Current(r) \in Delegated THEN "fail" ELSE "dispatch")
    /\ UNCHANGED <<turn, invocations, approvals, tasks, asked, executed>>

\* The tool runs, with or without success.
Dispatch(r) ==
    /\ At(r, "dispatch")
    /\ executed' = executed \cup {Current(r)}
    /\ Goto(r, "complete") \/ Goto(r, "fail")
    /\ UNCHANGED <<turn, invocations, approvals, tasks, asked>>

\* complete_tool_invocation and fail_tool_invocation: a finished invocation
\* accepts its own state again and refuses another.
FinishToolInvocation(r, pc, state) ==
    /\ At(r, pc)
    /\ invocations[Current(r)].state \in Settled =>
          invocations[Current(r)].state = state
    /\ Mark(Current(r), state)
    /\ Goto(r, IF runners[r].task # None THEN "link" ELSE "checkpoint")
    /\ UNCHANGED <<turn, approvals, tasks, asked, executed>>

\* Faulty: a refused checkpoint is ignored.
CheckpointBestEffort(r) ==
    /\ At(r, "checkpoint")
    /\ Loop(r, Tail(runners[r].calls), runners[r].known)
    /\ turn' = IF Active(r)
               THEN [turn EXCEPT !.pending_calls = Tail(runners[r].calls)]
               ELSE turn
    /\ UNCHANGED <<invocations, approvals, tasks, asked, executed>>

\* Faulty: the checkpoint is written without looking at the run lease.
CheckpointUnfenced(r) ==
    /\ At(r, "checkpoint")
    /\ Loop(r, Tail(runners[r].calls), runners[r].known)
    /\ turn' = [turn EXCEPT !.pending_calls = Tail(runners[r].calls)]
    /\ UNCHANGED <<invocations, approvals, tasks, asked, executed>>

\* The call is done; run_turn checkpoints the remaining calls.
Checkpoint(r) ==
    /\ At(r, "checkpoint")
    /\ Loop(r, Tail(runners[r].calls), runners[r].known)
    /\ \/ r \in StreamRunner /\ UNCHANGED turn
       \/ /\ r \notin StreamRunner
          /\ Active(r)
          /\ turn' = [turn EXCEPT !.pending_calls = Tail(runners[r].calls)]
    /\ UNCHANGED <<invocations, approvals, tasks, asked, executed>>
-----------------------------------------------------------------------------
(* Approvals.                                                               *)

\* Faulty: the state of the invocation is not looked at.
CreateApprovalUnchecked(r) ==
    /\ At(r, "approve")
    /\ Mark(Current(r), "awaiting_approval")
    /\ approvals' = [approvals EXCEPT ![Current(r)] = "pending"]
    /\ Release("paused")
    /\ runners' = [runners EXCEPT ![r] = Idle]
    /\ UNCHANGED <<tasks, asked, executed>>

\* create_coordinator_approval looks at the invocation, not at the run lease:
\* the turn is paused whoever runs it.  A host command pauses it once more.
CreateCoordinatorApproval(r) ==
    /\ At(r, "approve")
    /\ invocations[Current(r)].state = "pending"
    /\ Mark(Current(r), "awaiting_approval")
    /\ approvals' = [approvals EXCEPT ![Current(r)] = "pending"]
    /\ Release("paused")
    /\ runners' = [runners EXCEPT ![r] =
          IF Current(r) \in HostCall THEN [@ EXCEPT !.pc = "pause"] ELSE Idle]
    /\ UNCHANGED <<tasks, asked, executed>>

\* Faulty: only a granted approval wakes the turn.
DecideApprovalSilently(c, state) ==
    /\ approvals[c] = "pending"
    /\ approvals' = [approvals EXCEPT ![c] = state]
    /\ Mark(c, IF state = "granted" THEN "pending" ELSE "denied")
    /\ turn' = IF state = "granted" THEN [turn EXCEPT !.state = "pending"] ELSE turn
    /\ UNCHANGED <<tasks, runners, asked, executed>>

\* decide_approval: the turn becomes pending, whatever it was.
DecideApproval(c, state) ==
    /\ approvals[c] = "pending"
    /\ approvals' = [approvals EXCEPT ![c] = state]
    /\ Mark(c, IF state = "granted" THEN "pending" ELSE "denied")
    /\ turn' = [turn EXCEPT !.state = "pending"]
    /\ UNCHANGED <<tasks, runners, asked, executed>>
-----------------------------------------------------------------------------
(* Delegation to remote agents.                                             *)

Linked(c) == invocations[c].task # None

\* The arguments are invalid, or no remote agent can take the call any more, or
\* an operator denied the host command, or it has failed.
SkipDelegation(r) ==
    /\ AtDelegation(r)
    /\ \/ ~Known(Current(r))
       \/ /\ Current(r) \in HostCall
          /\ invocations[Current(r)].state \in {"denied", "failed"}
    /\ Goto(r, "checkpoint")
    /\ UNCHANGED <<turn, invocations, approvals, tasks, asked, executed>>

\* The linked task has a result: it becomes the call's result.
TakeResult(r) ==
    /\ AtDelegation(r)
    /\ Linked(Current(r))
    /\ tasks[invocations[Current(r)].task].state \in Finished
    /\ Goto(r, "checkpoint")
    /\ UNCHANGED <<turn, invocations, approvals, tasks, asked, executed>>

\* The linked task or the approval is still open: wait for it.
WaitForResult(r) ==
    /\ AtDelegation(r)
    /\ \/ /\ Linked(Current(r))
          /\ tasks[invocations[Current(r)].task].state = "open"
       \/ /\ ~Linked(Current(r))
          /\ invocations[Current(r)].state = "awaiting_approval"
    /\ Goto(r, "pause")
    /\ UNCHANGED <<turn, invocations, approvals, tasks, asked, executed>>

\* Faulty: an existing invocation is not looked up.
CreateHostInvocationAgain(r) ==
    /\ AtDelegation(r)
    /\ Current(r) \in HostCall
    /\ Create(Current(r), "ara", None)
    /\ Goto(r, "approve")
    /\ UNCHANGED <<turn, approvals, tasks, asked, executed>>

\* A new host command asks for approval before there is a task.
CreateHostInvocation(r) ==
    /\ AtDelegation(r)
    /\ Current(r) \in HostCall
    /\ ~Known(Current(r))
    /\ Create(Current(r), "ara", None)
    /\ Goto(r, "approve")
    /\ UNCHANGED <<turn, approvals, tasks, asked, executed>>

\* delegate_ara creates its task at once; delegate_host_command when it finds
\* an invocation without a task that is pending (approved, it assumes) or
\* completed, which it then completes.
AddTask(r, k) ==
    /\ AtDelegation(r)
    /\ \/ Current(r) \in AraCall /\ ~Known(Current(r))
       \/ /\ Current(r) \in HostCall
          /\ ~Linked(Current(r))
          /\ invocations[Current(r)].state \in {"pending", "completed"}
    /\ tasks[k].state = "absent"
    /\ tasks' = [tasks EXCEPT ![k] = [state |-> "open", call |-> Current(r)]]
    /\ runners' = [runners EXCEPT ![r] =
          [pc |-> IF Current(r) \in HostCall THEN "complete" ELSE "link",
           calls |-> runners[r].calls, known |-> runners[r].known, task |-> k]]
    /\ UNCHANGED <<turn, invocations, approvals, asked, executed>>

\* Faulty: the tool call's id is written where the task's belongs.
LinkTaskByCall(r) ==
    /\ At(r, "link")
    /\ IF Known(Current(r)) THEN UNCHANGED invocations
                            ELSE Create(Current(r), "ara", Current(r))
    /\ Goto(r, "pause")
    /\ UNCHANGED <<turn, approvals, tasks, asked, executed>>

\* create_tool_invocation with the new task's id: where the call already has
\* an invocation, that one is returned and the task stays unlinked.
LinkTask(r) ==
    /\ At(r, "link")
    /\ IF Known(Current(r)) THEN UNCHANGED invocations
                            ELSE Create(Current(r), "ara", runners[r].task)
    /\ Goto(r, "pause")
    /\ UNCHANGED <<turn, approvals, tasks, asked, executed>>

PauseTurn(r) ==
    /\ At(r, "pause")
    /\ Active(r)
    /\ Release("paused")
    /\ runners' = [runners EXCEPT ![r] = Idle]
    /\ UNCHANGED <<invocations, approvals, tasks, asked, executed>>

\* finish_task: the invocation linked to the task is finished with it, and the
\* turn becomes pending once all its delegated invocations are settled.  A
\* cancelled task counts as a failed one.
FinishTask(k, state) ==
    /\ tasks[k].state = "open"
    /\ tasks' = [tasks EXCEPT ![k].state = state]
    /\ invocations' = [c \in Call |->
          IF invocations[c].task = k
          THEN [invocations[c] EXCEPT !.state = state] ELSE invocations[c]]
    /\ turn' = IF /\ \E c \in Call : invocations[c].task = k
                  /\ \A c \in Call : Known(c) /\ invocations[c].target = "ara"
                                    => invocations'[c].state \in Settled
               THEN [turn EXCEPT !.state = "pending"] ELSE turn
    /\ UNCHANGED <<approvals, runners, asked, executed>>

\* lease_task hands out a finished task again when its lease row has expired
\* (TaskLeasing: TerminalIsFinal).
LeaseAgain(k) ==
    /\ tasks[k].state \in Finished
    /\ tasks' = [tasks EXCEPT ![k].state = "open"]
    /\ UNCHANGED <<turn, invocations, approvals, runners, asked, executed>>
-----------------------------------------------------------------------------
(* Failures.                                                                *)

\* A runner ends: the process dies, the model fails, a store call is refused.
Stop(r) ==
    /\ ~At(r, "idle")
    /\ runners' = [runners EXCEPT ![r] = Idle]
    /\ UNCHANGED <<turn, invocations, approvals, tasks, asked, executed>>

\* The run lease expires; nothing renews it, whether its runner works or not.
RunLeaseLapses ==
    /\ turn.state = "running"
    /\ ~turn.lapsed
    /\ turn' = [turn EXCEPT !.lapsed = TRUE]
    /\ UNCHANGED <<invocations, approvals, tasks, runners, asked, executed>>

Next ==
    \/ CreateTurn
    \/ RunLeaseLapses
    \/ \E r \in Runner :
          \/ ClaimPendingTurn(r) \/ ClaimTurn(r)
          \/ CompleteTurn(r)
          \/ \E b \in FreshBatch : ModelCalls(r, b)
          \/ CreateToolInvocation(r) \/ ReuseToolInvocation(r) \/ Dispatch(r)
          \/ FinishToolInvocation(r, "complete", "completed")
          \/ FinishToolInvocation(r, "fail", "failed")
          \/ Checkpoint(r)
          \/ CreateCoordinatorApproval(r)
          \/ SkipDelegation(r) \/ TakeResult(r) \/ WaitForResult(r)
          \/ CreateHostInvocation(r)
          \/ \E k \in Task : AddTask(r, k)
          \/ LinkTask(r) \/ PauseTurn(r)
          \/ Stop(r)
    \/ \E c \in Call, state \in {"granted", "denied"} : DecideApproval(c, state)
    \/ \E k \in Task, state \in Finished : FinishTask(k, state)
    \/ \E k \in Task : LeaseAgain(k)

Spec == Init /\ [][Next]_vars
-----------------------------------------------------------------------------
(* Properties.                                                              *)

\* A user message is answered once, whatever crashes, lapses, late approvals
\* and late writes of superseded runners happen: an answered turn never runs,
\* pauses or answers again.  (For turns that stay local: a finished task that
\* is leased again reopens an answered turn.)
AnswerIsFinal == [][turn.state = "completed" => UNCHANGED turn]_vars

\* When the answer is written nothing of the turn is left open: every call the
\* model asked for has been settled and no approval waits for an operator, so
\* no late decision can reach the turn.
AnsweredTurnIsSettled ==
    turn.state = "completed" => \A c \in asked :
        /\ invocations[c].state \in Settled
        /\ approvals[c] # "pending"

\* Somebody will return the turn to pending: an approval that an operator can
\* decide, or an open task whose result finds an invocation linked to it.
HasWaker == \E c \in Call :
    \/ approvals[c] = "pending"
    \/ Linked(c) /\ tasks[invocations[c].task].state = "open"

\* A paused turn waits for somebody who will wake it.  (The code disagrees when
\* a task is finished before delegate_ara has linked it.)
PausedHasWaker == turn.state = "paused" => HasWaker

\* A turn that waits for a granted host command is woken by its result: the
\* command's task is linked to the invocation.  (The code disagrees: the link
\* is swallowed by the deduplication of invocations.)
GrantedCommandReturns ==
    \A c \in HostCall :
        turn.state = "paused" /\ approvals[c] = "granted" => HasWaker

\* No runner, and above all no superseded one, starts a call before the
\* checkpoint has moved past the calls in front of it.
NoCallRunsAhead ==
    \A i \in DOMAIN turn.pending_calls :
        i > 1 => ~Known(turn.pending_calls[i])

\* The checkpoint moves forward only: its first call is settled, or it is empty
\* and takes a new batch.  A superseded runner never sets it back.
CheckpointMovesForward ==
    [][LET old == turn.pending_calls
           new == turn'.pending_calls
       IN  \/ new = old
           \/ old # <<>> /\ new = Tail(old)
           \/ old = <<>> /\ CallsOf(new) \cap asked = {}]_vars

\* docs/coordinator-tool-execution.md and the README: a gated call runs only
\* after an operator has granted it.  (The code disagrees: a pre-existing
\* invocation counts as granted.)
ImpactNeedsGrant ==
    /\ \A c \in executed \cap GatedCall : approvals[c] = "granted"
    /\ \A k \in Task : tasks[k].call \in HostCall =>
          approvals[tasks[k].call] = "granted"

\* What an operator decided stands: no runner, however late, asks about the
\* call again or overwrites the decision, and a denied call stays denied.
DecisionIsFinal ==
    [][\A c \in Call : approvals[c] \in {"granted", "denied"} =>
          /\ approvals'[c] = approvals[c]
          /\ approvals[c] = "denied" => invocations'[c].state = "denied"]_vars

\* Turns that stay local implement ToolLoop: each call is settled once and in
\* order, whichever runner does it, and the turn is answered after the last.
Phase == CASE turn.state = "absent" -> "absent"
           [] turn.state = "completed" -> "answered"
           [] OTHER -> "open"
Loops == INSTANCE ToolLoop WITH phase <- Phase, outstanding <- turn.pending_calls
ImplementsToolLoop == Loops!Spec
=============================================================================
