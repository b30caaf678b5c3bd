------------------------ MODULE TurnLifecycleProofs ------------------------
(***************************************************************************)
(* Proofs about TurnLifecycle, for any number of runners, calls and tasks.  *)
(*                                                                          *)
(* Typed, Grounded, Fenced and Ordered hold of every turn.  Local holds of  *)
(* turns that are neither streamed nor delegated (LocalTurn); it is what    *)
(* makes late approvals harmless, and it fails as soon as one call is       *)
(* delegated.                                                               *)
(***************************************************************************)
EXTENDS TurnLifecycle, TLAPS

\* The calls of a sequence behind its first.
Behind(s) == {s[i] : i \in 2..Len(s)}

\* A runner that is past the head of its loop works on a call.
AtWork == \A r \in Runner : runners[r].pc \notin {"idle", "loop"} => Working(r)

\* The runner that holds the run lease knows the checkpoint.
Fenced == \A r \in Runner \ StreamRunner :
    Active(r) /\ ~At(r, "idle") => runners[r].calls = turn.pending_calls

\* Calls are asked before they are checkpointed, worked on or invoked, they are
\* asked once, and no runner works on a call behind the first of the checkpoint.
PendingAreAsked == CallsOf(turn.pending_calls) \subseteq asked
PendingAreDistinct ==
    \A i, j \in DOMAIN turn.pending_calls :
        i # j => turn.pending_calls[i] # turn.pending_calls[j]
KnownAreAsked == \A c \in Call : Known(c) => c \in asked
WorkIsAsked == \A r \in Runner : CallsOf(runners[r].calls) \subseteq asked
StreamsApart == \A r \in StreamRunner :
    CallsOf(runners[r].calls) \cap CallsOf(turn.pending_calls) = {}
NobodyAhead == \A r \in Runner :
    Working(r) => Current(r) \notin Behind(turn.pending_calls)
Ordered == /\ PendingAreAsked /\ PendingAreDistinct /\ KnownAreAsked
           /\ WorkIsAsked /\ StreamsApart /\ NobodyAhead /\ NoCallRunsAhead

\* The turn is run to its end by run_turn and its calls are local.
LocalTurn == StreamRunner = {} /\ Delegated = {}

NothingDelegated ==
    /\ \A c \in Call : ~Linked(c)
    /\ \A r \in Runner : runners[r].pc \notin {"link", "pause"} /\ runners[r].task = None
ApprovalPausesTurn == \A c \in Call : approvals[c] = "pending" =>
    /\ turn.state = "paused"
    /\ turn.pending_calls # <<>>
    /\ c = Head(turn.pending_calls)
PauseHasApproval == turn.state = "paused" => \E c \in Call : approvals[c] = "pending"
DoneAreSettled == \A c \in asked :
    c \notin CallsOf(turn.pending_calls) => invocations[c].state \in Settled
CheckpointIsDue == \A r \in Runner :
    Active(r) /\ At(r, "checkpoint") => invocations[Current(r)].state \in Settled
EndsEmpty == turn.state \in {"absent", "completed"} => turn.pending_calls = <<>>
Local == /\ NothingDelegated /\ ApprovalPausesTurn /\ PauseHasApproval
         /\ DoneAreSettled /\ CheckpointIsDue /\ EndsEmpty
-----------------------------------------------------------------------------
(* Sequences of calls.                                                      *)

\* A non-empty sequence is its head followed by its tail.
LEMMA Parts ==
    ASSUME NEW s \in Seq(Call), s # <<>>
    PROVE  /\ Head(s) \in Call /\ Head(s) = s[1] /\ Len(s) \in Nat /\ Len(s) > 0
           /\ Tail(s) \in Seq(Call) /\ Len(Tail(s)) = Len(s) - 1
           /\ \A i \in 1..Len(s) - 1 : Tail(s)[i] = s[i + 1]
OBVIOUS

\* The calls of a sequence are its head and those behind it, which are the calls
\* of its tail.
LEMMA CallsOfParts ==
    ASSUME NEW s \in Seq(Call), s # <<>>
    PROVE  /\ CallsOf(s) = {Head(s)} \cup Behind(s)
           /\ CallsOf(Tail(s)) = Behind(s)
           /\ Behind(Tail(s)) \subseteq Behind(s)
<1>1. DOMAIN s = 1..Len(s) /\ DOMAIN Tail(s) = 1..Len(Tail(s))
  BY Parts
<1>2. CallsOf(s) = {Head(s)} \cup Behind(s)
  BY <1>1, Parts DEF CallsOf, Behind
<1>3. CallsOf(Tail(s)) \subseteq Behind(s)
  BY <1>1, Parts DEF CallsOf, Behind
<1>4. Behind(s) \subseteq CallsOf(Tail(s))
  <2>1. SUFFICES ASSUME NEW i \in 2..Len(s)
                 PROVE  s[i] \in CallsOf(Tail(s))
    BY DEF Behind
  <2>2. i - 1 \in DOMAIN Tail(s) /\ Tail(s)[i - 1] = s[i]
    BY <1>1, Parts
  <2> QED BY <2>2 DEF CallsOf
<1>5. Behind(Tail(s)) \subseteq CallsOf(Tail(s))
  <2>1. 2..Len(Tail(s)) \subseteq DOMAIN Tail(s)
    BY <1>1, Parts
  <2> QED BY <2>1 DEF CallsOf, Behind
<1> QED BY <1>2, <1>3, <1>4, <1>5

\* The empty sequence has no calls.
LEMMA CallsOfEmpty == CallsOf(<<>>) = {} /\ Behind(<<>>) = {} /\ <<>> \in Seq(Call)
BY DEF CallsOf, Behind

\* A batch of the model is a non-empty sequence of distinct calls that were never
\* asked before.
LEMMA FreshCalls ==
    ASSUME NEW b \in FreshBatch
    PROVE  /\ b \in Seq(Call) /\ b # <<>>
           /\ CallsOf(b) \cap asked = {}
           /\ \A i, j \in DOMAIN b : i # j => b[i] # b[j]
<1>1. b \in Seq(Call) /\ b # <<>>
  <2>1. CASE \E c \in Call : b = <<c>>
    BY <2>1
  <2>2. CASE \E c, d \in Call : b = <<c, d>>
    BY <2>2
  <2> QED BY <2>1, <2>2 DEF FreshBatch, Batch
<1> QED BY <1>1 DEF FreshBatch, CallsOf
-----------------------------------------------------------------------------
(* Types.                                                                   *)

Typed == TypeOK /\ AtWork

\* A runner that goes on at pc keeps everything else.
LEMMA GotoEffect ==
    ASSUME TypeOK, NEW r \in Runner, NEW pc, Goto(r, pc),
           pc \in {"approve", "dispatch", "complete", "fail", "link", "pause",
                   "checkpoint"}
    PROVE  /\ runners' \in [Runner -> RunnerState]
           /\ \A q \in Runner :
                 /\ runners'[q].calls = runners[q].calls
                 /\ runners'[q].known = runners[q].known
                 /\ runners'[q].task = runners[q].task
                 /\ runners'[q].pc = IF q = r THEN pc ELSE runners[q].pc
<1>1. runners \in [Runner -> RunnerState]
  BY DEF TypeOK
<1>2. runners' = [runners EXCEPT ![r] = [runners[r] EXCEPT !.pc = pc]]
  BY DEF Goto
<1>3. /\ [runners[r] EXCEPT !.pc = pc] \in RunnerState
      /\ [runners[r] EXCEPT !.pc = pc].calls = runners[r].calls
      /\ [runners[r] EXCEPT !.pc = pc].known = runners[r].known
      /\ [runners[r] EXCEPT !.pc = pc].task = runners[r].task
      /\ [runners[r] EXCEPT !.pc = pc].pc = pc
  BY <1>1 DEF RunnerState
<1> QED BY <1>1, <1>2, <1>3

\* Replacing the state of one runner leaves the others alone.
LEMMA PutEffect ==
    ASSUME TypeOK, NEW r \in Runner, NEW state \in RunnerState,
           runners' = [runners EXCEPT ![r] = state]
    PROVE  /\ runners' \in [Runner -> RunnerState]
           /\ \A q \in Runner : runners'[q] = IF q = r THEN state ELSE runners[q]
BY DEF TypeOK

\* An idle runner has its type.
LEMMA IdleTyped == Idle \in RunnerState
BY CallsOfEmpty DEF Idle, RunnerState

\* A runner at the head of its loop has its type.
LEMMA LoopTyped ==
    ASSUME NEW calls \in Seq(Call), NEW known \in SUBSET Delegated
    PROVE  [pc |-> "loop", calls |-> calls, known |-> known, task |-> None]
           \in RunnerState
BY DEF RunnerState

\* Marking a call changes the state of its invocation and nothing else.
LEMMA MarkEffect ==
    ASSUME TypeOK, NEW c \in Call, NEW state, Mark(c, state),
           state \in {"pending", "awaiting_approval"} \cup Settled
    PROVE  /\ invocations' \in [Call -> InvocationRow]
           /\ \A d \in Call :
                 /\ invocations'[d].task = invocations[d].task
                 /\ invocations'[d].state = IF d = c THEN state ELSE invocations[d].state
<1>1. invocations \in [Call -> InvocationRow]
  BY DEF TypeOK
<1>2. invocations' = [invocations EXCEPT ![c] = [invocations[c] EXCEPT !.state = state]]
  BY DEF Mark
<1>3. /\ [invocations[c] EXCEPT !.state = state] \in InvocationRow
      /\ [invocations[c] EXCEPT !.state = state].task = invocations[c].task
      /\ [invocations[c] EXCEPT !.state = state].state = state
  BY <1>1 DEF InvocationRow
<1> QED BY <1>1, <1>2, <1>3

\* Creating an invocation changes the row of that call and no other.
LEMMA CreateEffect ==
    ASSUME TypeOK, NEW c \in Call, NEW target \in {"local", "ara"},
           NEW task \in Task \cup {None}, Create(c, target, task)
    PROVE  /\ invocations' \in [Call -> InvocationRow]
           /\ \A d \in Call :
                 /\ invocations'[d].task = IF d = c THEN task ELSE invocations[d].task
                 /\ invocations'[d].state = IF d = c THEN "pending"
                                            ELSE invocations[d].state
<1>1. [state |-> "pending", target |-> target, task |-> task] \in InvocationRow
  BY DEF InvocationRow
<1> QED BY <1>1 DEF TypeOK, Create

\* A runner at work has a current call and a rest, both of their types.
LEMMA CurrentIsCall ==
    ASSUME TypeOK, NEW r \in Runner, Working(r)
    PROVE  /\ Current(r) \in Call
           /\ runners[r].calls \in Seq(Call)
           /\ Tail(runners[r].calls) \in Seq(Call)
<1>1. runners[r].calls \in Seq(Call) /\ runners[r].calls # <<>>
  BY DEF TypeOK, RunnerState, Working
<1> QED BY <1>1, Parts DEF Current

\* The fields of the turn have their types, and the records the actions build
\* for the turn have its type.
LEMMA TurnTyped ==
    ASSUME TypeOK
    PROVE  /\ turn.state \in {"absent", "pending", "running", "paused", "completed"}
           /\ turn.run_lease_id \in Runner \cup {None}
           /\ turn.lapsed \in BOOLEAN
           /\ turn.pending_calls \in Seq(Call)
           /\ \A state \in {"pending", "running", "paused", "completed"},
                 owner \in Runner \cup {None}, lapsed \in BOOLEAN, calls \in Seq(Call) :
                 [state |-> state, run_lease_id |-> owner, lapsed |-> lapsed,
                  pending_calls |-> calls] \in TurnRow
BY DEF TypeOK, TurnRow

\* The updates of a single field of the turn.
LEMMA TurnEffect ==
    ASSUME TypeOK
    PROVE  /\ [turn EXCEPT !.state = "pending"] =
                     [state |-> "pending", run_lease_id |-> turn.run_lease_id,
                      lapsed |-> turn.lapsed, pending_calls |-> turn.pending_calls]
           /\ \A calls \in Seq(Call) :
                 [turn EXCEPT !.pending_calls = calls] =
                     [state |-> turn.state, run_lease_id |-> turn.run_lease_id,
                      lapsed |-> turn.lapsed, pending_calls |-> calls]
           /\ [turn EXCEPT !.lapsed = TRUE] \in TurnRow
           /\ [turn EXCEPT !.lapsed = TRUE].state = turn.state
           /\ [turn EXCEPT !.lapsed = TRUE].run_lease_id = turn.run_lease_id
           /\ [turn EXCEPT !.lapsed = TRUE].lapsed
           /\ [turn EXCEPT !.lapsed = TRUE].pending_calls = turn.pending_calls
<1>1. turn = [state |-> turn.state, run_lease_id |-> turn.run_lease_id,
              lapsed |-> turn.lapsed, pending_calls |-> turn.pending_calls]
  BY DEF TypeOK, TurnRow
<1>2. [turn EXCEPT !.state = "pending"] =
          [state |-> "pending", run_lease_id |-> turn.run_lease_id,
           lapsed |-> turn.lapsed, pending_calls |-> turn.pending_calls]
  BY <1>1
<1>3. ASSUME NEW calls \in Seq(Call)
      PROVE  [turn EXCEPT !.pending_calls = calls] =
                 [state |-> turn.state, run_lease_id |-> turn.run_lease_id,
                  lapsed |-> turn.lapsed, pending_calls |-> calls]
  BY <1>1
<1>4. /\ [turn EXCEPT !.lapsed = TRUE] \in TurnRow
      /\ [turn EXCEPT !.lapsed = TRUE].state = turn.state
      /\ [turn EXCEPT !.lapsed = TRUE].run_lease_id = turn.run_lease_id
      /\ [turn EXCEPT !.lapsed = TRUE].lapsed
      /\ [turn EXCEPT !.lapsed = TRUE].pending_calls = turn.pending_calls
  BY DEF TypeOK, TurnRow
<1> QED BY <1>2, <1>3, <1>4

\* The first state has its types, with every runner idle.
LEMMA TypedInit == Init => Typed
<1> SUFFICES ASSUME Init
             PROVE  Typed
  OBVIOUS
<1>1. turn \in TurnRow /\ runners \in [Runner -> RunnerState]
  BY CallsOfEmpty, IdleTyped DEF Init, TurnRow
<1>2. invocations \in [Call -> InvocationRow] /\ tasks \in [Task -> TaskRow]
  BY DEF Init, InvocationRow, TaskRow
<1> QED BY <1>1, <1>2 DEF Init, Typed, TypeOK, AtWork, Idle

\* Every action keeps the types, and leaves the head of the loop only with a
\* call in hand.
LEMMA TypedNext == Typed /\ [Next]_vars => Typed'
<1> SUFFICES ASSUME Typed, [Next]_vars
             PROVE  Typed'
  OBVIOUS
<1>0. TypeOK /\ AtWork
  BY DEF Typed
<1> USE <1>0
<1>1. CASE CreateTurn
  BY <1>1, TurnEffect, TurnTyped DEF CreateTurn, Typed, TypeOK, AtWork, Working
<1>2. CASE RunLeaseLapses
  BY <1>2, TurnEffect DEF RunLeaseLapses, Typed, TypeOK, AtWork, Working
<1>3. ASSUME NEW r \in Runner, ClaimPendingTurn(r) \/ ClaimTurn(r)
      PROVE  Typed'
  <2>1. PICK calls \in Seq(Call) : Claim(r, calls)
    BY <1>3, TurnTyped, CallsOfEmpty DEF ClaimPendingTurn, ClaimTurn
  <2>2. PICK known \in SUBSET Delegated : Loop(r, calls, known)
    BY <2>1 DEF Claim, Offers, Delegated
  <2>3. turn' \in TurnRow
    BY <2>1, TurnTyped DEF Claim
  <2> QED BY <2>1, <2>2, <2>3, LoopTyped, PutEffect
          DEF Claim, Loop, Typed, TypeOK, AtWork, Working
<1>4. ASSUME NEW r \in Runner, CompleteTurn(r)
      PROVE  Typed'
  BY <1>4, IdleTyped, PutEffect, TurnTyped
     DEF CompleteTurn, Release, Idle, Typed, TypeOK, AtWork, Working
<1>5. ASSUME NEW r \in Runner, NEW b \in FreshBatch, ModelCalls(r, b)
      PROVE  Typed'
  <2>1. b \in Seq(Call) /\ CallsOf(b) \subseteq Call
    BY FreshCalls DEF CallsOf
  <2>2. runners[r].known \in SUBSET Delegated
    BY DEF TypeOK, RunnerState
  <2>3. turn' \in TurnRow
    BY <1>5, <2>1, TurnEffect, TurnTyped DEF ModelCalls, TypeOK, Active
  <2> QED BY <1>5, <2>1, <2>2, <2>3, LoopTyped, PutEffect
          DEF ModelCalls, Loop, Typed, TypeOK, AtWork, Working
<1>6. ASSUME NEW r \in Runner, CreateToolInvocation(r)
      PROVE  Typed'
  BY <1>6, GotoEffect, CreateEffect, CurrentIsCall
     DEF CreateToolInvocation, AtLocalCall, Typed, TypeOK, AtWork, Working
<1>7. ASSUME NEW r \in Runner, ReuseToolInvocation(r)
      PROVE  Typed'
  BY <1>7, GotoEffect DEF ReuseToolInvocation, AtLocalCall, Typed, TypeOK, AtWork, Working
<1>8. ASSUME NEW r \in Runner, Dispatch(r)
      PROVE  Typed'
  <2>1. Working(r)
    BY <1>8 DEF Dispatch, AtWork, At
  <2> QED BY <1>8, <2>1, GotoEffect, CurrentIsCall
          DEF Dispatch, Typed, TypeOK, AtWork, Working
<1>9. ASSUME NEW r \in Runner,
             \/ FinishToolInvocation(r, "complete", "completed")
             \/ FinishToolInvocation(r, "fail", "failed")
      PROVE  Typed'
  <2>1. Working(r)
    BY <1>9 DEF FinishToolInvocation, AtWork, At
  <2>2. PICK state \in {"completed", "failed"}, pc \in {"link", "checkpoint"} :
            /\ Mark(Current(r), state)
            /\ Goto(r, pc)
            /\ UNCHANGED <<turn, approvals, tasks, asked, executed>>
    BY <1>9 DEF FinishToolInvocation
  <2> QED BY <2>1, <2>2, GotoEffect, MarkEffect, CurrentIsCall
          DEF Settled, Typed, TypeOK, AtWork, Working
<1>10. ASSUME NEW r \in Runner, Checkpoint(r)
       PROVE  Typed'
  <2>1. Working(r)
    BY <1>10 DEF Checkpoint, AtWork, At
  <2>2. runners[r].known \in SUBSET Delegated
    BY DEF TypeOK, RunnerState
  <2>3. turn' \in TurnRow
    <3> DEFINE rest == Tail(runners[r].calls)
    <3>1. rest \in Seq(Call)
      BY <2>1, CurrentIsCall
    <3>2. \/ turn' = turn
          \/ turn.state = "running" /\ turn' = [turn EXCEPT !.pending_calls = rest]
      BY <1>10 DEF Checkpoint, Active
    <3> HIDE DEF rest
    <3>3. CASE turn' = turn
      BY <3>3 DEF TypeOK
    <3>4. CASE turn.state = "running" /\ turn' = [turn EXCEPT !.pending_calls = rest]
      <4>1. turn' = [state |-> "running", run_lease_id |-> turn.run_lease_id,
                     lapsed |-> turn.lapsed, pending_calls |-> rest]
        BY <3>1, <3>4, TurnEffect
      <4> QED BY <3>1, <4>1, TurnTyped
    <3> QED BY <3>2, <3>3, <3>4
  <2> QED BY <1>10, <2>1, <2>2, <2>3, CurrentIsCall, LoopTyped, PutEffect
          DEF Checkpoint, Loop, Typed, TypeOK, AtWork, Working
<1>11. ASSUME NEW r \in Runner, CreateCoordinatorApproval(r)
       PROVE  Typed'
  <2>1. Working(r)
    BY <1>11 DEF CreateCoordinatorApproval, AtWork, At
  <2>2. approvals' \in [Call -> {"absent", "pending", "granted", "denied"}]
    BY <1>11, <2>1, CurrentIsCall DEF CreateCoordinatorApproval, TypeOK
  <2>3. turn' \in TurnRow
    BY <1>11, TurnTyped DEF CreateCoordinatorApproval, Release
  <2>4. invocations' \in [Call -> InvocationRow]
    BY <1>11, <2>1, CurrentIsCall, MarkEffect DEF CreateCoordinatorApproval
  <2>5. CASE Current(r) \in HostCall
    <3>1. Goto(r, "pause")
      BY <1>11, <2>5 DEF CreateCoordinatorApproval, Goto
    <3> QED BY <1>11, <2>2, <2>3, <2>4, <3>1, <2>1, GotoEffect
            DEF CreateCoordinatorApproval, Typed, TypeOK, AtWork, Working
  <2>6. CASE Current(r) \notin HostCall
    <3>1. runners' = [runners EXCEPT ![r] = Idle]
      BY <1>11, <2>6 DEF CreateCoordinatorApproval
    <3> QED BY <1>11, <2>2, <2>3, <2>4, <3>1, IdleTyped, PutEffect
            DEF CreateCoordinatorApproval, Idle, Typed, TypeOK, AtWork, Working
  <2> QED BY <2>5, <2>6
<1>12. ASSUME NEW r \in Runner, SkipDelegation(r) \/ TakeResult(r) \/ WaitForResult(r)
       PROVE  Typed'
  BY <1>12, GotoEffect
     DEF SkipDelegation, TakeResult, WaitForResult, AtDelegation,
         Typed, TypeOK, AtWork, Working
<1>13. ASSUME NEW r \in Runner, CreateHostInvocation(r)
       PROVE  Typed'
  BY <1>13, GotoEffect, CreateEffect, CurrentIsCall
     DEF CreateHostInvocation, AtDelegation, Typed, TypeOK, AtWork, Working
<1>14. ASSUME NEW r \in Runner, NEW k \in Task, AddTask(r, k)
       PROVE  Typed'
  <2>1. Working(r)
    BY <1>14 DEF AddTask, AtDelegation
  <2>2. tasks' \in [Task -> TaskRow]
    BY <1>14, <2>1, CurrentIsCall DEF AddTask, TypeOK, TaskRow
  <2>3. \A pc \in {"complete", "link"} :
            [pc |-> pc, calls |-> runners[r].calls, known |-> runners[r].known,
             task |-> k] \in RunnerState
    BY DEF TypeOK, RunnerState
  <2>4. PICK pc \in {"complete", "link"} :
            runners' = [runners EXCEPT ![r] =
                [pc |-> pc, calls |-> runners[r].calls,
                 known |-> runners[r].known, task |-> k]]
    BY <1>14 DEF AddTask
  <2> QED BY <1>14, <2>1, <2>2, <2>3, <2>4, PutEffect
          DEF AddTask, Typed, TypeOK, AtWork, Working
<1>15. ASSUME NEW r \in Runner, LinkTask(r)
       PROVE  Typed'
  <2>1. Working(r)
    BY <1>15 DEF LinkTask, AtWork, At
  <2>2. runners[r].task \in Task \cup {None}
    BY DEF TypeOK, RunnerState
  <2> QED BY <1>15, <2>1, <2>2, GotoEffect, CreateEffect, CurrentIsCall
          DEF LinkTask, Typed, TypeOK, AtWork, Working
<1>16. ASSUME NEW r \in Runner, PauseTurn(r) \/ Stop(r)
       PROVE  Typed'
  <2>1. CASE PauseTurn(r)
    <3>1. turn' \in TurnRow
      BY <2>1, TurnTyped DEF PauseTurn, Release
    <3> QED BY <2>1, <3>1, IdleTyped, PutEffect
            DEF PauseTurn, Idle, Typed, TypeOK, AtWork, Working
  <2>2. CASE Stop(r)
    BY <2>2, IdleTyped, PutEffect DEF Stop, Idle, Typed, TypeOK, AtWork, Working
  <2> QED BY <1>16, <2>1, <2>2
<1>17. ASSUME NEW c \in Call, NEW state \in {"granted", "denied"}, DecideApproval(c, state)
       PROVE  Typed'
  <2>1. turn' \in TurnRow
    BY <1>17, TurnEffect, TurnTyped DEF DecideApproval
  <2>2. invocations' \in [Call -> InvocationRow]
    BY <1>17, MarkEffect DEF DecideApproval, Settled
  <2> QED BY <1>17, <2>1, <2>2 DEF DecideApproval, Typed, TypeOK, AtWork, Working
<1>18. ASSUME NEW k \in Task, NEW state \in Finished, FinishTask(k, state)
       PROVE  Typed'
  <2>1. turn' \in TurnRow
    BY <1>18, TurnEffect, TurnTyped DEF FinishTask, TypeOK
  <2>2. \A c \in Call : [invocations[c] EXCEPT !.state = state] \in InvocationRow
    BY DEF TypeOK, InvocationRow, Finished, Settled
  <2>3. invocations' \in [Call -> InvocationRow]
    BY <1>18, <2>2 DEF FinishTask, TypeOK
  <2>4. tasks' \in [Task -> TaskRow]
    BY <1>18 DEF FinishTask, TypeOK, TaskRow
  <2> QED BY <1>18, <2>1, <2>3, <2>4 DEF FinishTask, Typed, TypeOK, AtWork, Working
<1>19. ASSUME NEW k \in Task, LeaseAgain(k)
       PROVE  Typed'
  <2>1. tasks' \in [Task -> TaskRow]
    BY <1>19 DEF LeaseAgain, TypeOK, TaskRow
  <2> QED BY <1>19, <2>1 DEF LeaseAgain, Typed, TypeOK, AtWork, Working
<1>20. CASE UNCHANGED vars
  BY <1>20 DEF vars, Typed, TypeOK, AtWork, Working
<1> QED
  BY <1>1, <1>2, <1>3, <1>4, <1>5, <1>6, <1>7, <1>8, <1>9, <1>10, <1>11, <1>12,
     <1>13, <1>14, <1>15, <1>16, <1>17, <1>18, <1>19, <1>20 DEF Next

\* Every row and every runner's state has its type, whatever happens.
THEOREM TypeCorrect == Spec => []TypeOK
<1>1. Spec => []Typed
  BY TypedInit, TypedNext, PTL DEF Spec
<1> QED BY <1>1, PTL DEF Typed
-----------------------------------------------------------------------------
(* The checkpoint.                                                          *)

\* Approvals and links belong to existing invocations.
Grounded == \A c \in Call : approvals[c] # "absent" \/ Linked(c) => Known(c)

\* Invocations never disappear, and approvals and links are only given to
\* existing ones.
LEMMA GroundedNext == Typed /\ Grounded /\ [Next]_vars => Grounded'
<1> SUFFICES ASSUME Typed, Grounded, [Next]_vars
             PROVE  Grounded'
  OBVIOUS
<1>0. TypeOK /\ AtWork
  BY DEF Typed
<1> USE <1>0
<1>1. CASE UNCHANGED <<invocations, approvals>>
  BY <1>1 DEF Grounded, Known, Linked
<1>2. ASSUME NEW r \in Runner, Working(r), NEW target \in {"local", "ara"},
             NEW task \in Task \cup {None}, Create(Current(r), target, task),
             UNCHANGED approvals
      PROVE  Grounded'
  BY <1>2, CreateEffect, CurrentIsCall DEF Grounded, Known, Linked
<1>3. ASSUME NEW c \in Call, NEW state \in {"pending", "awaiting_approval"} \cup Settled,
             Mark(c, state), \A d \in Call : d # c => approvals'[d] = approvals[d]
      PROVE  Grounded'
  BY <1>3, MarkEffect DEF Grounded, Known, Linked, Settled
<1>4. ASSUME NEW r \in Runner, CreateToolInvocation(r) \/ CreateHostInvocation(r)
      PROVE  Grounded'
  BY <1>2, <1>4 DEF CreateToolInvocation, CreateHostInvocation, AtLocalCall, AtDelegation
<1>5. ASSUME NEW r \in Runner,
             \/ FinishToolInvocation(r, "complete", "completed")
             \/ FinishToolInvocation(r, "fail", "failed")
      PROVE  Grounded'
  <2>1. Working(r)
    BY <1>5 DEF FinishToolInvocation, AtWork, At
  <2> QED BY <1>3, <1>5, <2>1, CurrentIsCall DEF FinishToolInvocation, Settled
<1>6. ASSUME NEW r \in Runner, CreateCoordinatorApproval(r)
      PROVE  Grounded'
  <2>1. Working(r)
    BY <1>6 DEF CreateCoordinatorApproval, AtWork, At
  <2>2. \A d \in Call : d # Current(r) => approvals'[d] = approvals[d]
    BY <1>6 DEF CreateCoordinatorApproval, TypeOK
  <2> QED BY <1>3, <1>6, <2>1, <2>2, CurrentIsCall DEF CreateCoordinatorApproval
<1>7. ASSUME NEW r \in Runner, LinkTask(r)
      PROVE  Grounded'
  <2>1. Working(r) /\ runners[r].task \in Task \cup {None}
    BY <1>7 DEF LinkTask, AtWork, At, TypeOK, RunnerState
  <2> QED BY <1>1, <1>2, <1>7, <2>1 DEF LinkTask
<1>8. ASSUME NEW c \in Call, NEW state \in {"granted", "denied"}, DecideApproval(c, state)
      PROVE  Grounded'
  <2>1. \A d \in Call : d # c => approvals'[d] = approvals[d]
    BY <1>8 DEF DecideApproval, TypeOK
  <2> QED BY <1>3, <1>8, <2>1 DEF DecideApproval, Settled
<1>9. ASSUME NEW k \in Task, NEW state \in Finished, FinishTask(k, state)
      PROVE  Grounded'
  <2>1. \A c \in Call : /\ [invocations[c] EXCEPT !.state = state].state = state
                        /\ [invocations[c] EXCEPT !.state = state].task = invocations[c].task
    BY DEF TypeOK, InvocationRow
  <2>2. \A c \in Call : /\ invocations'[c].task = invocations[c].task
                        /\ invocations'[c].state \in {state, invocations[c].state}
    BY <1>9, <2>1 DEF FinishTask
  <2> QED BY <1>9, <2>2 DEF FinishTask, Finished, Grounded, Known, Linked
<1>10. ASSUME NEW r \in Runner,
              \/ ClaimPendingTurn(r) \/ ClaimTurn(r) \/ CompleteTurn(r)
              \/ \E b \in FreshBatch : ModelCalls(r, b)
              \/ ReuseToolInvocation(r) \/ Dispatch(r) \/ Checkpoint(r)
              \/ SkipDelegation(r) \/ TakeResult(r) \/ WaitForResult(r)
              \/ \E k \in Task : AddTask(r, k)
              \/ PauseTurn(r) \/ Stop(r)
       PROVE  Grounded'
  BY <1>1, <1>10
     DEF ClaimPendingTurn, ClaimTurn, Claim, CompleteTurn, ModelCalls,
         ReuseToolInvocation, Dispatch, Checkpoint, SkipDelegation, TakeResult,
         WaitForResult, AddTask, PauseTurn, Stop
<1> QED
  BY <1>1, <1>4, <1>5, <1>6, <1>7, <1>8, <1>9, <1>10
     DEF Next, CreateTurn, RunLeaseLapses, LeaseAgain, vars

\* A step that leaves the checkpoint and every runner's calls alone: it makes
\* nobody the holder of the run lease and creates invocations only for the
\* call that some runner is working on.
Quiet ==
    /\ turn'.pending_calls = turn.pending_calls
    /\ asked' = asked
    /\ \A r \in Runner : Active(r)' => Active(r)
    /\ \A r \in Runner :
          \/ runners'[r] = Idle
          \/ /\ runners'[r].calls = runners[r].calls
             /\ At(r, "idle")' <=> At(r, "idle")
    /\ \A c \in Call :
          Known(c)' => Known(c) \/ \E r \in Runner : Working(r) /\ c = Current(r)

\* Only claims, model responses and checkpoints are not quiet.
LEMMA StepShapes ==
    ASSUME Typed, Grounded, [Next]_vars
    PROVE  \/ Quiet
           \/ \E r \in Runner : ClaimPendingTurn(r) \/ ClaimTurn(r)
           \/ \E r \in Runner, b \in FreshBatch : ModelCalls(r, b)
           \/ \E r \in Runner : Checkpoint(r)
<1>0. TypeOK /\ AtWork
  BY DEF Typed
<1> USE <1>0
<1>1. CASE CreateTurn
  BY <1>1, TurnEffect DEF CreateTurn, Quiet, Active, At, Known
<1>2. CASE RunLeaseLapses
  BY <1>2, TurnEffect DEF RunLeaseLapses, Quiet, Active, At, Known
<1>3. ASSUME NEW r \in Runner, CompleteTurn(r) \/ PauseTurn(r)
      PROVE  Quiet
  <2>1. /\ turn'.pending_calls = turn.pending_calls
        /\ turn'.state # "running"
        /\ runners' = [runners EXCEPT ![r] = Idle]
        /\ UNCHANGED <<invocations, asked>>
    BY <1>3 DEF CompleteTurn, PauseTurn, Release
  <2> QED BY <2>1, IdleTyped, PutEffect DEF Quiet, Active, At, Known
<1>4. ASSUME NEW r \in Runner, CreateToolInvocation(r)
      PROVE  Quiet
  BY <1>4, GotoEffect, CreateEffect, CurrentIsCall
     DEF CreateToolInvocation, AtLocalCall, Quiet, Active, At, Known
<1>5. ASSUME NEW r \in Runner, ReuseToolInvocation(r)
      PROVE  Quiet
  BY <1>5, GotoEffect DEF ReuseToolInvocation, AtLocalCall, Quiet, Active, At, Known
<1>6. ASSUME NEW r \in Runner, Dispatch(r)
      PROVE  Quiet
  BY <1>6, GotoEffect DEF Dispatch, Quiet, Active, At, Known
<1>7. ASSUME NEW r \in Runner,
             \/ FinishToolInvocation(r, "complete", "completed")
             \/ FinishToolInvocation(r, "fail", "failed")
      PROVE  Quiet
  <2>1. Working(r) /\ runners[r].pc # "idle"
    BY <1>7 DEF FinishToolInvocation, AtWork, At
  <2>2. PICK state \in {"completed", "failed"}, pc \in {"link", "checkpoint"} :
            /\ Mark(Current(r), state)
            /\ Goto(r, pc)
            /\ UNCHANGED <<turn, asked>>
    BY <1>7 DEF FinishToolInvocation
  <2> QED BY <2>1, <2>2, GotoEffect, MarkEffect, CurrentIsCall
          DEF Settled, Quiet, Active, At, Known
<1>8. ASSUME NEW r \in Runner, CreateCoordinatorApproval(r)
      PROVE  Quiet
  <2>1. Working(r) /\ runners[r].pc # "idle"
    BY <1>8 DEF CreateCoordinatorApproval, AtWork, At
  <2>2. /\ turn'.pending_calls = turn.pending_calls
        /\ turn'.state # "running"
        /\ asked' = asked
    BY <1>8 DEF CreateCoordinatorApproval, Release
  <2>3. \A c \in Call :
          Known(c)' => Known(c) \/ \E q \in Runner : Working(q) /\ c = Current(q)
    BY <1>8, <2>1, MarkEffect, CurrentIsCall DEF CreateCoordinatorApproval, Known
  <2>4. Goto(r, "pause") \/ runners' = [runners EXCEPT ![r] = Idle]
    BY <1>8 DEF CreateCoordinatorApproval, Goto
  <2> QED BY <2>1, <2>2, <2>3, <2>4, GotoEffect, IdleTyped, PutEffect
          DEF Quiet, Active, At
<1>9. ASSUME NEW r \in Runner, SkipDelegation(r) \/ TakeResult(r) \/ WaitForResult(r)
      PROVE  Quiet
  BY <1>9, GotoEffect
     DEF SkipDelegation, TakeResult, WaitForResult, AtDelegation,
         Quiet, Active, At, Known
<1>10. ASSUME NEW r \in Runner, CreateHostInvocation(r)
       PROVE  Quiet
  BY <1>10, GotoEffect, CreateEffect, CurrentIsCall
     DEF CreateHostInvocation, AtDelegation, Quiet, Active, At, Known
<1>11. ASSUME NEW r \in Runner, NEW k \in Task, AddTask(r, k)
       PROVE  Quiet
  <2>1. /\ runners[r].pc # "idle"
        /\ UNCHANGED <<turn, invocations, asked>>
    BY <1>11 DEF AddTask, AtDelegation, At
  <2>2. \A q \in Runner : q # r => runners'[q] = runners[q]
    BY <1>11 DEF AddTask, TypeOK
  <2>3. runners'[r].calls = runners[r].calls /\ runners'[r].pc # "idle"
    BY <1>11 DEF AddTask, TypeOK
  <2> QED BY <2>1, <2>2, <2>3 DEF Quiet, Active, At, Known
<1>12. ASSUME NEW r \in Runner, LinkTask(r)
       PROVE  Quiet
  <2>1. Working(r)
    BY <1>12 DEF LinkTask, AtWork, At
  <2>2. runners[r].task \in Task \cup {None}
    BY DEF TypeOK, RunnerState
  <2> QED BY <1>12, <2>1, <2>2, GotoEffect, CreateEffect, CurrentIsCall
          DEF LinkTask, Quiet, Active, At, Known
<1>13. ASSUME NEW r \in Runner, Stop(r)
       PROVE  Quiet
  BY <1>13, IdleTyped, PutEffect DEF Stop, Quiet, Active, At, Known
<1>14. ASSUME NEW c \in Call, NEW state \in {"granted", "denied"}, DecideApproval(c, state)
       PROVE  Quiet
  <2>1. turn'.pending_calls = turn.pending_calls /\ turn'.state # "running"
    BY <1>14, TurnEffect DEF DecideApproval
  <2>2. \A d \in Call : Known(d)' => Known(d)
    BY <1>14, MarkEffect DEF DecideApproval, Grounded, Known, Settled
  <2> QED BY <1>14, <2>1, <2>2 DEF DecideApproval, Quiet, Active, At
<1>15. ASSUME NEW k \in Task, NEW state \in Finished, FinishTask(k, state)
       PROVE  Quiet
  <2>1. /\ turn'.pending_calls = turn.pending_calls
        /\ (turn' = turn) \/ (turn'.state # "running")
    BY <1>15, TurnEffect DEF FinishTask
  <2>2. \A c \in Call : Known(c)' => Known(c)
    BY <1>15, TurnAssumption DEF FinishTask, Grounded, Known, Linked
  <2> QED BY <1>15, <2>1, <2>2 DEF FinishTask, Quiet, Active, At
<1>16. ASSUME NEW k \in Task, LeaseAgain(k)
       PROVE  Quiet
  BY <1>16 DEF LeaseAgain, Quiet, Active, At, Known
<1>17. CASE UNCHANGED vars
  BY <1>17 DEF vars, Quiet, Active, At, Known
<1> QED
  BY <1>1, <1>2, <1>3, <1>4, <1>5, <1>6, <1>7, <1>8, <1>9, <1>10, <1>11, <1>12,
     <1>13, <1>14, <1>15, <1>16, <1>17 DEF Next

\* A claim gives its runner the run lease and the calls of the checkpoint, or
\* none if it streams; other runners keep what they have.
LEMMA ClaimEffect ==
    ASSUME TypeOK, NEW r \in Runner, ClaimPendingTurn(r) \/ ClaimTurn(r)
    PROVE  /\ UNCHANGED <<invocations, approvals, asked>>
           /\ turn'.pending_calls = turn.pending_calls
           /\ turn'.run_lease_id = r
           /\ turn'.state = "running"
           /\ runners'[r].calls = IF r \in StreamRunner THEN <<>> ELSE turn.pending_calls
           /\ runners'[r].pc = "loop" /\ runners'[r].task = None
           /\ \A q \in Runner : q # r => runners'[q] = runners[q]
<1>1. PICK calls \in Seq(Call) :
          /\ calls = IF r \in StreamRunner THEN <<>> ELSE turn.pending_calls
          /\ Claim(r, calls)
  BY TurnTyped, CallsOfEmpty DEF ClaimPendingTurn, ClaimTurn
<1>2. PICK known \in SUBSET Delegated : Loop(r, calls, known)
  BY <1>1 DEF Claim, Offers, Delegated
<1>3. /\ runners'[r].calls = calls
      /\ runners'[r].pc = "loop" /\ runners'[r].task = None
      /\ \A q \in Runner : q # r => runners'[q] = runners[q]
  BY <1>2, LoopTyped, PutEffect DEF Loop
<1> QED BY <1>1, <1>3 DEF Claim

\* A model response gives its runner the batch and, unless it streams, puts the
\* batch into the checkpoint under the run lease.
LEMMA ModelCallsEffect ==
    ASSUME TypeOK, NEW r \in Runner, NEW b \in FreshBatch, ModelCalls(r, b)
    PROVE  /\ UNCHANGED <<invocations, approvals>>
           /\ runners[r].pc = "loop" /\ runners[r].calls = <<>>
           /\ asked' = asked \cup CallsOf(b)
           /\ turn'.pending_calls = IF r \in StreamRunner THEN turn.pending_calls ELSE b
           /\ turn'.state = turn.state
           /\ r \notin StreamRunner => Active(r)
           /\ \A q \in Runner : Active(q)' <=> Active(q)
           /\ runners'[r].calls = b
           /\ runners'[r].pc = "loop" /\ runners'[r].task = None
           /\ \A q \in Runner : q # r => runners'[q] = runners[q]
<1>1. runners[r].known \in SUBSET Delegated
  BY DEF TypeOK, RunnerState
<1>2. /\ runners'[r].calls = b
      /\ runners'[r].pc = "loop" /\ runners'[r].task = None
      /\ \A q \in Runner : q # r => runners'[q] = runners[q]
  BY <1>1, FreshCalls, LoopTyped, PutEffect DEF ModelCalls, Loop
<1>3. /\ turn'.pending_calls = IF r \in StreamRunner THEN turn.pending_calls ELSE b
      /\ turn'.state = turn.state
      /\ turn'.run_lease_id = turn.run_lease_id
      /\ turn'.lapsed = turn.lapsed
  BY FreshCalls, TurnEffect DEF ModelCalls
<1> QED BY <1>2, <1>3 DEF ModelCalls, At, Working, Active

\* A checkpoint drops the runner's current call and, unless it streams, sets the
\* checkpoint to the rest under the run lease.
LEMMA CheckpointEffect ==
    ASSUME Typed, NEW r \in Runner, Checkpoint(r)
    PROVE  /\ UNCHANGED <<invocations, approvals, asked>>
           /\ runners[r].pc = "checkpoint" /\ Working(r)
           /\ turn'.pending_calls = IF r \in StreamRunner THEN turn.pending_calls
                                    ELSE Tail(runners[r].calls)
           /\ turn'.state = turn.state
           /\ r \notin StreamRunner => Active(r)
           /\ \A q \in Runner : Active(q)' <=> Active(q)
           /\ runners'[r].calls = Tail(runners[r].calls)
           /\ runners'[r].pc = "loop" /\ runners'[r].task = None
           /\ \A q \in Runner : q # r => runners'[q] = runners[q]
<1>0. TypeOK /\ AtWork
  BY DEF Typed
<1>1. Working(r) /\ runners[r].known \in SUBSET Delegated
  BY <1>0 DEF TypeOK, RunnerState, AtWork, Checkpoint, At
<1> DEFINE rest == Tail(runners[r].calls)
<1>2. rest \in Seq(Call)
  BY <1>0, <1>1, CurrentIsCall
<1>3. /\ Loop(r, rest, runners[r].known)
      /\ r \in StreamRunner => UNCHANGED turn
      /\ r \notin StreamRunner => Active(r) /\ turn' = [turn EXCEPT !.pending_calls = rest]
      /\ UNCHANGED <<invocations, approvals, asked>>
      /\ runners[r].pc = "checkpoint"
  BY DEF Checkpoint, At
<1> HIDE DEF rest
<1>4. /\ runners'[r].calls = rest
      /\ runners'[r].pc = "loop" /\ runners'[r].task = None
      /\ \A q \in Runner : q # r => runners'[q] = runners[q]
  BY <1>0, <1>1, <1>2, <1>3, LoopTyped, PutEffect DEF Loop
<1>5. /\ turn'.pending_calls = IF r \in StreamRunner THEN turn.pending_calls ELSE rest
      /\ turn'.state = turn.state
      /\ turn'.run_lease_id = turn.run_lease_id
      /\ turn'.lapsed = turn.lapsed
  BY <1>0, <1>2, <1>3, TurnEffect
<1> QED BY <1>1, <1>3, <1>4, <1>5 DEF Active, rest

\* Only the holder of the run lease changes the checkpoint, so the holder's view
\* of it stays right.
LEMMA FencedNext == Typed /\ Grounded /\ Fenced /\ [Next]_vars => Fenced'
<1> SUFFICES ASSUME Typed, Grounded, Fenced, [Next]_vars
             PROVE  Fenced'
  OBVIOUS
<1>0. TypeOK
  BY DEF Typed
<1>1. CASE Quiet
  BY <1>1 DEF Quiet, Fenced, At, Idle
<1>2. ASSUME NEW r \in Runner, ClaimPendingTurn(r) \/ ClaimTurn(r)
      PROVE  Fenced'
  BY <1>0, <1>2, ClaimEffect DEF Fenced, Active, At
<1>3. ASSUME NEW r \in Runner, NEW b \in FreshBatch, ModelCalls(r, b)
      PROVE  Fenced'
  BY <1>0, <1>3, ModelCallsEffect DEF Fenced, At, Active
<1>4. ASSUME NEW r \in Runner, Checkpoint(r)
      PROVE  Fenced'
  BY <1>4, CheckpointEffect DEF Fenced, At, Active
<1> QED BY <1>1, <1>2, <1>3, <1>4, StepShapes

\* Types, groundedness and fencing are invariants of every turn.
LEMMA FencedAlways == Spec => [](Typed /\ Grounded /\ Fenced)
<1>1. Init => Typed /\ Grounded /\ Fenced
  BY TypedInit DEF Init, Grounded, Linked, Fenced, Active
<1> QED BY <1>1, TypedNext, GroundedNext, FencedNext, PTL DEF Spec

\* A step of a fenced turn moves the checkpoint forward or leaves it alone.
LEMMA ForwardStep ==
    ASSUME Typed, Grounded, Fenced, [Next]_vars
    PROVE  \/ turn'.pending_calls = turn.pending_calls
           \/ turn.pending_calls # <<>> /\ turn'.pending_calls = Tail(turn.pending_calls)
           \/ turn.pending_calls = <<>> /\ CallsOf(turn'.pending_calls) \cap asked = {}
<1>0. TypeOK
  BY DEF Typed
<1>1. CASE Quiet
  BY <1>1 DEF Quiet
<1>2. ASSUME NEW r \in Runner, ClaimPendingTurn(r) \/ ClaimTurn(r)
      PROVE  turn'.pending_calls = turn.pending_calls
  BY <1>0, <1>2, ClaimEffect
<1>3. ASSUME NEW r \in Runner, NEW b \in FreshBatch, ModelCalls(r, b)
      PROVE  \/ turn'.pending_calls = turn.pending_calls
             \/ turn.pending_calls = <<>> /\ CallsOf(turn'.pending_calls) \cap asked = {}
  BY <1>0, <1>3, ModelCallsEffect, FreshCalls DEF Fenced, At
<1>4. ASSUME NEW r \in Runner, Checkpoint(r)
      PROVE  \/ turn'.pending_calls = turn.pending_calls
             \/ /\ turn.pending_calls # <<>>
                /\ turn'.pending_calls = Tail(turn.pending_calls)
  BY <1>4, CheckpointEffect DEF Fenced, At, Working
<1> QED BY <1>1, <1>2, <1>3, <1>4, StepShapes

\* A superseded runner never sets the checkpoint back, skips a call of it, or
\* puts new calls in front of unsettled ones, in any kind of turn.
THEOREM Forward == Spec => CheckpointMovesForward
<1>1. ASSUME Typed, Grounded, Fenced, [Next]_vars
      PROVE  [LET old == turn.pending_calls
                  new == turn'.pending_calls
              IN  \/ new = old
                  \/ old # <<>> /\ new = Tail(old)
                  \/ old = <<>> /\ CallsOf(new) \cap asked = {}]_vars
  BY <1>1, ForwardStep
<1> QED BY <1>1, FencedAlways, PTL DEF Spec, CheckpointMovesForward
-----------------------------------------------------------------------------
(* The order of calls.                                                      *)

\* The head of a sequence of distinct calls is not behind it, and its tail is
\* a sequence of distinct calls.
LEMMA DistinctParts ==
    ASSUME NEW s \in Seq(Call), s # <<>>,
           \A i, j \in DOMAIN s : i # j => s[i] # s[j]
    PROVE  /\ Head(s) \notin Behind(s)
           /\ \A i, j \in DOMAIN Tail(s) : i # j => Tail(s)[i] # Tail(s)[j]
<1>1. DOMAIN s = 1..Len(s) /\ DOMAIN Tail(s) = 1..Len(s) - 1
  BY Parts
<1>2. Head(s) \notin Behind(s)
  BY <1>1, Parts DEF Behind
<1>3. ASSUME NEW i \in DOMAIN Tail(s), NEW j \in DOMAIN Tail(s), i # j
      PROVE  Tail(s)[i] # Tail(s)[j]
  BY <1>1, <1>3, Parts
<1> QED BY <1>2, <1>3

\* NoCallRunsAhead in terms of the calls behind the first.
LEMMA AheadAsBehind ==
    ASSUME turn.pending_calls \in Seq(Call)
    PROVE  NoCallRunsAhead <=> \A c \in Behind(turn.pending_calls) : ~Known(c)
<1> DEFINE s == turn.pending_calls
<1>1. DOMAIN s = 1..Len(s) /\ Len(s) \in Nat
  OBVIOUS
<1>2. \A i \in 1..Len(s) : i > 1 <=> i \in 2..Len(s)
  BY <1>1
<1> QED BY <1>1, <1>2 DEF NoCallRunsAhead, Behind

\* Before the first call there is nothing to be ordered.
LEMMA OrderedInit == Init => Ordered
BY CallsOfEmpty
   DEF Init, Ordered, PendingAreAsked, PendingAreDistinct, KnownAreAsked, WorkIsAsked,
       StreamsApart, NobodyAhead, NoCallRunsAhead, Known, Working, Idle

\* The order survives every step: a batch is new when it enters the checkpoint,
\* and a runner moves to its next call only together with the checkpoint.
LEMMA OrderedNext == Typed /\ Grounded /\ Fenced /\ Ordered /\ [Next]_vars => Ordered'
<1> SUFFICES ASSUME Typed, Grounded, Fenced, Ordered, [Next]_vars
             PROVE  Ordered'
  OBVIOUS
<1> USE DEF Ordered, PendingAreAsked, PendingAreDistinct, KnownAreAsked, WorkIsAsked,
            StreamsApart, NobodyAhead
<1> DEFINE s == turn.pending_calls
<1>0. /\ TypeOK
      /\ s \in Seq(Call) /\ s' \in Seq(Call)
      /\ \A r \in Runner : runners[r].calls \in Seq(Call)
      /\ \A c \in Behind(s) : ~Known(c)
  <2>1. TypeOK /\ TypeOK'
    BY TypedNext DEF Typed
  <2>2. s \in Seq(Call) /\ s' \in Seq(Call)
    BY <2>1 DEF TypeOK, TurnRow
  <2> QED BY <2>1, <2>2, AheadAsBehind DEF TypeOK, RunnerState
<1>00. (\A c \in Behind(s') : ~Known(c)') => NoCallRunsAhead'
  <2>1. \A i \in DOMAIN s' : i > 1 => s'[i] \in Behind(s')
    BY <1>0 DEF Behind
  <2> QED BY <2>1 DEF NoCallRunsAhead
<1>1. CASE Quiet
  <2>1. s' = s /\ asked' = asked
    BY <1>1 DEF Quiet
  <2>2. \A r \in Runner : runners'[r].calls \in {<<>>, runners[r].calls}
    BY <1>1 DEF Quiet, Idle
  <2>3. \A c \in Call : Known(c)' => c \in asked
    BY <1>0, <1>1, CallsOfParts DEF Quiet, Working, Current
  <2>4. \A c \in Behind(s) : ~Known(c)'
    <3>1. Behind(s) \subseteq Call
      BY <1>0 DEF Behind
    <3> QED BY <1>0, <1>1, <3>1 DEF Quiet
  <2>5. StreamsApart' /\ WorkIsAsked' /\ NobodyAhead'
    BY <2>1, <2>2, CallsOfEmpty, TurnAssumption DEF Working, Current
  <2> QED BY <1>00, <2>1, <2>3, <2>4, <2>5
<1>2. ASSUME NEW r \in Runner, ClaimPendingTurn(r) \/ ClaimTurn(r)
      PROVE  Ordered'
  <2>1. /\ s' = s /\ asked' = asked
        /\ UNCHANGED invocations
        /\ runners'[r].calls = IF r \in StreamRunner THEN <<>> ELSE s
        /\ \A q \in Runner : q # r => runners'[q] = runners[q]
    BY <1>0, <1>2, ClaimEffect
  <2>2. StreamsApart' /\ WorkIsAsked'
    BY <2>1, CallsOfEmpty, TurnAssumption
  <2>3. NobodyAhead'
    BY <1>0, <2>1, DistinctParts DEF Working, Current
  <2> QED BY <1>0, <1>00, <2>1, <2>2, <2>3 DEF Known
<1>3. ASSUME NEW r \in Runner, NEW b \in FreshBatch, ModelCalls(r, b)
      PROVE  Ordered'
  <2>1. /\ s' = IF r \in StreamRunner THEN s ELSE b
        /\ asked' = asked \cup CallsOf(b)
        /\ UNCHANGED invocations
        /\ runners'[r].calls = b
        /\ \A q \in Runner : q # r => runners'[q] = runners[q]
    BY <1>0, <1>3, ModelCallsEffect
  <2>2. /\ b \in Seq(Call) /\ b # <<>>
        /\ CallsOf(b) \cap asked = {}
        /\ \A i, j \in DOMAIN b : i # j => b[i] # b[j]
    BY FreshCalls
  <2>3. /\ Behind(s) \subseteq CallsOf(s)
        /\ Behind(b) \subseteq CallsOf(b) /\ Head(b) \in CallsOf(b)
        /\ Head(b) \notin Behind(b)
    BY <1>0, <2>2, CallsOfParts, CallsOfEmpty, DistinctParts
  <2>4. \A q \in Runner : Working(q) => Current(q) \in asked
    BY <1>0, CallsOfParts DEF Working, Current
  <2>5. StreamsApart'
    BY <2>1, <2>2, TurnAssumption
  <2>6. NobodyAhead'
    BY <2>1, <2>2, <2>3, <2>4 DEF Working, Current
  <2>7. \A c \in Behind(s') : ~Known(c)'
    <3>1. Behind(b) \subseteq Call
      BY <2>2 DEF Behind
    <3> QED BY <1>0, <2>1, <2>2, <2>3, <3>1 DEF Known
  <2>8. KnownAreAsked' /\ WorkIsAsked' /\ PendingAreAsked' /\ PendingAreDistinct'
    BY <2>1, <2>2 DEF Known
  <2> QED BY <1>00, <2>5, <2>6, <2>7, <2>8
<1>4. ASSUME NEW r \in Runner, Checkpoint(r)
      PROVE  Ordered'
  <2>1. /\ asked' = asked
        /\ UNCHANGED invocations
        /\ runners[r].calls # <<>>
        /\ runners'[r].calls = Tail(runners[r].calls)
        /\ \A q \in Runner : q # r => runners'[q] = runners[q]
        /\ s' = IF r \in StreamRunner THEN s ELSE Tail(runners[r].calls)
        /\ r \notin StreamRunner => runners[r].calls = s
    BY <1>4, CheckpointEffect DEF Working, Fenced, At
  <2> DEFINE w == runners[r].calls
  <2>2. /\ w \in Seq(Call) /\ w # <<>> /\ Tail(w) \in Seq(Call)
        /\ CallsOf(Tail(w)) \subseteq CallsOf(w)
        /\ Tail(w) # <<>> => Head(Tail(w)) \in CallsOf(Tail(w))
        /\ Behind(Tail(w)) \subseteq Behind(w) /\ Behind(w) \subseteq CallsOf(w)
    <3>1. w \in Seq(Call) /\ w # <<>>
      BY <1>0, <2>1
    <3> DEFINE rest == Tail(w)
    <3>2. rest \in Seq(Call)
      BY <3>1, Parts
    <3> HIDE DEF rest, w
    <3>3. rest # <<>> => Head(rest) \in CallsOf(rest)
      BY <3>2, CallsOfParts
    <3> USE DEF rest
    <3> QED BY <3>1, <3>2, <3>3, CallsOfParts
  <2>3. CASE r \in StreamRunner
    <3>1. Behind(s) \subseteq CallsOf(s)
      BY <1>0, CallsOfParts, CallsOfEmpty
    <3>2. StreamsApart' /\ WorkIsAsked'
      BY <2>1, <2>2, <2>3, TurnAssumption
    <3>3. NobodyAhead'
      BY <2>1, <2>2, <2>3, <3>1 DEF Working, Current
    <3> QED BY <1>0, <1>00, <2>1, <2>3, <3>2, <3>3 DEF Known
  <2>4. CASE r \notin StreamRunner
    <3>1. w = s /\ s' = Tail(s)
      BY <2>1, <2>4
    <3>2. \A i, j \in DOMAIN s' : i # j => s'[i] # s'[j]
      BY <2>2, <3>1, DistinctParts
    <3>3. StreamsApart' /\ WorkIsAsked' /\ PendingAreAsked'
      BY <2>1, <2>2, <2>4, <3>1, TurnAssumption
    <3>4. NobodyAhead'
      <4>1. Tail(s) # <<>> => Head(Tail(s)) \notin Behind(Tail(s))
        BY <2>2, <3>1, <3>2, DistinctParts
      <4> QED BY <2>1, <2>2, <3>1, <4>1 DEF Working, Current
    <3>5. \A c \in Behind(s') : ~Known(c)'
      BY <1>0, <2>1, <2>2, <3>1 DEF Known
    <3> QED BY <1>00, <2>1, <3>2, <3>3, <3>4, <3>5 DEF Known
  <2> QED BY <2>3, <2>4
<1> QED BY <1>1, <1>2, <1>3, <1>4, StepShapes

\* No runner, superseded or not, starts a call before the checkpoint has moved
\* past the calls in front of it, in any kind of turn.
THEOREM InOrder == Spec => []NoCallRunsAhead
<1>1. Spec => [](Typed /\ Grounded /\ Fenced /\ Ordered)
  BY OrderedInit, OrderedNext, FencedAlways, PTL DEF Spec
<1> QED BY <1>1, PTL DEF Ordered
-----------------------------------------------------------------------------
(* Local turns.                                                             *)

\* Without streams and delegated calls this is all that can happen; a stray
\* finish_task finds no invocation of the turn.
LEMMA LocalSteps ==
    ASSUME LocalTurn, Typed, NothingDelegated, [Next]_vars
    PROVE  \/ CreateTurn
           \/ RunLeaseLapses
           \/ \E r \in Runner :
                 \/ ClaimPendingTurn(r)
                 \/ CompleteTurn(r)
                 \/ \E b \in FreshBatch : ModelCalls(r, b)
                 \/ CreateToolInvocation(r) \/ ReuseToolInvocation(r) \/ Dispatch(r)
                 \/ FinishToolInvocation(r, "complete", "completed")
                 \/ FinishToolInvocation(r, "fail", "failed")
                 \/ Checkpoint(r)
                 \/ CreateCoordinatorApproval(r)
                 \/ Stop(r)
           \/ \E c \in Call, state \in {"granted", "denied"} : DecideApproval(c, state)
           \/ UNCHANGED <<turn, invocations, approvals, runners, asked>>
<1>1. \A r \in Runner : ~ClaimTurn(r)
  BY DEF LocalTurn, ClaimTurn
<1>2. \A r \in Runner : ~AtDelegation(r)
  BY DEF LocalTurn, Typed, TypeOK, RunnerState, AtDelegation
<1>3. \A r \in Runner : ~LinkTask(r) /\ ~PauseTurn(r)
  BY DEF NothingDelegated, LinkTask, PauseTurn, At
<1>4. \A r \in Runner : /\ ~SkipDelegation(r) /\ ~TakeResult(r) /\ ~WaitForResult(r)
                        /\ ~CreateHostInvocation(r)
                        /\ \A k \in Task : ~AddTask(r, k)
  BY <1>2 DEF SkipDelegation, TakeResult, WaitForResult, CreateHostInvocation, AddTask
<1>5. ASSUME NEW k \in Task, NEW state \in Finished, FinishTask(k, state)
      PROVE  UNCHANGED <<turn, invocations, approvals, runners, asked>>
  <2>1. \A c \in Call : invocations[c].task # k
    BY TurnAssumption DEF NothingDelegated, Linked
  <2>2. invocations' = [c \in Call |-> invocations[c]]
    BY <1>5, <2>1 DEF FinishTask
  <2>3. invocations' = invocations
    BY <2>2 DEF Typed, TypeOK
  <2> QED BY <1>5, <2>1, <2>3 DEF FinishTask
<1>6. ASSUME NEW k \in Task, LeaseAgain(k)
      PROVE  UNCHANGED <<turn, invocations, approvals, runners, asked>>
  BY <1>6 DEF LeaseAgain
<1> QED BY <1>1, <1>3, <1>4, <1>5, <1>6 DEF Next, vars

\* A call that is worked on and not settled is the first of the checkpoint.
LEMMA UnsettledIsFirst ==
    ASSUME Typed, Ordered, DoneAreSettled, NEW r \in Runner, Working(r),
           invocations[Current(r)].state \notin Settled
    PROVE  /\ turn.pending_calls # <<>>
           /\ Current(r) = Head(turn.pending_calls)
           /\ Current(r) \in CallsOf(turn.pending_calls)
<1>1. /\ turn.pending_calls \in Seq(Call)
      /\ runners[r].calls \in Seq(Call) /\ runners[r].calls # <<>>
  BY TurnTyped DEF Typed, TypeOK, RunnerState, Working
<1>2. Current(r) \in asked
  BY <1>1, CallsOfParts DEF Ordered, WorkIsAsked, Current
<1>3. Current(r) \in CallsOf(turn.pending_calls)
  BY <1>2 DEF DoneAreSettled
<1>4. turn.pending_calls # <<>>
  BY <1>3, CallsOfEmpty
<1> QED BY <1>1, <1>3, <1>4, CallsOfParts DEF Ordered, NobodyAhead

\* Before the turn exists it waits for nothing.
LEMMA LocalInit == Init => Local
BY CallsOfEmpty
   DEF Init, Local, NothingDelegated, ApprovalPausesTurn, PauseHasApproval,
       DoneAreSettled, CheckpointIsDue, EndsEmpty, Linked, Idle, Active

\* Everything Local says about a step: an approval is only asked for the first
\* unsettled call, which keeps the turn from being answered meanwhile.
LEMMA LocalNext ==
    ASSUME LocalTurn, Typed, Grounded, Fenced, Ordered, Local, [Next]_vars
    PROVE  Local'
<1> USE DEF Local, NothingDelegated, ApprovalPausesTurn, PauseHasApproval,
            DoneAreSettled, CheckpointIsDue, EndsEmpty
<1>0. /\ TypeOK /\ AtWork /\ NothingDelegated
      /\ StreamRunner = {} /\ Delegated = {} /\ HostCall = {}
      /\ turn.pending_calls \in Seq(Call)
      /\ "pending" \notin Settled /\ "absent" \notin Settled
      /\ "awaiting_approval" \notin Settled
      /\ \A q \in Runner : Working(q) => Current(q) \in Call
  BY TurnTyped, CurrentIsCall DEF Typed, LocalTurn, Delegated, Settled
<1>1. CASE CreateTurn
  <2>1. turn'.state = "pending" /\ turn'.pending_calls = turn.pending_calls
    BY <1>0, <1>1, TurnEffect DEF CreateTurn
  <2> QED BY <1>1, <2>1 DEF CreateTurn, Active, Linked, At, Current
<1>2. CASE RunLeaseLapses
  <2>1. /\ turn'.state = turn.state /\ turn'.lapsed
        /\ turn'.pending_calls = turn.pending_calls
    BY <1>0, <1>2, TurnEffect DEF RunLeaseLapses
  <2> QED BY <1>2, <2>1 DEF RunLeaseLapses, Active, Linked, At, Current
<1>3. ASSUME NEW r \in Runner, ClaimPendingTurn(r)
      PROVE  Local'
  <2>1. turn.state # "paused"
    BY <1>3 DEF ClaimPendingTurn
  <2> QED BY <1>0, <1>3, <2>1, ClaimEffect DEF Active, Linked, At, Current
<1>4. ASSUME NEW r \in Runner, CompleteTurn(r)
      PROVE  Local'
  <2>1. turn.pending_calls = <<>>
    BY <1>0, <1>4 DEF CompleteTurn, Fenced, At, Working
  <2>2. /\ turn'.state = "completed" /\ turn'.pending_calls = turn.pending_calls
        /\ turn.state = "running"
        /\ UNCHANGED <<invocations, approvals, asked>>
        /\ runners' = [runners EXCEPT ![r] = Idle]
    BY <1>4 DEF CompleteTurn, Release, Active
  <2> QED BY <1>0, <2>1, <2>2, IdleTyped, PutEffect DEF Active, Linked, At, Current, Idle
<1>5. ASSUME NEW r \in Runner, NEW b \in FreshBatch, ModelCalls(r, b)
      PROVE  Local'
  <2>1. /\ turn.pending_calls = <<>> /\ turn'.pending_calls = b
        /\ turn.state = "running" /\ turn'.state = "running"
        /\ Active(r)
    BY <1>0, <1>5, ModelCallsEffect DEF Fenced, At, Active
  <2>2. \A q \in Runner : Active(q)' => q = r
    BY <1>0, <1>5, <2>1, ModelCallsEffect DEF Active
  <2> QED BY <1>0, <1>5, <2>1, <2>2, ModelCallsEffect, CallsOfEmpty DEF Linked, At, Current
<1>6. ASSUME NEW r \in Runner, CreateToolInvocation(r)
      PROVE  Local'
  <2>1. /\ Working(r) /\ invocations[Current(r)].state = "absent"
        /\ Create(Current(r), "local", None)
        /\ UNCHANGED <<turn, approvals, asked>>
    BY <1>6 DEF CreateToolInvocation, AtLocalCall, Known
  <2>2. PICK pc \in {"dispatch", "approve", "fail"} : Goto(r, pc)
    BY <1>6 DEF CreateToolInvocation
  <2>3. Current(r) \in CallsOf(turn.pending_calls)
    BY <1>0, <2>1, UnsettledIsFirst
  <2>4. \A c \in Call :
            /\ invocations'[c].task = IF c = Current(r) THEN None ELSE invocations[c].task
            /\ invocations'[c].state = IF c = Current(r) THEN "pending"
                                       ELSE invocations[c].state
    BY <1>0, <2>1, CreateEffect
  <2>5. \A q \in Runner :
            /\ runners'[q].calls = runners[q].calls
            /\ runners'[q].task = runners[q].task
            /\ runners'[q].pc = IF q = r THEN pc ELSE runners[q].pc
    BY <1>0, <2>2, GotoEffect
  <2>6. NothingDelegated'
    BY <1>0, <2>4, <2>5 DEF Linked
  <2>7. ApprovalPausesTurn' /\ PauseHasApproval' /\ EndsEmpty'
    BY <2>1
  <2>8. DoneAreSettled'
    <3> SUFFICES ASSUME NEW c \in asked, c \notin CallsOf(turn.pending_calls)
                 PROVE  invocations'[c].state \in Settled
      BY <2>1
    <3>1. invocations[c].state \in Settled /\ c # Current(r)
      BY <2>3
    <3> QED BY <1>0, <2>4, <3>1 DEF TypeOK
  <2>9. CheckpointIsDue'
    <3> SUFFICES ASSUME NEW q \in Runner, Active(q)', At(q, "checkpoint")'
                 PROVE  invocations'[Current(q)'].state \in Settled
      OBVIOUS
    <3>1. q # r /\ runners[q].pc = "checkpoint" /\ Active(q)
      BY <2>1, <2>5 DEF Active, At
    <3>2. Working(q) /\ Current(q)' = Current(q)
      BY <1>0, <2>5, <3>1 DEF AtWork, Current
    <3>3. invocations[Current(q)].state \in Settled
      BY <3>1 DEF At
    <3> QED BY <1>0, <2>1, <2>4, <3>2, <3>3
  <2> QED BY <2>6, <2>7, <2>8, <2>9
<1>7. ASSUME NEW r \in Runner, ReuseToolInvocation(r)
      PROVE  Local'
  <2>1. PICK pc \in {"dispatch", "checkpoint", "fail"} :
            /\ Goto(r, pc)
            /\ pc = "checkpoint" => invocations[Current(r)].state \in Settled
    BY <1>7 DEF ReuseToolInvocation, Settled
  <2> QED BY <1>0, <1>7, <2>1, GotoEffect
          DEF ReuseToolInvocation, Active, Linked, At, Current
<1>8. ASSUME NEW r \in Runner, Dispatch(r)
      PROVE  Local'
  <2>1. PICK pc \in {"complete", "fail"} : Goto(r, pc)
    BY <1>8 DEF Dispatch
  <2> QED BY <1>0, <1>8, <2>1, GotoEffect DEF Dispatch, Active, Linked, At, Current
<1>9. ASSUME NEW r \in Runner,
             \/ FinishToolInvocation(r, "complete", "completed")
             \/ FinishToolInvocation(r, "fail", "failed")
      PROVE  Local'
  <2>1. Working(r) /\ UNCHANGED <<turn, approvals, asked>>
    BY <1>0, <1>9 DEF FinishToolInvocation, AtWork, At
  <2>2. Goto(r, "checkpoint")
    BY <1>0, <1>9 DEF FinishToolInvocation
  <2>3. PICK state \in {"completed", "failed"} : Mark(Current(r), state)
    BY <1>9 DEF FinishToolInvocation
  <2>4. state \in Settled
    BY DEF Settled
  <2>5. \A c \in Call :
            /\ invocations'[c].task = invocations[c].task
            /\ invocations'[c].state = IF c = Current(r) THEN state
                                       ELSE invocations[c].state
    BY <1>0, <2>1, <2>3, <2>4, MarkEffect
  <2>6. \A q \in Runner :
            /\ runners'[q].calls = runners[q].calls
            /\ runners'[q].task = runners[q].task
            /\ runners'[q].pc = IF q = r THEN "checkpoint" ELSE runners[q].pc
    BY <1>0, <2>2, GotoEffect
  <2>7. NothingDelegated'
    BY <1>0, <2>5, <2>6 DEF Linked
  <2>8. ApprovalPausesTurn' /\ PauseHasApproval' /\ EndsEmpty'
    BY <2>1
  <2>9. DoneAreSettled'
    <3> SUFFICES ASSUME NEW c \in asked, c \notin CallsOf(turn.pending_calls)
                 PROVE  invocations'[c].state \in Settled
      BY <2>1
    <3>1. invocations[c].state \in Settled
      OBVIOUS
    <3> QED BY <1>0, <2>4, <2>5, <3>1 DEF TypeOK
  <2>10. CheckpointIsDue'
    <3> SUFFICES ASSUME NEW q \in Runner, Active(q)', At(q, "checkpoint")'
                 PROVE  invocations'[Current(q)'].state \in Settled
      OBVIOUS
    <3>1. Active(q) /\ Current(q)' = Current(q)
      BY <2>1, <2>6 DEF Active, Current
    <3>2. q # r => runners[q].pc = "checkpoint"
      BY <2>6 DEF At
    <3>3. Working(q)
      BY <1>0, <2>1, <3>2 DEF AtWork
    <3>4. q # r => invocations[Current(q)].state \in Settled
      BY <3>1, <3>2 DEF At
    <3> QED BY <1>0, <2>4, <2>5, <3>1, <3>3, <3>4
  <2> QED BY <2>7, <2>8, <2>9, <2>10
<1>10. ASSUME NEW r \in Runner, Checkpoint(r)
       PROVE  Local'
  <2>1. /\ Active(r) /\ At(r, "checkpoint")
        /\ turn.pending_calls = runners[r].calls /\ turn.pending_calls # <<>>
        /\ turn'.pending_calls = Tail(turn.pending_calls)
        /\ turn.state = "running" /\ turn'.state = "running"
    BY <1>0, <1>10, CheckpointEffect DEF Fenced, At, Active, Working
  <2>2. \A q \in Runner : Active(q)' => q = r
    BY <1>10, <2>1, CheckpointEffect DEF Active
  <2>3. invocations[Head(turn.pending_calls)].state \in Settled
    BY <2>1 DEF Current
  <2>4. /\ CallsOf(turn.pending_calls) =
               {Head(turn.pending_calls)} \cup CallsOf(Tail(turn.pending_calls))
    BY <1>0, <2>1, CallsOfParts
  <2>5. DoneAreSettled'
    BY <1>10, <2>1, <2>3, <2>4, CheckpointEffect
  <2> QED BY <1>0, <1>10, <2>1, <2>2, <2>5, CheckpointEffect DEF Linked, At, Current
<1>11. ASSUME NEW r \in Runner, CreateCoordinatorApproval(r)
       PROVE  Local'
  <2>1. /\ Working(r) /\ invocations[Current(r)].state = "pending"
        /\ Mark(Current(r), "awaiting_approval")
        /\ approvals' = [approvals EXCEPT ![Current(r)] = "pending"]
        /\ turn'.state = "paused" /\ turn'.pending_calls = turn.pending_calls
        /\ asked' = asked
        /\ runners' = [runners EXCEPT ![r] = Idle]
    BY <1>0, <1>11 DEF CreateCoordinatorApproval, Release, AtWork, At
  <2>2. /\ turn.pending_calls # <<>>
        /\ Current(r) = Head(turn.pending_calls)
        /\ Current(r) \in CallsOf(turn.pending_calls)
    BY <1>0, <2>1, UnsettledIsFirst
  <2>3. \A c \in Call : approvals'[c] = IF c = Current(r) THEN "pending" ELSE approvals[c]
    BY <1>0, <2>1 DEF TypeOK
  <2>4. \A c \in Call :
            /\ invocations'[c].task = invocations[c].task
            /\ c # Current(r) => invocations'[c].state = invocations[c].state
    BY <1>0, <2>1, MarkEffect
  <2>5. \A q \in Runner : runners'[q] = IF q = r THEN Idle ELSE runners[q]
    BY <1>0, <2>1, IdleTyped, PutEffect
  <2>6. NothingDelegated'
    BY <1>0, <2>4, <2>5 DEF Linked, Idle
  <2>7. ApprovalPausesTurn'
    BY <1>0, <2>1, <2>2, <2>3
  <2>8. PauseHasApproval' /\ EndsEmpty'
    BY <1>0, <2>1, <2>3
  <2>9. DoneAreSettled'
    <3> SUFFICES ASSUME NEW c \in asked, c \notin CallsOf(turn.pending_calls)
                 PROVE  invocations'[c].state \in Settled
      BY <2>1
    <3>1. invocations[c].state \in Settled /\ c # Current(r)
      BY <2>2
    <3> QED BY <1>0, <2>4, <3>1 DEF TypeOK
  <2>10. CheckpointIsDue'
    BY <2>1 DEF Active
  <2> QED BY <2>6, <2>7, <2>8, <2>9, <2>10
<1>12. ASSUME NEW r \in Runner, Stop(r)
       PROVE  Local'
  BY <1>0, <1>12, IdleTyped, PutEffect DEF Stop, Active, Linked, At, Current, Idle
<1>13. ASSUME NEW c \in Call, NEW state \in {"granted", "denied"}, DecideApproval(c, state)
       PROVE  Local'
  <2>1. /\ approvals[c] = "pending"
        /\ turn'.state = "pending" /\ turn'.pending_calls = turn.pending_calls
        /\ UNCHANGED <<runners, asked>>
    BY <1>0, <1>13, TurnEffect DEF DecideApproval
  <2>2. c = Head(turn.pending_calls) /\ c \in CallsOf(turn.pending_calls)
    BY <1>0, <2>1, CallsOfParts
  <2>3. \A d \in Call : approvals'[d] # "pending"
    BY <1>0, <1>13, <2>2 DEF DecideApproval, TypeOK
  <2>4. PICK new \in {"pending", "denied"} : Mark(c, new)
    BY <1>13 DEF DecideApproval
  <2>5. \A d \in Call : /\ invocations'[d].task = invocations[d].task
                        /\ d # c => invocations'[d].state = invocations[d].state
    BY <1>0, <2>4, MarkEffect DEF Settled
  <2> QED BY <1>0, <2>1, <2>2, <2>3, <2>5 DEF Active, Linked, At, TypeOK
<1>14. CASE UNCHANGED <<turn, invocations, approvals, runners, asked>>
  BY <1>14 DEF Active, Linked, At, Current
<1> QED
  BY <1>0, <1>1, <1>2, <1>3, <1>4, <1>5, <1>6, <1>7, <1>8, <1>9, <1>10, <1>11, <1>12,
     <1>13, <1>14, LocalSteps

\* The inductive invariant of local turns.
LEMMA LocalAlways ==
    ASSUME LocalTurn
    PROVE  Spec => [](Typed /\ Grounded /\ Fenced /\ Ordered /\ Local)
<1> DEFINE Inv == Typed /\ Grounded /\ Fenced /\ Ordered /\ Local
<1>1. Init => Inv
  BY TypedInit, OrderedInit, LocalInit DEF Init, Grounded, Linked, Fenced, Active
<1>2. Inv /\ [Next]_vars => Inv'
  BY TypedNext, GroundedNext, FencedNext, OrderedNext, LocalNext
<1> QED BY <1>1, <1>2, PTL DEF Spec

\* While a call is unsettled the turn is neither absent nor answered.
LEMMA UnsettledIsOpen ==
    ASSUME Typed, Ordered, Local, NEW r \in Runner, CreateCoordinatorApproval(r)
    PROVE  turn.state \notin {"absent", "completed"}
<1>1. /\ Working(r)
      /\ invocations[Current(r)].state \notin Settled
  BY DEF CreateCoordinatorApproval, Typed, AtWork, At, Settled
<1> QED BY <1>1, UnsettledIsFirst DEF Local, EndsEmpty

\* An answered local turn never changes again: whatever could still arrive,
\* a late approval or a superseded runner, finds nothing left to act on.
THEOREM AnsweredForGood == LocalTurn => (Spec => AnswerIsFinal)
<1> SUFFICES ASSUME LocalTurn PROVE Spec => AnswerIsFinal
  OBVIOUS
<1>1. ASSUME Typed, Ordered, Local, [Next]_vars, turn.state = "completed"
      PROVE  UNCHANGED turn
  <2>1. NothingDelegated /\ ApprovalPausesTurn /\ StreamRunner = {}
    BY <1>1 DEF Local, LocalTurn
  <2>2. ~CreateTurn /\ ~RunLeaseLapses
    BY <1>1 DEF CreateTurn, RunLeaseLapses
  <2>3. ASSUME NEW r \in Runner
        PROVE  /\ ~ClaimPendingTurn(r) /\ ~CompleteTurn(r) /\ ~Checkpoint(r)
               /\ \A b \in FreshBatch : ~ModelCalls(r, b)
    BY <1>1, <2>1 DEF ClaimPendingTurn, CompleteTurn, Checkpoint, ModelCalls, Active
  <2>4. ASSUME NEW r \in Runner
        PROVE  ~CreateCoordinatorApproval(r)
    BY <1>1, UnsettledIsOpen
  <2>5. ASSUME NEW c \in Call, NEW state
        PROVE  ~DecideApproval(c, state)
    BY <1>1, <2>1 DEF ApprovalPausesTurn, DecideApproval
  <2>6. ASSUME NEW r \in Runner,
               \/ CreateToolInvocation(r) \/ ReuseToolInvocation(r) \/ Dispatch(r)
               \/ FinishToolInvocation(r, "complete", "completed")
               \/ FinishToolInvocation(r, "fail", "failed")
               \/ Stop(r)
        PROVE  UNCHANGED turn
    BY <2>6 DEF CreateToolInvocation, ReuseToolInvocation, Dispatch,
                FinishToolInvocation, Stop
  <2> QED BY <1>1, <2>1, <2>2, <2>3, <2>4, <2>5, <2>6, LocalSteps
<1>2. Typed /\ Ordered /\ Local /\ [Next]_vars =>
          [turn.state = "completed" => UNCHANGED turn]_vars
  BY <1>1
<1> QED BY <1>2, LocalAlways, PTL DEF Spec, AnswerIsFinal

\* When a local turn is answered every call of it has been settled, and no
\* approval is left for an operator to decide.
THEOREM Settles == LocalTurn => (Spec => []AnsweredTurnIsSettled)
<1> SUFFICES ASSUME LocalTurn PROVE Spec => []AnsweredTurnIsSettled
  OBVIOUS
<1>1. Typed /\ Ordered /\ Local => AnsweredTurnIsSettled
  <2> SUFFICES ASSUME Typed, Ordered, Local, turn.state = "completed",
                      NEW c \in asked
               PROVE  invocations[c].state \in Settled /\ approvals[c] # "pending"
    BY DEF AnsweredTurnIsSettled
  <2>1. c \in Call /\ c \notin CallsOf(turn.pending_calls)
    BY CallsOfEmpty DEF Typed, TypeOK, Local, EndsEmpty
  <2> QED BY <2>1 DEF Local, DoneAreSettled, ApprovalPausesTurn
<1> QED BY <1>1, LocalAlways, PTL

\* A paused local turn always has an approval that an operator can decide.
THEOREM NeverStranded == LocalTurn => (Spec => []PausedHasWaker)
<1> SUFFICES ASSUME LocalTurn PROVE Spec => []PausedHasWaker
  OBVIOUS
<1>1. Local => PausedHasWaker
  BY DEF Local, PauseHasApproval, PausedHasWaker, HasWaker
<1> QED BY <1>1, LocalAlways, PTL
-----------------------------------------------------------------------------
(* Local turns implement the tool loop.                                     *)

\* Phase by the state of the turn.
LEMMA PhaseOf ==
    /\ turn.state = "absent" => Phase = "absent"
    /\ turn.state = "completed" => Phase = "answered"
    /\ turn.state \notin {"absent", "completed"} => Phase = "open"
BY DEF Phase

\* PhaseOf in the next state.
LEMMA PhaseNext ==
    /\ turn'.state = "absent" => Phase' = "absent"
    /\ turn'.state = "completed" => Phase' = "answered"
    /\ turn'.state \notin {"absent", "completed"} => Phase' = "open"
BY DEF Phase

\* Every step of a local turn is a step of the loop or leaves it alone.
LEMMA LoopStep ==
    ASSUME LocalTurn, Typed, Grounded, Fenced, Ordered, Local, [Next]_vars
    PROVE  [Loops!Next]_(Loops!vars)
<1>0. /\ TypeOK /\ NothingDelegated /\ ApprovalPausesTurn
      /\ StreamRunner = {} /\ turn.pending_calls \in Seq(Call)
  BY TurnTyped DEF Typed, Local, LocalTurn
<1> DEFINE Same == Phase' = Phase /\ UNCHANGED <<turn.pending_calls, asked>>
<1>1. CASE CreateTurn
  <2>1. /\ turn.state = "absent" /\ turn'.state = "pending"
        /\ turn'.pending_calls = turn.pending_calls /\ asked' = asked
    BY <1>0, <1>1, TurnEffect DEF CreateTurn
  <2>2. Loops!Open
    BY <2>1, PhaseOf, PhaseNext DEF Loops!Open
  <2> QED BY <2>2 DEF Loops!Next
<1>2. CASE RunLeaseLapses
  <2>1. Same
    BY <1>0, <1>2, TurnEffect, PhaseOf, PhaseNext DEF RunLeaseLapses
  <2> QED BY <2>1 DEF Loops!vars
<1>3. ASSUME NEW r \in Runner, ClaimPendingTurn(r)
      PROVE  Same
  <2>1. /\ turn.state \in {"pending", "running"} /\ turn'.state = "running"
        /\ turn'.pending_calls = turn.pending_calls /\ asked' = asked
    BY <1>3 DEF ClaimPendingTurn, Claim
  <2> QED BY <2>1, PhaseOf, PhaseNext
<1>4. ASSUME NEW r \in Runner, CompleteTurn(r)
      PROVE  Loops!Answer
  <2>1. /\ turn.state = "running" /\ turn'.state = "completed"
        /\ turn'.pending_calls = turn.pending_calls /\ asked' = asked
    BY <1>4 DEF CompleteTurn, Release, Active
  <2>2. turn.pending_calls = <<>>
    BY <1>0, <1>4 DEF CompleteTurn, Fenced, At, Working
  <2> QED BY <2>1, <2>2, PhaseOf, PhaseNext DEF Loops!Answer
<1>5. ASSUME NEW r \in Runner, NEW b \in FreshBatch, ModelCalls(r, b)
      PROVE  Loops!Ask(b)
  <2>1. /\ turn.pending_calls = <<>> /\ turn'.pending_calls = b
        /\ turn.state = "running" /\ turn'.state = "running"
    BY <1>0, <1>5, ModelCallsEffect DEF Fenced, At, Active
  <2>2. asked' = asked \cup CallsOf(b) /\ CallsOf(b) \cap asked = {}
    BY <1>5, FreshCalls DEF ModelCalls
  <2> QED BY <2>1, <2>2, PhaseOf, PhaseNext DEF Loops!Ask, Loops!CallsOf, CallsOf
<1>6. ASSUME NEW r \in Runner, Checkpoint(r)
      PROVE  Loops!Settle
  <2>1. /\ turn.pending_calls # <<>>
        /\ turn'.pending_calls = Tail(turn.pending_calls)
        /\ turn.state = "running" /\ turn'.state = "running" /\ asked' = asked
    BY <1>0, <1>6, CheckpointEffect DEF Fenced, At, Active, Working
  <2> QED BY <2>1, PhaseOf, PhaseNext DEF Loops!Settle
<1>7. ASSUME NEW r \in Runner, CreateCoordinatorApproval(r)
      PROVE  Same
  <2>1. /\ turn'.state = "paused" /\ turn'.pending_calls = turn.pending_calls
        /\ asked' = asked
    BY <1>7 DEF CreateCoordinatorApproval, Release
  <2>2. turn.state \notin {"absent", "completed"}
    BY <1>7, UnsettledIsOpen
  <2> QED BY <2>1, <2>2, PhaseOf, PhaseNext
<1>8. ASSUME NEW c \in Call, NEW state \in {"granted", "denied"}, DecideApproval(c, state)
      PROVE  Same
  <2>1. /\ turn.state = "paused" /\ turn'.state = "pending"
        /\ turn'.pending_calls = turn.pending_calls /\ asked' = asked
    BY <1>0, <1>8, TurnEffect DEF DecideApproval, ApprovalPausesTurn
  <2> QED BY <2>1, PhaseOf, PhaseNext
<1>9. ASSUME NEW r \in Runner,
             \/ CreateToolInvocation(r) \/ ReuseToolInvocation(r) \/ Dispatch(r)
             \/ FinishToolInvocation(r, "complete", "completed")
             \/ FinishToolInvocation(r, "fail", "failed")
             \/ Stop(r)
      PROVE  Same
  BY <1>9 DEF CreateToolInvocation, ReuseToolInvocation, Dispatch,
              FinishToolInvocation, Stop, Phase
<1>10. CASE UNCHANGED <<turn, invocations, approvals, runners, asked>>
  BY <1>10 DEF Phase, Loops!vars
<1>11. ASSUME Same PROVE [Loops!Next]_(Loops!vars)
  BY <1>11 DEF Loops!vars
<1>12. FreshBatch \subseteq Batch
  BY DEF FreshBatch
<1> HIDE DEF Same
<1> QED
  BY <1>0, <1>1, <1>2, <1>3, <1>4, <1>5, <1>6, <1>7, <1>8, <1>9, <1>10, <1>11, <1>12,
     LocalSteps DEF Loops!Next

\* For a local turn the runners, leases, crashes and approvals amount to the
\* plain tool loop: every call is settled once, in order, before one answer.
THEOREM RefinesToolLoop == LocalTurn => (Spec => ImplementsToolLoop)
<1> SUFFICES ASSUME LocalTurn PROVE Spec => ImplementsToolLoop
  OBVIOUS
<1>1. Init => Loops!Init
  BY PhaseOf DEF Init, Loops!Init
<1>2. /\ Typed /\ Grounded /\ Fenced /\ Ordered /\ Local /\ [Next]_vars
      => [Loops!Next]_(Loops!vars)
  BY LoopStep
<1> QED BY <1>1, <1>2, LocalAlways, PTL DEF Spec, ImplementsToolLoop, Loops!Spec
=============================================================================
