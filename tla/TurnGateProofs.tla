--------------------------- MODULE TurnGateProofs ---------------------------
(***************************************************************************)
(* More proofs about TurnLifecycle, all of them for turns of every kind,    *)
(* streamed and delegated ones included: what becomes of approvals, by      *)
(* which step alone a gated call runs without a grant, and by which step    *)
(* alone a turn is paused with nobody to wake it.                           *)
(***************************************************************************)
EXTENDS TurnLifecycleProofs
-----------------------------------------------------------------------------
(* The steps of a runner.                                                   *)

OwnStep(r) ==
    \/ ClaimPendingTurn(r) \/ ClaimTurn(r) \/ CompleteTurn(r)
    \/ \E b \in FreshBatch : ModelCalls(r, b)
    \/ CreateToolInvocation(r) \/ ReuseToolInvocation(r) \/ Dispatch(r)
    \/ FinishToolInvocation(r, "complete", "completed")
    \/ FinishToolInvocation(r, "fail", "failed")
    \/ Checkpoint(r) \/ CreateCoordinatorApproval(r)
    \/ SkipDelegation(r) \/ TakeResult(r) \/ WaitForResult(r)
    \/ CreateHostInvocation(r) \/ \E k \in Task : AddTask(r, k)
    \/ LinkTask(r) \/ PauseTurn(r) \/ Stop(r)

\* A step is one of the environment, which leaves the runners alone, or a
\* runner's own.
LEMMA WhoseStep ==
    ASSUME [Next]_vars
    PROVE  \/ UNCHANGED runners
           \/ \E r \in Runner : OwnStep(r)
BY DEF Next, OwnStep, CreateTurn, RunLeaseLapses, DecideApproval, FinishTask,
       LeaseAgain, vars

\* A runner's own step leaves the others alone.
LEMMA OthersStay ==
    ASSUME Typed, NEW r \in Runner, OwnStep(r),
           NEW q \in Runner, q # r
    PROVE  runners'[q] = runners[q]
<1>0. runners \in [Runner -> RunnerState]
  BY DEF Typed, TypeOK
<1>1. ASSUME NEW state, runners' = [runners EXCEPT ![r] = state]
      PROVE  runners'[q] = runners[q]
  BY <1>0, <1>1
<1>2. ASSUME NEW pc, Goto(r, pc)
      PROVE  runners'[q] = runners[q]
  BY <1>0, <1>2 DEF Goto
<1>3. ASSUME NEW calls, NEW known, Loop(r, calls, known)
      PROVE  runners'[q] = runners[q]
  BY <1>1, <1>3 DEF Loop
<1>4. CASE ClaimPendingTurn(r) \/ ClaimTurn(r)
  BY <1>3, <1>4 DEF ClaimPendingTurn, ClaimTurn, Claim
<1>5. CASE CompleteTurn(r) \/ PauseTurn(r) \/ Stop(r)
  BY <1>1, <1>5 DEF CompleteTurn, PauseTurn, Stop
<1>6. CASE Checkpoint(r) \/ \E b \in FreshBatch : ModelCalls(r, b)
  BY <1>3, <1>6 DEF Checkpoint, ModelCalls
<1>7. CASE CreateToolInvocation(r) \/ ReuseToolInvocation(r) \/ Dispatch(r)
  BY <1>2, <1>7 DEF CreateToolInvocation, ReuseToolInvocation, Dispatch
<1>8. CASE \/ FinishToolInvocation(r, "complete", "completed")
           \/ FinishToolInvocation(r, "fail", "failed")
           \/ LinkTask(r)
  BY <1>2, <1>8 DEF FinishToolInvocation, LinkTask
<1>9. CASE CreateCoordinatorApproval(r)
  BY <1>0, <1>9 DEF CreateCoordinatorApproval
<1>10. CASE SkipDelegation(r) \/ TakeResult(r) \/ WaitForResult(r) \/ CreateHostInvocation(r)
  BY <1>2, <1>10 DEF SkipDelegation, TakeResult, WaitForResult, CreateHostInvocation
<1>11. CASE \E k \in Task : AddTask(r, k)
  BY <1>1, <1>11 DEF AddTask
<1> QED BY <1>4, <1>5, <1>6, <1>7, <1>8, <1>9, <1>10, <1>11 DEF OwnStep

\* By which steps a runner comes to ask for an approval, to execute a tool, to
\* link a task and to pause the turn; it keeps its calls on the way.
LEMMA Entries ==
    ASSUME Typed, NEW r \in Runner, OwnStep(r)
    PROVE  /\ At(r, "approve")' =>
                 \/ CreateToolInvocation(r) /\ Current(r) \in GatedCall
                 \/ CreateHostInvocation(r)
           /\ At(r, "dispatch")' =>
                 \/ CreateToolInvocation(r) /\ Current(r) \in LocalCall
                 \/ /\ ReuseToolInvocation(r)
                    /\ invocations[Current(r)].state # "denied"
                    /\ Current(r) \notin Delegated
           /\ At(r, "link")' =>
                 \/ \E k \in Task : AddTask(r, k)
                 \/ /\ \/ FinishToolInvocation(r, "complete", "completed")
                       \/ FinishToolInvocation(r, "fail", "failed")
                    /\ runners[r].task # None
           /\ At(r, "pause")' =>
                 \/ WaitForResult(r) \/ LinkTask(r)
                 \/ CreateCoordinatorApproval(r) /\ Current(r) \in HostCall
           /\ ~(At(r, "idle") \/ At(r, "loop"))' =>
                 runners'[r].calls = runners[r].calls
<1>0. TypeOK /\ runners \in [Runner -> RunnerState]
  BY DEF Typed, TypeOK
<1>1. CASE \/ ClaimPendingTurn(r) \/ ClaimTurn(r) \/ Checkpoint(r)
           \/ \E b \in FreshBatch : ModelCalls(r, b)
  BY <1>0, <1>1, ClaimEffect, CheckpointEffect, ModelCallsEffect DEF At
<1>2. CASE CompleteTurn(r) \/ PauseTurn(r) \/ Stop(r)
  <2>1. runners'[r].pc = "idle"
    BY <1>0, <1>2, PutEffect, IdleTyped DEF CompleteTurn, PauseTurn, Stop, Idle
  <2> QED BY <2>1 DEF At
<1>3. CASE CreateToolInvocation(r)
  BY <1>0, <1>3, GotoEffect DEF CreateToolInvocation, At
<1>4. CASE ReuseToolInvocation(r)
  <2>1. PICK pc \in {"checkpoint", "fail", "dispatch"} :
            /\ Goto(r, pc)
            /\ pc = "dispatch" => /\ invocations[Current(r)].state # "denied"
                                  /\ Current(r) \notin Delegated
    BY <1>4 DEF ReuseToolInvocation
  <2>2. runners'[r].pc = pc /\ runners'[r].calls = runners[r].calls
    BY <1>0, <2>1, GotoEffect
  <2> QED BY <1>4, <2>1, <2>2 DEF At
<1>5. CASE Dispatch(r) \/ SkipDelegation(r) \/ TakeResult(r) \/ WaitForResult(r)
  BY <1>0, <1>5, GotoEffect DEF Dispatch, SkipDelegation, TakeResult, WaitForResult, At
<1>6. CASE \/ FinishToolInvocation(r, "complete", "completed")
           \/ FinishToolInvocation(r, "fail", "failed")
  <2>1. PICK pc \in {"link", "checkpoint"} :
            Goto(r, pc) /\ (pc = "link" => runners[r].task # None)
    BY <1>6 DEF FinishToolInvocation
  <2>2. runners'[r].pc = pc /\ runners'[r].calls = runners[r].calls
    BY <1>0, <2>1, GotoEffect
  <2> QED BY <1>6, <2>1, <2>2 DEF At
<1>7. CASE CreateCoordinatorApproval(r)
  <2>1. \/ Current(r) \in HostCall /\ Goto(r, "pause")
        \/ runners' = [runners EXCEPT ![r] = Idle]
    BY <1>7 DEF CreateCoordinatorApproval, Goto
  <2>2. CASE Current(r) \in HostCall /\ Goto(r, "pause")
    BY <1>0, <1>7, <2>2, GotoEffect DEF At
  <2>3. CASE runners' = [runners EXCEPT ![r] = Idle]
    BY <1>0, <2>3, PutEffect, IdleTyped DEF Idle, At
  <2> QED BY <2>1, <2>2, <2>3
<1>8. CASE CreateHostInvocation(r) \/ LinkTask(r)
  BY <1>0, <1>8, GotoEffect DEF CreateHostInvocation, LinkTask, At
<1>9. CASE \E k \in Task : AddTask(r, k)
  <2>1. runners'[r].calls = runners[r].calls /\ runners'[r].pc \in {"complete", "link"}
    BY <1>0, <1>9 DEF AddTask
  <2> QED BY <1>9, <2>1 DEF At
<1> QED BY <1>1, <1>2, <1>3, <1>4, <1>5, <1>6, <1>7, <1>8, <1>9 DEF OwnStep
-----------------------------------------------------------------------------
(* The rows of a call.                                                      *)

KeepsRow(c) == invocations'[c] = invocations[c] /\ approvals'[c] = approvals[c]
KeepsLink(c) == /\ invocations'[c].task = invocations[c].task
                /\ invocations'[c].target = invocations[c].target

\* What a step does to the invocation and the approval of call c.
Created(c) == \E r \in Runner :
    /\ Working(r) /\ Current(r) = c
    /\ ~Known(c) /\ invocations'[c].state = "pending"
    /\ approvals'[c] = approvals[c]
    /\ \/ /\ CreateToolInvocation(r)
          /\ invocations'[c].target = "local" /\ invocations'[c].task = None
       \/ /\ CreateHostInvocation(r)
          /\ invocations'[c].target = "ara" /\ invocations'[c].task = None
       \/ /\ LinkTask(r)
          /\ invocations'[c].target = "ara" /\ invocations'[c].task = runners[r].task
Concluded(c) == \E r \in Runner :
    /\ Working(r) /\ Current(r) = c
    /\ \/ /\ FinishToolInvocation(r, "complete", "completed")
          /\ invocations'[c].state = "completed"
       \/ /\ FinishToolInvocation(r, "fail", "failed")
          /\ invocations'[c].state = "failed"
    /\ invocations[c].state \in Settled => invocations'[c].state = invocations[c].state
    /\ approvals'[c] = approvals[c] /\ KeepsLink(c)
AskedFor(c) == \E r \in Runner :
    /\ Working(r) /\ Current(r) = c /\ CreateCoordinatorApproval(r)
    /\ invocations[c].state = "pending" /\ invocations'[c].state = "awaiting_approval"
    /\ approvals'[c] = "pending" /\ KeepsLink(c)
Decided(c) ==
    /\ approvals[c] = "pending"
    /\ \/ approvals'[c] = "granted" /\ invocations'[c].state = "pending"
       \/ approvals'[c] = "denied" /\ invocations'[c].state = "denied"
    /\ KeepsLink(c)
    /\ turn'.state = "pending"
FinishedWith(c) == \E k \in Task, state \in Finished :
    /\ FinishTask(k, state)
    /\ invocations[c].task = k /\ invocations'[c].state = state
    /\ approvals'[c] = approvals[c] /\ KeepsLink(c)

RowStep(c) == \/ KeepsRow(c) \/ Created(c) \/ Concluded(c) \/ AskedFor(c)
              \/ Decided(c) \/ FinishedWith(c)

\* Marking and creating change one row, and marking keeps its link.
LEMMA MarkKeeps ==
    ASSUME TypeOK, NEW c \in Call, NEW state, Mark(c, state)
    PROVE  /\ invocations'[c].state = state /\ KeepsLink(c)
           /\ \A d \in Call : d # c => invocations'[d] = invocations[d]
<1>1. invocations \in [Call -> InvocationRow]
  BY DEF TypeOK
<1>2. invocations' = [invocations EXCEPT ![c] = [invocations[c] EXCEPT !.state = state]]
  BY DEF Mark
<1>3. /\ [invocations[c] EXCEPT !.state = state].state = state
      /\ [invocations[c] EXCEPT !.state = state].task = invocations[c].task
      /\ [invocations[c] EXCEPT !.state = state].target = invocations[c].target
  BY <1>1 DEF InvocationRow
<1> QED BY <1>1, <1>2, <1>3 DEF KeepsLink

\* Creating makes one row.
LEMMA CreateMakes ==
    ASSUME TypeOK, NEW c \in Call, NEW target, NEW task, Create(c, target, task)
    PROVE  /\ invocations'[c].state = "pending"
           /\ invocations'[c].target = target /\ invocations'[c].task = task
           /\ \A d \in Call : d # c => invocations'[d] = invocations[d]
<1>1. invocations \in [Call -> InvocationRow]
  BY DEF TypeOK
<1> QED BY <1>1 DEF Create

\* These are all the ways in which the rows of a call change.
LEMMA RowSteps ==
    ASSUME Typed, [Next]_vars, NEW c \in Call
    PROVE  RowStep(c)
<1>0. TypeOK /\ AtWork
  BY DEF Typed
<1> USE <1>0
<1>1. CASE UNCHANGED <<invocations, approvals>>
  BY <1>1 DEF RowStep, KeepsRow
<1>2. ASSUME NEW r \in Runner, CreateToolInvocation(r) \/ CreateHostInvocation(r)
      PROVE  RowStep(c)
  <2>1. /\ Working(r) /\ Current(r) \in Call /\ ~Known(Current(r))
        /\ approvals' = approvals
    BY <1>2, CurrentIsCall DEF CreateToolInvocation, CreateHostInvocation,
                               AtLocalCall, AtDelegation
  <2>2. CASE c # Current(r)
    BY <1>2, <2>1, <2>2, CreateMakes
       DEF CreateToolInvocation, CreateHostInvocation, RowStep, KeepsRow
  <2>3. CASE c = Current(r) /\ CreateToolInvocation(r)
    <3>1. Create(c, "local", None)
      BY <2>3 DEF CreateToolInvocation
    <3> QED BY <2>1, <2>3, <3>1, CreateMakes DEF RowStep, Created
  <2>4. CASE c = Current(r) /\ CreateHostInvocation(r)
    <3>1. Create(c, "ara", None)
      BY <2>4 DEF CreateHostInvocation
    <3> QED BY <2>1, <2>4, <3>1, CreateMakes DEF RowStep, Created
  <2> QED BY <1>2, <2>2, <2>3, <2>4
<1>3. ASSUME NEW r \in Runner, LinkTask(r)
      PROVE  RowStep(c)
  <2>1. Working(r) /\ Current(r) \in Call /\ approvals' = approvals
    BY <1>3, CurrentIsCall DEF LinkTask, AtWork, At
  <2>2. CASE Known(Current(r))
    BY <1>3, <2>1, <2>2 DEF LinkTask, RowStep, KeepsRow
  <2>3. CASE ~Known(Current(r))
    <3>1. Create(Current(r), "ara", runners[r].task)
      BY <1>3, <2>3 DEF LinkTask
    <3>2. CASE c # Current(r)
      BY <2>1, <3>1, <3>2, CreateMakes DEF RowStep, KeepsRow
    <3>3. CASE c = Current(r)
      BY <1>3, <2>1, <2>3, <3>1, <3>3, CreateMakes DEF RowStep, Created
    <3> QED BY <3>2, <3>3
  <2> QED BY <2>2, <2>3
<1>4. ASSUME NEW r \in Runner,
             \/ FinishToolInvocation(r, "complete", "completed")
             \/ FinishToolInvocation(r, "fail", "failed")
      PROVE  RowStep(c)
  <2>1. Working(r) /\ Current(r) \in Call /\ approvals' = approvals
    BY <1>4, CurrentIsCall DEF FinishToolInvocation, AtWork, At
  <2>2. CASE c # Current(r)
    BY <1>4, <2>1, <2>2, MarkKeeps DEF FinishToolInvocation, RowStep, KeepsRow
  <2>3. CASE c = Current(r)
    <3>1. ASSUME FinishToolInvocation(r, "complete", "completed")
          PROVE  Concluded(c)
      BY <2>1, <2>3, <3>1, MarkKeeps DEF FinishToolInvocation, Concluded
    <3>2. ASSUME FinishToolInvocation(r, "fail", "failed")
          PROVE  Concluded(c)
      BY <2>1, <2>3, <3>2, MarkKeeps DEF FinishToolInvocation, Concluded
    <3> QED BY <1>4, <3>1, <3>2 DEF RowStep
  <2> QED BY <2>2, <2>3
<1>5. ASSUME NEW r \in Runner, CreateCoordinatorApproval(r)
      PROVE  RowStep(c)
  <2>1. Working(r) /\ Current(r) \in Call
    BY <1>5, CurrentIsCall DEF CreateCoordinatorApproval, AtWork, At
  <2>2. approvals' = [approvals EXCEPT ![Current(r)] = "pending"]
    BY <1>5 DEF CreateCoordinatorApproval
  <2>3. /\ approvals'[Current(r)] = "pending"
        /\ \A d \in Call : d # Current(r) => approvals'[d] = approvals[d]
    BY <2>1, <2>2 DEF TypeOK
  <2>4. CASE c # Current(r)
    BY <1>5, <2>1, <2>3, <2>4, MarkKeeps DEF CreateCoordinatorApproval, RowStep, KeepsRow
  <2>5. CASE c = Current(r)
    BY <1>5, <2>1, <2>3, <2>5, MarkKeeps DEF CreateCoordinatorApproval, RowStep, AskedFor
  <2> QED BY <2>4, <2>5
<1>6. ASSUME NEW d \in Call, NEW state \in {"granted", "denied"}, DecideApproval(d, state)
      PROVE  RowStep(c)
  <2>1. approvals[d] = "pending" /\ approvals' = [approvals EXCEPT ![d] = state]
    BY <1>6 DEF DecideApproval
  <2>2. approvals'[d] = state /\ \A e \in Call : e # d => approvals'[e] = approvals[e]
    BY <2>1 DEF TypeOK
  <2>3. CASE c # d
    BY <1>6, <2>2, <2>3, MarkKeeps DEF DecideApproval, RowStep, KeepsRow
  <2>4. CASE c = d
    <3>1. Mark(c, IF state = "granted" THEN "pending" ELSE "denied") /\ turn'.state = "pending"
      BY <1>6, <2>4, TurnEffect DEF DecideApproval
    <3> QED BY <2>1, <2>2, <2>4, <3>1, MarkKeeps DEF RowStep, Decided
  <2> QED BY <2>3, <2>4
<1>7. ASSUME NEW k \in Task, NEW state \in Finished, FinishTask(k, state)
      PROVE  RowStep(c)
  <2>1. /\ [invocations[c] EXCEPT !.state = state].state = state
        /\ [invocations[c] EXCEPT !.state = state].task = invocations[c].task
        /\ [invocations[c] EXCEPT !.state = state].target = invocations[c].target
    BY DEF TypeOK, InvocationRow
  <2>2. /\ approvals' = approvals
        /\ invocations'[c] = IF invocations[c].task = k
                             THEN [invocations[c] EXCEPT !.state = state]
                             ELSE invocations[c]
    BY <1>7 DEF FinishTask
  <2> QED BY <1>7, <2>1, <2>2 DEF RowStep, KeepsRow, FinishedWith, KeepsLink
<1>8. ASSUME NEW r \in Runner,
             \/ ClaimPendingTurn(r) \/ ClaimTurn(r) \/ CompleteTurn(r)
             \/ \E b \in FreshBatch : ModelCalls(r, b)
             \/ ReuseToolInvocation(r) \/ Dispatch(r) \/ Checkpoint(r)
             \/ SkipDelegation(r) \/ TakeResult(r) \/ WaitForResult(r)
             \/ \E k \in Task : AddTask(r, k)
             \/ PauseTurn(r) \/ Stop(r)
      PROVE  UNCHANGED <<invocations, approvals>>
  BY <1>8
     DEF ClaimPendingTurn, ClaimTurn, Claim, CompleteTurn, ModelCalls,
         ReuseToolInvocation, Dispatch, Checkpoint, SkipDelegation, TakeResult,
         WaitForResult, AddTask, PauseTurn, Stop
<1> QED
  BY <1>1, <1>2, <1>3, <1>4, <1>5, <1>6, <1>7, <1>8
     DEF Next, CreateTurn, RunLeaseLapses, LeaseAgain, vars
-----------------------------------------------------------------------------
(* Approvals.                                                               *)

\* A runner that is about to ask for an approval is the only one to do so, for
\* an invocation that is not linked to a task and that nobody asked about.
OneAsker == \A r \in Runner : At(r, "approve") =>
    /\ approvals[Current(r)] = "absent"
    /\ Known(Current(r)) /\ ~Linked(Current(r))
    /\ \A q \in Runner : At(q, "approve") /\ Current(q) = Current(r) => q = r
AskedAreUnlinked == \A c \in Call : approvals[c] # "absent" => ~Linked(c)
DeniedAreDenied == \A c \in Call :
    approvals[c] = "denied" => invocations[c].state = "denied"
GateOrder == OneAsker /\ AskedAreUnlinked /\ DeniedAreDenied

\* A runner comes to ask only about an invocation that it has just created.
LEMMA NewAsker ==
    ASSUME Typed, [Next]_vars, NEW r \in Runner, At(r, "approve")'
    PROVE  /\ Working(r) /\ Current(r)' = Current(r) /\ Current(r) \in Call
           /\ \/ At(r, "approve") /\ UNCHANGED runners[r]
              \/ /\ ~Known(Current(r))
                 /\ Created(Current(r))
                 /\ invocations'[Current(r)].task = None
                 /\ \A q \in Runner : q # r => UNCHANGED runners[q]
<1>0. TypeOK /\ AtWork
  BY DEF Typed
<1>1. CASE UNCHANGED runners[r]
  <2>1. At(r, "approve") /\ Working(r) /\ Current(r)' = Current(r)
    BY <1>0, <1>1 DEF At, AtWork, Current
  <2> QED BY <1>0, <1>1, <2>1, CurrentIsCall
<1>2. CASE OwnStep(r)
  <2>1. /\ CreateToolInvocation(r) \/ CreateHostInvocation(r)
        /\ runners'[r].calls = runners[r].calls
    BY <1>2, Entries DEF At
  <2>2. Working(r) /\ ~Known(Current(r))
    BY <2>1 DEF CreateToolInvocation, CreateHostInvocation, AtLocalCall, AtDelegation
  <2>3. Current(r) \in Call /\ Current(r)' = Current(r)
    BY <1>0, <2>1, <2>2, CurrentIsCall DEF Current
  <2>4. \E target \in {"local", "ara"} : Create(Current(r), target, None)
    BY <2>1 DEF CreateToolInvocation, CreateHostInvocation
  <2>5. invocations'[Current(r)].task = None
    BY <1>0, <2>3, <2>4, CreateMakes
  <2>6. Created(Current(r))
    <3>1. CASE CreateToolInvocation(r)
      <4>1. Create(Current(r), "local", None) /\ approvals' = approvals
        BY <3>1 DEF CreateToolInvocation
      <4> QED BY <1>0, <2>2, <2>3, <3>1, <4>1, CreateMakes DEF Created
    <3>2. CASE CreateHostInvocation(r)
      <4>1. Create(Current(r), "ara", None) /\ approvals' = approvals
        BY <3>2 DEF CreateHostInvocation
      <4> QED BY <1>0, <2>2, <2>3, <3>2, <4>1, CreateMakes DEF Created
    <3> QED BY <2>1, <3>1, <3>2
  <2> QED BY <1>2, <2>2, <2>3, <2>5, <2>6, OthersStay
<1> QED
  <2>1. UNCHANGED runners[r] \/ OwnStep(r)
    BY WhoseStep, OthersStay
  <2> QED BY <1>1, <1>2, <2>1

\* A runner that has asked for the approval asks no more.
LEMMA AskerLeaves ==
    ASSUME Typed, NEW r \in Runner, CreateCoordinatorApproval(r)
    PROVE  ~At(r, "approve")'
<1>1. OwnStep(r) /\ At(r, "approve")
  BY DEF OwnStep, CreateCoordinatorApproval
<1>2. ~CreateToolInvocation(r) /\ ~CreateHostInvocation(r)
  BY <1>1 DEF CreateToolInvocation, CreateHostInvocation, AtLocalCall, AtDelegation, At
<1> QED BY <1>1, <1>2, Entries

\* What a step does to the rows of a call that some runner asks about, before
\* and after the step.
LEMMA AskerKeeps ==
    ASSUME Typed, Grounded, GateOrder, [Next]_vars, NEW r \in Runner,
           At(r, "approve"), At(r, "approve")', UNCHANGED runners[r], Current(r) \in Call
    PROVE  /\ approvals'[Current(r)] = "absent"
           /\ Known(Current(r))' /\ ~Linked(Current(r))'
<1> DEFINE c == Current(r)
<1>1. /\ c \in Call /\ approvals[c] = "absent" /\ Known(c) /\ ~Linked(c)
      /\ \A q \in Runner : At(q, "approve") /\ Current(q) = c => q = r
  BY DEF GateOrder, OneAsker
<1>2. c' = c
  BY DEF Current
<1> HIDE DEF c
<1>3. KeepsRow(c) \/ Concluded(c) \/ AskedFor(c) \/ Decided(c) \/ FinishedWith(c)
  BY <1>1, RowSteps DEF RowStep, Created
<1>4. ~AskedFor(c)
  BY <1>1, AskerLeaves DEF AskedFor, CreateCoordinatorApproval
<1>5. approvals'[c] = "absent" /\ invocations'[c].state # "absent"
      /\ invocations'[c].task = None
  BY <1>1, <1>3, <1>4
     DEF KeepsRow, Concluded, Decided, FinishedWith, KeepsLink, Known, Linked, Finished
<1> QED BY <1>2, <1>5 DEF Known, Linked, c

\* Nobody asks about a call twice, and a denied call is not touched again.
LEMMA GateOrderNext ==
    Typed /\ Grounded /\ GateOrder /\ [Next]_vars => GateOrder'
<1> SUFFICES ASSUME Typed, Grounded, GateOrder, [Next]_vars
             PROVE  GateOrder'
  OBVIOUS
<1>1. OneAsker'
  <2> SUFFICES ASSUME NEW r \in Runner, At(r, "approve")'
               PROVE  /\ approvals'[Current(r)'] = "absent"
                      /\ Known(Current(r))' /\ ~Linked(Current(r))'
                      /\ \A q \in Runner :
                            At(q, "approve")' /\ Current(q)' = Current(r)' => q = r
    BY DEF OneAsker
  <2>1. Current(r) \in Call /\ Current(r)' = Current(r)
    BY NewAsker
  <2>2. CASE At(r, "approve") /\ UNCHANGED runners[r]
    <3>1. /\ approvals'[Current(r)'] = "absent"
          /\ Known(Current(r))' /\ ~Linked(Current(r))'
      BY <2>1, <2>2, AskerKeeps
    <3>2. ASSUME NEW q \in Runner, At(q, "approve")', Current(q)' = Current(r)'
          PROVE  q = r
      <4>1. Known(Current(r))
        BY <2>2 DEF GateOrder, OneAsker
      <4>2. Current(q) = Current(r) /\ At(q, "approve")
        BY <2>1, <3>2, <4>1, NewAsker
      <4> QED BY <2>2, <4>2 DEF GateOrder, OneAsker
    <3> QED BY <3>1, <3>2
  <2>3. CASE ~(At(r, "approve") /\ UNCHANGED runners[r])
    <3>1. /\ ~Known(Current(r)) /\ Created(Current(r))
          /\ invocations'[Current(r)].task = None
          /\ \A q \in Runner : q # r => UNCHANGED runners[q]
      BY <2>3, NewAsker
    <3>2. /\ approvals'[Current(r)] = "absent"
          /\ invocations'[Current(r)].state = "pending"
      BY <2>1, <3>1 DEF Created, Grounded
    <3>3. /\ approvals'[Current(r)'] = "absent"
          /\ Known(Current(r))' /\ ~Linked(Current(r))'
      BY <2>1, <3>1, <3>2 DEF Known, Linked
    <3>4. ASSUME NEW q \in Runner, At(q, "approve")', Current(q)' = Current(r)', q # r
          PROVE  FALSE
      <4>1. At(q, "approve") /\ Current(q) = Current(r)
        BY <2>1, <3>1, <3>4 DEF At, Current
      <4> QED BY <3>1, <4>1 DEF GateOrder, OneAsker
    <3> QED BY <3>3, <3>4
  <2> QED BY <2>2, <2>3
<1>2. ASSUME NEW c \in Call
      PROVE  /\ approvals'[c] # "absent" => invocations'[c].task = None
             /\ approvals'[c] = "denied" => invocations'[c].state = "denied"
  <2>1. /\ approvals[c] # "absent" => invocations[c].task = None /\ Known(c)
        /\ approvals[c] = "denied" => invocations[c].state = "denied"
    BY DEF GateOrder, AskedAreUnlinked, DeniedAreDenied, Linked, Grounded
  <2>2. CASE KeepsRow(c) \/ Created(c)
    BY <2>1, <2>2 DEF KeepsRow, Created
  <2>3. CASE Concluded(c)
    BY <2>1, <2>3 DEF Concluded, KeepsLink, Settled
  <2>4. CASE AskedFor(c)
    <3>1. ~Linked(c)
      BY <2>4 DEF AskedFor, CreateCoordinatorApproval, GateOrder, OneAsker
    <3> QED BY <2>4, <3>1 DEF AskedFor, KeepsLink, Linked
  <2>5. CASE Decided(c)
    BY <2>1, <2>5 DEF Decided, KeepsLink
  <2>6. CASE FinishedWith(c)
    BY <2>1, <2>6, TurnAssumption DEF FinishedWith, KeepsLink
  <2> QED BY <2>2, <2>3, <2>4, <2>5, <2>6, RowSteps DEF RowStep
<1> QED BY <1>1, <1>2 DEF GateOrder, AskedAreUnlinked, DeniedAreDenied, Linked

\* Types, groundedness and the order of approvals are invariants of every turn.
LEMMA GateOrderAlways == Spec => [](Typed /\ Grounded /\ GateOrder)
<1>1. Init => Typed /\ Grounded /\ GateOrder
  BY TypedInit
     DEF Init, Grounded, Linked, GateOrder, OneAsker, AskedAreUnlinked,
         DeniedAreDenied, At, Idle
<1> QED BY <1>1, TypedNext, GroundedNext, GateOrderNext, PTL DEF Spec

\* No step touches a decision, or a denied call.
LEMMA DecisionStep ==
    ASSUME Typed, Grounded, GateOrder, [Next]_vars, NEW c \in Call,
           approvals[c] \in {"granted", "denied"}
    PROVE  /\ approvals'[c] = approvals[c]
           /\ approvals[c] = "denied" => invocations'[c].state = "denied"
<1>1. Known(c) /\ invocations[c].task = None
  BY DEF Grounded, GateOrder, AskedAreUnlinked, Linked
<1>2. ~AskedFor(c)
  BY DEF AskedFor, CreateCoordinatorApproval, GateOrder, OneAsker
<1>3. ~Created(c) /\ ~Decided(c) /\ ~FinishedWith(c)
  BY <1>1, TurnAssumption DEF Created, Decided, FinishedWith
<1>4. KeepsRow(c) \/ Concluded(c)
  BY <1>2, <1>3, RowSteps DEF RowStep
<1>5. approvals[c] = "denied" => invocations[c].state = "denied"
  BY DEF GateOrder, DeniedAreDenied
<1> QED BY <1>4, <1>5 DEF KeepsRow, Concluded, Settled

\* What an operator decided stands, in any kind of turn: at most one runner ever
\* asks about a call, and none of those that take over asks again.
THEOREM DecisionsStand == Spec => DecisionIsFinal
<1>1. ASSUME Typed, Grounded, GateOrder, [Next]_vars
      PROVE  [\A c \in Call : approvals[c] \in {"granted", "denied"} =>
                 /\ approvals'[c] = approvals[c]
                 /\ approvals[c] = "denied" => invocations'[c].state = "denied"]_vars
  BY <1>1, DecisionStep
<1> QED BY <1>1, GateOrderAlways, PTL DEF Spec, DecisionIsFinal
-----------------------------------------------------------------------------
(* Which calls are asked about, executed and linked.                        *)

\* Approvals are asked for gated calls and host commands only, tasks linked to
\* delegate_ara calls only, and every runner knows the host commands.
AskersAreGated == \A r \in Runner :
    At(r, "approve") => Current(r) \in GatedCall \cup HostCall
AskedAreGated == \A c \in Call :
    approvals[c] # "absent" => c \in GatedCall \cup HostCall
LinkersAreAra == \A r \in Runner :
    At(r, "link") => Current(r) \in AraCall \/ Known(Current(r))
LinkedAreAra == \A c \in Call : Linked(c) => c \in AraCall
HostKnown == \A r \in Runner : ~At(r, "idle") => HostCall \subseteq runners[r].known
Roles == AskersAreGated /\ AskedAreGated /\ LinkersAreAra /\ LinkedAreAra /\ HostKnown

\* By which steps a runner comes to the end of a tool call.
LEMMA EndEntries ==
    ASSUME Typed, NEW r \in Runner, OwnStep(r)
    PROVE  /\ At(r, "complete")' =>
                 \/ Dispatch(r)
                 \/ \E k \in Task : AddTask(r, k) /\ Current(r) \in HostCall
           /\ At(r, "fail")' =>
                 \/ Dispatch(r)
                 \/ /\ CreateToolInvocation(r) \/ ReuseToolInvocation(r)
                    /\ AtLocalCall(r) /\ Current(r) \in Delegated
<1>0. TypeOK /\ runners \in [Runner -> RunnerState]
  BY DEF Typed, TypeOK
<1>1. CASE \/ ClaimPendingTurn(r) \/ ClaimTurn(r) \/ Checkpoint(r)
           \/ \E b \in FreshBatch : ModelCalls(r, b)
  BY <1>0, <1>1, ClaimEffect, CheckpointEffect, ModelCallsEffect DEF At
<1>2. CASE CompleteTurn(r) \/ PauseTurn(r) \/ Stop(r)
  <2>1. runners'[r].pc = "idle"
    BY <1>0, <1>2, PutEffect, IdleTyped DEF CompleteTurn, PauseTurn, Stop, Idle
  <2> QED BY <2>1 DEF At
<1>3. CASE CreateToolInvocation(r) \/ ReuseToolInvocation(r)
  <2>1. PICK pc \in {"checkpoint", "fail", "dispatch", "approve"} :
            Goto(r, pc) /\ (pc = "fail" => Current(r) \in Delegated)
    BY <1>3 DEF CreateToolInvocation, ReuseToolInvocation
  <2>2. runners'[r].pc = pc
    BY <1>0, <2>1, GotoEffect
  <2> QED BY <1>3, <2>1, <2>2 DEF At, CreateToolInvocation, ReuseToolInvocation
<1>4. CASE Dispatch(r)
  BY <1>4
<1>5. CASE SkipDelegation(r) \/ TakeResult(r) \/ WaitForResult(r)
           \/ CreateHostInvocation(r) \/ LinkTask(r)
  <2>1. PICK pc \in {"checkpoint", "pause", "approve"} : Goto(r, pc)
    BY <1>5 DEF SkipDelegation, TakeResult, WaitForResult, CreateHostInvocation, LinkTask
  <2>2. runners'[r].pc = pc
    BY <1>0, <2>1, GotoEffect
  <2> QED BY <2>1, <2>2 DEF At
<1>6. CASE \/ FinishToolInvocation(r, "complete", "completed")
           \/ FinishToolInvocation(r, "fail", "failed")
  <2>1. PICK pc \in {"link", "checkpoint"} : Goto(r, pc)
    BY <1>6 DEF FinishToolInvocation
  <2>2. runners'[r].pc = pc
    BY <1>0, <2>1, GotoEffect
  <2> QED BY <2>1, <2>2 DEF At
<1>7. CASE CreateCoordinatorApproval(r)
  <2>1. Goto(r, "pause") \/ runners' = [runners EXCEPT ![r] = Idle]
    BY <1>7 DEF CreateCoordinatorApproval, Goto
  <2>2. runners'[r].pc \in {"pause", "idle"}
    BY <1>0, <2>1, GotoEffect, PutEffect, IdleTyped DEF Idle
  <2> QED BY <2>2 DEF At
<1>8. CASE \E k \in Task : AddTask(r, k)
  <2>1. runners'[r].pc = IF Current(r) \in HostCall THEN "complete" ELSE "link"
    BY <1>0, <1>8 DEF AddTask
  <2> QED BY <1>8, <2>1 DEF At
<1> QED BY <1>1, <1>2, <1>3, <1>4, <1>5, <1>6, <1>7, <1>8 DEF OwnStep

\* A runner learns which calls it knows when it claims the turn, and keeps that
\* until it is idle.
LEMMA KnownKept ==
    ASSUME Typed, NEW r \in Runner, OwnStep(r)
    PROVE  \/ At(r, "idle")'
           \/ runners'[r].known \in Offers
           \/ ~At(r, "idle") /\ runners'[r].known = runners[r].known
<1>0. TypeOK /\ runners \in [Runner -> RunnerState]
  BY DEF Typed, TypeOK
<1>1. ASSUME NEW calls, NEW known, Loop(r, calls, known)
      PROVE  runners'[r].known = known
  BY <1>0, <1>1 DEF Loop
<1>2. CASE ClaimPendingTurn(r) \/ ClaimTurn(r)
  <2>1. PICK calls \in {<<>>, turn.pending_calls}, known \in Offers : Loop(r, calls, known)
    BY <1>2 DEF ClaimPendingTurn, ClaimTurn, Claim
  <2> QED BY <1>1, <2>1
<1>3. CASE Checkpoint(r)
  <2>1. Loop(r, Tail(runners[r].calls), runners[r].known) /\ ~At(r, "idle")
    BY <1>3 DEF Checkpoint, At
  <2> QED BY <1>1, <2>1
<1>4. CASE \E b \in FreshBatch : ModelCalls(r, b)
  <2>1. PICK b \in FreshBatch : Loop(r, b, runners[r].known) /\ ~At(r, "idle")
    BY <1>4 DEF ModelCalls, At
  <2> QED BY <1>1, <2>1
<1>5. CASE CompleteTurn(r) \/ PauseTurn(r) \/ Stop(r)
  <2>1. runners'[r].pc = "idle"
    BY <1>0, <1>5, PutEffect, IdleTyped DEF CompleteTurn, PauseTurn, Stop, Idle
  <2> QED BY <2>1 DEF At
<1>6. ASSUME NEW pc \in {"approve", "dispatch", "complete", "fail", "link", "pause",
                         "checkpoint"},
             Goto(r, pc), ~At(r, "idle")
      PROVE  ~At(r, "idle") /\ runners'[r].known = runners[r].known
  BY <1>0, <1>6, GotoEffect
<1>7. CASE CreateToolInvocation(r) \/ ReuseToolInvocation(r) \/ Dispatch(r)
  <2>1. \E pc \in {"approve", "dispatch", "complete", "fail", "checkpoint"} : Goto(r, pc)
    BY <1>7 DEF CreateToolInvocation, ReuseToolInvocation, Dispatch
  <2>2. ~At(r, "idle")
    BY <1>7 DEF CreateToolInvocation, ReuseToolInvocation, Dispatch, AtLocalCall, At
  <2> QED BY <1>6, <2>1, <2>2
<1>8. CASE \/ FinishToolInvocation(r, "complete", "completed")
           \/ FinishToolInvocation(r, "fail", "failed")
           \/ LinkTask(r)
  <2>1. \E pc \in {"link", "checkpoint", "pause"} : Goto(r, pc)
    BY <1>8 DEF FinishToolInvocation, LinkTask
  <2>2. ~At(r, "idle")
    BY <1>8 DEF FinishToolInvocation, LinkTask, At
  <2> QED BY <1>6, <2>1, <2>2
<1>9. CASE SkipDelegation(r) \/ TakeResult(r) \/ WaitForResult(r) \/ CreateHostInvocation(r)
  <2>1. \E pc \in {"approve", "checkpoint", "pause"} : Goto(r, pc)
    BY <1>9 DEF SkipDelegation, TakeResult, WaitForResult, CreateHostInvocation
  <2>2. ~At(r, "idle")
    BY <1>9 DEF SkipDelegation, TakeResult, WaitForResult, CreateHostInvocation,
                AtDelegation, At
  <2> QED BY <1>6, <2>1, <2>2
<1>10. CASE CreateCoordinatorApproval(r)
  <2>1. ~At(r, "idle") /\ (Goto(r, "pause") \/ runners' = [runners EXCEPT ![r] = Idle])
    BY <1>10 DEF CreateCoordinatorApproval, Goto, At
  <2>2. CASE Goto(r, "pause")
    BY <1>6, <2>1, <2>2
  <2>3. CASE runners' = [runners EXCEPT ![r] = Idle]
    BY <1>0, <2>3, PutEffect, IdleTyped DEF Idle, At
  <2> QED BY <2>1, <2>2, <2>3
<1>11. CASE \E k \in Task : AddTask(r, k)
  <2>1. runners'[r].known = runners[r].known /\ ~At(r, "idle")
    BY <1>0, <1>11 DEF AddTask, AtDelegation, At
  <2> QED BY <2>1
<1> QED BY <1>2, <1>3, <1>4, <1>5, <1>7, <1>8, <1>9, <1>10, <1>11 DEF OwnStep

\* An invocation stays known.
LEMMA KnownStays ==
    ASSUME Typed, [Next]_vars, NEW c \in Call, Known(c)
    PROVE  Known(c)'
BY RowSteps DEF RowStep, KeepsRow, Created, Concluded, AskedFor, Decided, FinishedWith,
                Known, Settled, Finished

\* No step mixes up the kinds of calls.
LEMMA RolesNext == Typed /\ Grounded /\ Roles /\ [Next]_vars => Roles'
<1> SUFFICES ASSUME Typed, Grounded, Roles, [Next]_vars
             PROVE  Roles'
  OBVIOUS
<1>0. TypeOK /\ AtWork
  BY DEF Typed
<1>1. ASSUME NEW r \in Runner, At(r, "approve")'
      PROVE  Current(r)' \in GatedCall \cup HostCall
  <2>1. CASE UNCHANGED runners[r]
    BY <1>1, <2>1 DEF At, Current, Roles, AskersAreGated
  <2>2. CASE OwnStep(r)
    <3>1. /\ \/ CreateToolInvocation(r) /\ Current(r) \in GatedCall
             \/ CreateHostInvocation(r)
          /\ runners'[r].calls = runners[r].calls
      BY <1>1, <2>2, Entries DEF At
    <3> QED BY <3>1 DEF CreateHostInvocation, Current
  <2> QED BY <2>1, <2>2, WhoseStep, OthersStay
<1>2. ASSUME NEW c \in Call, approvals'[c] # "absent"
      PROVE  c \in GatedCall \cup HostCall
  <2>1. CASE approvals[c] # "absent"
    BY <2>1 DEF Roles, AskedAreGated
  <2>2. CASE approvals[c] = "absent"
    <3>1. AskedFor(c)
      BY <1>2, <2>2, RowSteps
         DEF RowStep, KeepsRow, Created, Concluded, Decided, FinishedWith
    <3> QED BY <3>1 DEF AskedFor, CreateCoordinatorApproval, Roles, AskersAreGated
  <2> QED BY <2>1, <2>2
<1>3. ASSUME NEW r \in Runner, At(r, "link")'
      PROVE  (Current(r) \in AraCall \/ Known(Current(r)))'
  <2>1. CASE UNCHANGED runners[r]
    <3>1. Current(r) \in Call /\ Current(r)' = Current(r)
          /\ (Current(r) \in AraCall \/ Known(Current(r)))
      BY <1>0, <1>3, <2>1, CurrentIsCall DEF At, AtWork, Current, Roles, LinkersAreAra
    <3> QED BY <3>1, KnownStays DEF Known
  <2>2. CASE OwnStep(r)
    <3>1. /\ \/ \E k \in Task : AddTask(r, k)
             \/ FinishToolInvocation(r, "complete", "completed")
             \/ FinishToolInvocation(r, "fail", "failed")
          /\ Current(r)' = Current(r)
      BY <1>3, <2>2, Entries DEF At, Current
    <3>2. CASE \E k \in Task : AddTask(r, k)
      <4>1. Working(r) /\ (Current(r) \in AraCall \/ Known(Current(r)))
        BY <3>2 DEF AddTask, AtDelegation, Known
      <4>2. Current(r) \in Call
        BY <1>0, <4>1, CurrentIsCall
      <4> QED BY <3>1, <4>1, <4>2, KnownStays DEF Known
    <3>3. CASE \/ FinishToolInvocation(r, "complete", "completed")
               \/ FinishToolInvocation(r, "fail", "failed")
      <4>1. Current(r) \in Call
        BY <1>0, <3>3, CurrentIsCall DEF FinishToolInvocation, AtWork, At
      <4>2. \E state \in Settled : Mark(Current(r), state)
        BY <3>3 DEF FinishToolInvocation, Settled
      <4>3. invocations'[Current(r)].state # "absent"
        BY <1>0, <4>1, <4>2, MarkKeeps DEF Settled
      <4> QED BY <3>1, <4>3 DEF Known
    <3> QED BY <3>1, <3>2, <3>3
  <2> QED BY <2>1, <2>2, WhoseStep, OthersStay
<1>4. ASSUME NEW c \in Call, Linked(c)'
      PROVE  c \in AraCall
  <2>1. CASE Linked(c)
    BY <2>1 DEF Roles, LinkedAreAra
  <2>2. CASE ~Linked(c)
    <3>1. Created(c) /\ invocations'[c].task # None
      BY <1>4, <2>2, RowSteps
         DEF RowStep, KeepsRow, Concluded, AskedFor, Decided, FinishedWith, KeepsLink, Linked
    <3>2. \E r \in Runner : LinkTask(r) /\ Current(r) = c /\ ~Known(c)
      BY <3>1 DEF Created
    <3> QED BY <3>2 DEF LinkTask, Roles, LinkersAreAra
  <2> QED BY <2>1, <2>2
<1>5. ASSUME NEW r \in Runner, ~At(r, "idle")'
      PROVE  HostCall \subseteq runners'[r].known
  <2>1. CASE UNCHANGED runners[r]
    BY <1>5, <2>1 DEF At, Roles, HostKnown
  <2>2. CASE OwnStep(r)
    BY <1>5, <2>2, KnownKept DEF Offers, Roles, HostKnown
  <2> QED BY <2>1, <2>2, WhoseStep, OthersStay
<1>6. AskersAreGated' /\ AskedAreGated'
  BY <1>1, <1>2 DEF AskersAreGated, AskedAreGated
<1>7. LinkersAreAra'
  BY <1>3 DEF LinkersAreAra
<1>8. LinkedAreAra' /\ HostKnown'
  BY <1>4, <1>5 DEF LinkedAreAra, HostKnown
<1> QED BY <1>6, <1>7, <1>8 DEF Roles

\* The kinds of calls are kept apart in every turn.
LEMMA RolesAlways == Spec => []Roles
<1>1. Init => Typed /\ Grounded /\ Roles
  BY TypedInit
     DEF Init, Grounded, Linked, Roles, AskersAreGated, AskedAreGated, LinkersAreAra,
         LinkedAreAra, HostKnown, At, Idle
<1> QED BY <1>1, TypedNext, GroundedNext, RolesNext, PTL DEF Spec
-----------------------------------------------------------------------------
(* Grants.                                                                  *)

\* The check that _execute_call and _execute_host_command leave out: a runner
\* that comes upon an invocation which it has not created goes on with a gated
\* call, or with a host command, only after the operator has granted it.
GrantChecked ==
    \A r \in Runner :
        /\ ReuseToolInvocation(r) /\ Current(r) \in GatedCall =>
              \/ invocations[Current(r)].state = "denied"
              \/ approvals[Current(r)] = "granted"
        /\ \A k \in Task :
              AddTask(r, k) /\ Current(r) \in HostCall =>
                  approvals[Current(r)] = "granted"

\* With that check, a runner ends a call that needs no approval or has one, and
\* an approval is pending only while its invocation awaits it.
EndsTool(r) == At(r, "dispatch") \/ At(r, "complete") \/ At(r, "fail")
EndsAreGranted == \A r \in Runner : EndsTool(r) =>
    \/ Current(r) \in LocalCall \cup AraCall
    \/ approvals[Current(r)] = "granted"
PendingIsAwaited == \A c \in Call :
    approvals[c] = "pending" => invocations[c].state = "awaiting_approval"
Gate == GateOrder /\ Roles
Granted == EndsAreGranted /\ PendingIsAwaited /\ ImpactNeedsGrant

\* What was granted stays granted.
LEMMA GrantStays ==
    ASSUME Typed, Grounded, GateOrder, [Next]_vars, NEW c \in Call,
           approvals[c] = "granted"
    PROVE  approvals'[c] = "granted"
BY DecisionStep

\* A runner that ends a call works on it.
LEMMA EnderWorks ==
    ASSUME Typed, NEW r \in Runner, EndsTool(r)
    PROVE  Working(r) /\ Current(r) \in Call
BY CurrentIsCall DEF Typed, AtWork, EndsTool, At

\* Whoever comes to the end of a call has been through the gate.
LEMMA EndsAreGrantedNext ==
    ASSUME Typed, Grounded, Gate, EndsAreGranted, [Next]_vars, GrantChecked
    PROVE  EndsAreGranted'
<1>0. TypeOK /\ AtWork
  BY DEF Typed
<1> SUFFICES ASSUME NEW r \in Runner, EndsTool(r)'
             PROVE  \/ Current(r)' \in LocalCall \cup AraCall
                    \/ approvals'[Current(r)'] = "granted"
  BY DEF EndsAreGranted
<1>1. CASE UNCHANGED runners[r]
  <2>1. EndsTool(r) /\ Current(r)' = Current(r)
    BY <1>1 DEF EndsTool, At, Current
  <2>2. Current(r) \in Call
    BY <2>1, EnderWorks
  <2> QED BY <2>1, <2>2, GrantStays DEF EndsAreGranted, Gate
<1>2. CASE OwnStep(r)
  <2>1. Current(r)' = Current(r)
    BY <1>2, Entries DEF EndsTool, At, Current
  <2>2. CASE Dispatch(r)
    <3>1. EndsTool(r) /\ approvals' = approvals
      BY <2>2 DEF Dispatch, EndsTool
    <3> QED BY <2>1, <3>1 DEF EndsAreGranted
  <2>3. CASE CreateToolInvocation(r) \/ ReuseToolInvocation(r)
    <3>1. /\ AtLocalCall(r) /\ Working(r) /\ approvals' = approvals
          /\ Current(r) \notin runners[r].known
      BY <2>3 DEF CreateToolInvocation, ReuseToolInvocation, AtLocalCall
    <3>2. Current(r) \in Call
      BY <1>0, <3>1, CurrentIsCall
    <3>3. Current(r) \notin HostCall
      BY <3>1 DEF Gate, Roles, HostKnown, AtLocalCall, At
    <3>4. CASE At(r, "dispatch")'
      <4>1. \/ Current(r) \in LocalCall
            \/ /\ ReuseToolInvocation(r)
               /\ invocations[Current(r)].state # "denied"
               /\ Current(r) \notin Delegated
        BY <1>2, <3>4, Entries
      <4>2. Current(r) \in GatedCall /\ ReuseToolInvocation(r)
               /\ invocations[Current(r)].state # "denied"
               => approvals[Current(r)] = "granted"
        BY DEF GrantChecked
      <4> QED BY <2>1, <3>1, <3>2, <4>1, <4>2 DEF Call, Delegated
    <3>5. CASE At(r, "fail")'
      <4>1. Dispatch(r) \/ Current(r) \in Delegated
        BY <1>2, <3>5, EndEntries
      <4> QED BY <2>1, <2>2, <3>3, <4>1 DEF Delegated
    <3>6. CASE At(r, "complete")'
      <4>1. Dispatch(r) \/ \E k \in Task : AddTask(r, k)
        BY <1>2, <3>6, EndEntries
      <4>2. ~\E k \in Task : AddTask(r, k)
        BY <3>1 DEF AddTask, AtDelegation
      <4> QED BY <2>2, <4>1, <4>2
    <3> QED BY <3>4, <3>5, <3>6 DEF EndsTool
  <2>4. CASE \E k \in Task : AddTask(r, k) /\ Current(r) \in HostCall
    <3>1. approvals' = approvals /\ approvals[Current(r)] = "granted"
      BY <2>4 DEF AddTask, GrantChecked
    <3> QED BY <2>1, <3>1
  <2>5. \/ Dispatch(r) \/ CreateToolInvocation(r) \/ ReuseToolInvocation(r)
        \/ \E k \in Task : AddTask(r, k) /\ Current(r) \in HostCall
    BY <1>2, Entries, EndEntries DEF EndsTool
  <2> QED BY <2>2, <2>3, <2>4, <2>5
<1> QED BY <1>1, <1>2, WhoseStep, OthersStay

\* An invocation whose approval is pending is not settled by a runner.
LEMMA PendingIsAwaitedNext ==
    ASSUME Typed, Grounded, Gate, EndsAreGranted, PendingIsAwaited, [Next]_vars
    PROVE  PendingIsAwaited'
<1> SUFFICES ASSUME NEW c \in Call, approvals'[c] = "pending"
             PROVE  invocations'[c].state = "awaiting_approval"
  BY DEF PendingIsAwaited
<1>1. CASE KeepsRow(c)
  BY <1>1 DEF KeepsRow, PendingIsAwaited
<1>2. ~Created(c)
  BY DEF Created, Grounded
<1>3. ~Concluded(c)
  <2> SUFFICES ASSUME Concluded(c)
               PROVE  FALSE
    OBVIOUS
  <2>1. PICK r \in Runner :
            /\ Current(r) = c /\ EndsTool(r)
            /\ approvals'[c] = approvals[c]
    BY DEF Concluded, FinishToolInvocation, EndsTool
  <2>2. c \in LocalCall \cup AraCall
    BY <2>1 DEF EndsAreGranted
  <2>3. c \in GatedCall \cup HostCall
    BY <2>1 DEF Gate, Roles, AskedAreGated
  <2> QED BY <2>2, <2>3, TurnAssumption DEF Delegated
<1>4. CASE AskedFor(c)
  BY <1>4 DEF AskedFor
<1>5. ~Decided(c)
  BY DEF Decided
<1>6. ~FinishedWith(c)
  BY TurnAssumption DEF FinishedWith, Gate, GateOrder, AskedAreUnlinked, Linked
<1> QED BY <1>1, <1>2, <1>3, <1>4, <1>5, <1>6, RowSteps DEF RowStep

\* Tools are executed by Dispatch only, and tasks created by AddTask only.
LEMMA ImpactSteps ==
    ASSUME Typed, [Next]_vars
    PROVE  /\ \/ executed' = executed
              \/ \E r \in Runner : Dispatch(r) /\ executed' = executed \cup {Current(r)}
           /\ \A k \in Task :
                 \/ tasks'[k].call = tasks[k].call
                 \/ \E r \in Runner : AddTask(r, k) /\ tasks'[k].call = Current(r)
<1>0. tasks \in [Task -> TaskRow]
  BY DEF Typed, TypeOK
<1>1. \/ executed' = executed
      \/ \E r \in Runner : Dispatch(r) /\ executed' = executed \cup {Current(r)}
  BY DEF Next, CreateTurn, RunLeaseLapses, ClaimPendingTurn, ClaimTurn, Claim,
         CompleteTurn, ModelCalls, CreateToolInvocation, ReuseToolInvocation, Dispatch,
         FinishToolInvocation, Checkpoint, CreateCoordinatorApproval, SkipDelegation,
         TakeResult, WaitForResult, CreateHostInvocation, AddTask, LinkTask, PauseTurn,
         Stop, DecideApproval, FinishTask, LeaseAgain, vars
<1>2. ASSUME NEW k \in Task
      PROVE  \/ tasks'[k].call = tasks[k].call
             \/ \E r \in Runner : AddTask(r, k) /\ tasks'[k].call = Current(r)
  <2>1. ASSUME NEW r \in Runner, NEW j \in Task, AddTask(r, j)
        PROVE  \/ tasks'[k].call = tasks[k].call
               \/ AddTask(r, k) /\ tasks'[k].call = Current(r)
    <3>1. tasks' = [tasks EXCEPT ![j] = [state |-> "open", call |-> Current(r)]]
      BY <2>1 DEF AddTask
    <3> QED BY <1>0, <2>1, <3>1
  <2>2. ASSUME NEW j \in Task, NEW state,
               tasks' = [tasks EXCEPT ![j].state = state]
        PROVE  tasks'[k].call = tasks[k].call
    <3>1. [tasks[j] EXCEPT !.state = state].call = tasks[j].call
      BY <1>0 DEF TaskRow
    <3>2. tasks' = [tasks EXCEPT ![j] = [tasks[j] EXCEPT !.state = state]]
      BY <2>2
    <3> QED BY <1>0, <3>1, <3>2
  <2>3. \/ tasks' = tasks
        \/ \E r \in Runner, j \in Task : AddTask(r, j)
        \/ \E j \in Task, state \in {"open"} \cup Finished :
              tasks' = [tasks EXCEPT ![j].state = state]
    BY DEF Next, CreateTurn, RunLeaseLapses, ClaimPendingTurn, ClaimTurn, Claim,
           CompleteTurn, ModelCalls, CreateToolInvocation, ReuseToolInvocation, Dispatch,
           FinishToolInvocation, Checkpoint, CreateCoordinatorApproval, SkipDelegation,
           TakeResult, WaitForResult, CreateHostInvocation, LinkTask, PauseTurn,
           Stop, DecideApproval, FinishTask, LeaseAgain, vars
  <2> QED BY <2>1, <2>2, <2>3
<1> QED BY <1>1, <1>2

\* Behind the check, nothing is executed and no host command becomes a task
\* without a grant.
LEMMA ImpactNext ==
    ASSUME Typed, Grounded, Gate, EndsAreGranted, ImpactNeedsGrant,
           [Next]_vars, GrantChecked
    PROVE  ImpactNeedsGrant'
<1>1. ASSUME NEW c \in executed' \cap GatedCall
      PROVE  approvals'[c] = "granted"
  <2>0. c \in Call
    BY DEF Call
  <2>1. approvals[c] = "granted"
    <3>1. CASE c \in executed
      BY <1>1, <3>1 DEF ImpactNeedsGrant
    <3>2. CASE c \notin executed
      <4>1. PICK r \in Runner : Dispatch(r) /\ Current(r) = c
        BY <1>1, <3>2, ImpactSteps
      <4>2. c \in LocalCall \cup AraCall \/ approvals[c] = "granted"
        BY <4>1 DEF EndsAreGranted, EndsTool, Dispatch
      <4> QED BY <4>2, TurnAssumption DEF Delegated
    <3> QED BY <3>1, <3>2
  <2> QED BY <2>0, <2>1, GrantStays DEF Gate
<1>2. ASSUME NEW k \in Task, tasks'[k].call \in HostCall
      PROVE  approvals'[tasks'[k].call] = "granted"
  <2>0. tasks'[k].call \in Call
    BY <1>2 DEF Call
  <2>1. CASE tasks'[k].call = tasks[k].call
    BY <1>2, <2>0, <2>1, GrantStays DEF ImpactNeedsGrant, Gate
  <2>2. CASE \E r \in Runner : AddTask(r, k) /\ tasks'[k].call = Current(r)
    BY <1>2, <2>0, <2>2, GrantStays DEF GrantChecked, Gate
  <2> QED BY <2>1, <2>2, ImpactSteps
<1> QED BY <1>1, <1>2 DEF ImpactNeedsGrant

\* The types, the order and the kinds of calls hold in every turn.
LEMMA GateAlways == Spec => [](Typed /\ Grounded /\ Gate)
BY GateOrderAlways, RolesAlways, PTL DEF Gate

\* With the check, the grants are an invariant.
LEMMA GrantedAlways ==
    Spec /\ [][GrantChecked]_vars => [](Typed /\ Grounded /\ Gate /\ Granted)
<1>1. Init => Granted
  <2> SUFFICES ASSUME Init
               PROVE  Granted
    OBVIOUS
  <2>1. EndsAreGranted /\ PendingIsAwaited
    BY DEF Init, EndsAreGranted, EndsTool, At, Idle, PendingIsAwaited
  <2>2. \A k \in Task : tasks[k].call = None
    BY DEF Init
  <2>3. None \notin HostCall /\ executed = {}
    BY TurnAssumption DEF Init, Call
  <2> QED BY <2>1, <2>2, <2>3 DEF Granted, ImpactNeedsGrant
<1>2. ASSUME Typed, Grounded, Gate, Granted, [Next]_vars, [GrantChecked]_vars
      PROVE  Granted'
  <2>1. CASE GrantChecked
    BY <1>2, <2>1, EndsAreGrantedNext, PendingIsAwaitedNext, ImpactNext DEF Granted
  <2>2. CASE UNCHANGED vars
    BY <1>2, <2>2 DEF vars, Granted, EndsAreGranted, EndsTool, At, Current,
                      PendingIsAwaited, ImpactNeedsGrant
  <2> QED BY <1>2, <2>1, <2>2
<1> QED BY <1>1, <1>2, GateAlways, PTL DEF Spec

\* The missing check is the only hole in the gate: in a turn of any kind, however
\* often it is taken over, a gated call is executed, or a host command becomes a
\* task, without a grant only after a runner has gone on with an ungranted
\* invocation that it came upon (ReuseToolInvocation, AddTask).
THEOREM ReuseAloneSkipsGrant ==
    Spec /\ [][GrantChecked]_vars => []ImpactNeedsGrant
BY GrantedAlways, PTL DEF Granted

\* Under the same check an outcome is final: neither a late decision nor a late
\* runner overwrites a settled call that is not delegated to an ARA.
THEOREM OutcomesStand ==
    Spec /\ [][GrantChecked]_vars =>
        [][\A c \in Call \ AraCall :
              invocations[c].state \in Settled =>
                  invocations'[c].state = invocations[c].state]_vars
<1>1. ASSUME Typed, Grounded, Gate, Granted, [Next]_vars
      PROVE  [\A c \in Call \ AraCall :
                 invocations[c].state \in Settled =>
                     invocations'[c].state = invocations[c].state]_vars
  <2> SUFFICES ASSUME NEW c \in Call \ AraCall, invocations[c].state \in Settled
               PROVE  invocations'[c].state = invocations[c].state
    OBVIOUS
  <2>1. ~Created(c) /\ ~AskedFor(c)
    BY DEF Created, Known, AskedFor, Settled
  <2>2. ~Decided(c)
    BY <1>1 DEF Decided, Granted, PendingIsAwaited, Settled
  <2>3. ~FinishedWith(c)
    BY <1>1, TurnAssumption DEF FinishedWith, Gate, Roles, LinkedAreAra, Linked
  <2> QED BY <1>1, <2>1, <2>2, <2>3, RowSteps DEF RowStep, KeepsRow, Concluded
<1> QED BY <1>1, GrantedAlways, PTL DEF Spec
-----------------------------------------------------------------------------
(* Wakers.                                                                  *)

\* What delegate_ara counts on when it links its task after it has created it:
\* the call has no invocation yet, and the task is not finished yet.
LinksLand ==
    \A r \in Runner : LinkTask(r) =>
        /\ ~Known(Current(r))
        /\ tasks[runners[r].task].state = "open"

\* Where links land, and no host commands are delegated, an invocation that
\* waits for a remote agent is linked to an open task, and a runner that is
\* about to pause the turn it holds leaves somebody behind who will wake it.
LinkHasTask == \A r \in Runner : At(r, "link") => runners[r].task \in Task
RemoteAreLinked == \A c \in Call : invocations[c].target = "ara" => Linked(c)
UnsettledAreOpen == \A c \in Call :
    Linked(c) /\ invocations[c].state \notin Settled =>
        tasks[invocations[c].task].state = "open"
AwaitedIsPending == \A c \in Call :
    invocations[c].state = "awaiting_approval" => approvals[c] = "pending"
PauserHasWaker == \A r \in Runner : At(r, "pause") /\ Active(r) => HasWaker
Wakeful == /\ LinkHasTask /\ RemoteAreLinked /\ UnsettledAreOpen
           /\ AwaitedIsPending /\ PauserHasWaker /\ PausedHasWaker

\* An open task stays open until it is finished.
LEMMA OpenStays ==
    ASSUME Typed, [Next]_vars, NEW k \in Task, tasks[k].state = "open"
    PROVE  \/ tasks'[k].state = "open"
           \/ \E state \in Finished : FinishTask(k, state)
<1>0. tasks \in [Task -> TaskRow]
  BY DEF Typed, TypeOK
<1>1. ASSUME NEW r \in Runner, NEW j \in Task, AddTask(r, j)
      PROVE  tasks'[k].state = "open"
  <2>1. /\ tasks' = [tasks EXCEPT ![j] = [state |-> "open", call |-> Current(r)]]
        /\ tasks[j].state = "absent"
    BY <1>1 DEF AddTask
  <2> QED BY <1>0, <2>1
<1>2. ASSUME NEW j \in Task, NEW state, tasks' = [tasks EXCEPT ![j].state = state], j # k
      PROVE  tasks'[k].state = "open"
  BY <1>0, <1>2
<1>3. ASSUME NEW j \in Task, LeaseAgain(j)
      PROVE  tasks'[k].state = "open"
  <2>1. tasks' = [tasks EXCEPT ![j].state = "open"] /\ j # k
    BY <1>3 DEF LeaseAgain, Finished
  <2> QED BY <1>2, <2>1
<1>4. ASSUME NEW j \in Task, NEW state \in Finished, FinishTask(j, state), j # k
      PROVE  tasks'[k].state = "open"
  <2>1. tasks' = [tasks EXCEPT ![j].state = state]
    BY <1>4 DEF FinishTask
  <2> QED BY <1>2, <1>4, <2>1
<1>5. \/ tasks' = tasks
      \/ \E r \in Runner, j \in Task : AddTask(r, j)
      \/ \E j \in Task, state \in Finished : FinishTask(j, state)
      \/ \E j \in Task : LeaseAgain(j)
  BY DEF Next, CreateTurn, RunLeaseLapses, ClaimPendingTurn, ClaimTurn, Claim,
         CompleteTurn, ModelCalls, CreateToolInvocation, ReuseToolInvocation, Dispatch,
         FinishToolInvocation, Checkpoint, CreateCoordinatorApproval, SkipDelegation,
         TakeResult, WaitForResult, CreateHostInvocation, LinkTask, PauseTurn,
         Stop, DecideApproval, vars
<1> QED BY <1>1, <1>3, <1>4, <1>5

\* A task that is finished, with an invocation linked to it, makes the turn
\* pending, or leaves an invocation behind that is linked to another open task.
LEMMA FinishWakes ==
    ASSUME Typed, RemoteAreLinked, UnsettledAreOpen,
           NEW k \in Task, NEW state \in Finished, FinishTask(k, state),
           NEW c \in Call, invocations[c].task = k
    PROVE  turn'.state = "pending" \/ HasWaker'
<1>0. TypeOK /\ tasks \in [Task -> TaskRow] /\ invocations \in [Call -> InvocationRow]
  BY DEF Typed, TypeOK
<1>1. CASE \A d \in Call : Known(d) /\ invocations[d].target = "ara"
                           => invocations'[d].state \in Settled
  <2>1. turn' = [turn EXCEPT !.state = "pending"]
    BY <1>1 DEF FinishTask
  <2> QED BY <1>0, <2>1, TurnEffect
<1>2. ASSUME NEW d \in Call, invocations[d].target = "ara",
             invocations'[d].state \notin Settled
      PROVE  HasWaker'
  <2>1. invocations'[d] = IF invocations[d].task = k
                          THEN [invocations[d] EXCEPT !.state = state] ELSE invocations[d]
    BY DEF FinishTask
  <2>2. [invocations[d] EXCEPT !.state = state].state = state
    BY <1>0 DEF InvocationRow
  <2>3. invocations[d].task # k /\ invocations'[d] = invocations[d]
    BY <1>2, <2>1, <2>2 DEF Finished, Settled
  <2>4. Linked(d) /\ tasks[invocations[d].task].state = "open"
    BY <1>2, <2>3 DEF RemoteAreLinked, UnsettledAreOpen
  <2>5. invocations[d].task \in Task
    BY <1>0, <2>4 DEF InvocationRow, Linked
  <2>6. tasks' = [tasks EXCEPT ![k].state = state]
    BY DEF FinishTask
  <2>7. tasks'[invocations[d].task] = tasks[invocations[d].task]
    BY <1>0, <2>3, <2>5, <2>6
  <2> QED BY <2>3, <2>4, <2>7 DEF HasWaker, Linked
<1> QED BY <1>1, <1>2

\* Whoever will wake the turn stays, or has woken it.
LEMMA WakerStays ==
    ASSUME Typed, Grounded, Gate, RemoteAreLinked, UnsettledAreOpen,
           [Next]_vars, HasWaker
    PROVE  turn'.state = "pending" \/ HasWaker'
<1>1. ASSUME NEW c \in Call, approvals[c] = "pending"
      PROVE  turn'.state = "pending" \/ HasWaker'
  <2>1. Decided(c) \/ approvals'[c] = "pending"
    BY <1>1, RowSteps
       DEF RowStep, KeepsRow, Created, Concluded, AskedFor, FinishedWith
  <2> QED BY <2>1 DEF Decided, HasWaker
<1>2. ASSUME NEW c \in Call, Linked(c), tasks[invocations[c].task].state = "open"
      PROVE  turn'.state = "pending" \/ HasWaker'
  <2>1. invocations[c].task \in Task
    BY <1>2 DEF Typed, TypeOK, InvocationRow, Linked
  <2>2. invocations'[c].task = invocations[c].task
    BY <1>2, RowSteps
       DEF RowStep, KeepsRow, Created, Concluded, AskedFor, Decided, FinishedWith,
           KeepsLink, Grounded
  <2>3. CASE tasks'[invocations[c].task].state = "open"
    BY <1>2, <2>2, <2>3 DEF HasWaker, Linked
  <2>4. CASE \E state \in Finished : FinishTask(invocations[c].task, state)
    BY <2>1, <2>4, FinishWakes
  <2> QED BY <1>2, <2>1, <2>3, <2>4, OpenStays
<1> QED BY <1>1, <1>2 DEF HasWaker

\* A runner holds the run lease as before, or has just claimed the turn.
LEMMA HolderStays ==
    ASSUME Typed, Grounded, [Next]_vars, NEW r \in Runner, Active(r)'
    PROVE  Active(r) \/ runners'[r].pc = "loop"
<1>0. TypeOK
  BY DEF Typed
<1>1. CASE Quiet
  BY <1>1 DEF Quiet
<1>2. ASSUME NEW q \in Runner, ClaimPendingTurn(q) \/ ClaimTurn(q)
      PROVE  runners'[r].pc = "loop"
  BY <1>0, <1>2, ClaimEffect DEF Active
<1>3. ASSUME NEW q \in Runner, NEW b \in FreshBatch, ModelCalls(q, b)
      PROVE  Active(r)
  BY <1>0, <1>3, ModelCallsEffect
<1>4. ASSUME NEW q \in Runner, Checkpoint(q)
      PROVE  Active(r)
  BY <1>4, CheckpointEffect
<1> QED BY <1>1, <1>2, <1>3, <1>4, StepShapes

\* The turn is paused by PauseTurn and CreateCoordinatorApproval only.
LEMMA WhoPauses ==
    ASSUME Typed, [Next]_vars, turn'.state = "paused"
    PROVE  \/ turn.state = "paused"
           \/ \E r \in Runner : PauseTurn(r)
           \/ \E r \in Runner : CreateCoordinatorApproval(r)
<1>0. TypeOK
  BY DEF Typed
<1>1. CASE UNCHANGED turn
  BY <1>1
<1>2. CASE turn' = [turn EXCEPT !.state = "pending"] \/ turn' = [turn EXCEPT !.lapsed = TRUE]
  BY <1>0, <1>2, TurnEffect
<1>3. ASSUME NEW r \in Runner, ClaimPendingTurn(r) \/ ClaimTurn(r) \/ CompleteTurn(r)
      PROVE  FALSE
  BY <1>3 DEF ClaimPendingTurn, ClaimTurn, Claim, CompleteTurn, Release
<1>4. ASSUME NEW r \in Runner, Checkpoint(r) \/ \E b \in FreshBatch : ModelCalls(r, b)
      PROVE  turn.state = "paused"
  BY <1>0, <1>4, CheckpointEffect, ModelCallsEffect
<1> QED
  BY <1>1, <1>2, <1>3, <1>4
     DEF Next, CreateTurn, RunLeaseLapses, CreateToolInvocation, ReuseToolInvocation,
         Dispatch, FinishToolInvocation, SkipDelegation, TakeResult, WaitForResult,
         CreateHostInvocation, AddTask, LinkTask, Stop, DecideApproval, FinishTask,
         LeaseAgain, vars

\* Where links land, no step leaves the turn paused with nobody to wake it.
LEMMA WakefulNext ==
    ASSUME HostCall = {}, Typed, Grounded, Gate, Wakeful, [Next]_vars, LinksLand
    PROVE  Wakeful'
<1>0. TypeOK /\ AtWork
  BY DEF Typed
<1>1. ASSUME NEW r \in Runner, At(r, "link")'
      PROVE  runners'[r].task \in Task
  <2>1. CASE UNCHANGED runners[r]
    BY <1>1, <2>1 DEF At, Wakeful, LinkHasTask
  <2>2. CASE \E k \in Task : AddTask(r, k)
    <3>1. PICK k \in Task : AddTask(r, k)
      BY <2>2
    <3>2. runners \in [Runner -> RunnerState]
      BY <1>0 DEF TypeOK
    <3>3. runners'[r].task = k
      BY <3>1, <3>2 DEF AddTask
    <3> QED BY <3>3
  <2>3. CASE /\ \/ FinishToolInvocation(r, "complete", "completed")
                \/ FinishToolInvocation(r, "fail", "failed")
             /\ runners[r].task # None
    <3>1. Goto(r, "link")
      BY <2>3 DEF FinishToolInvocation
    <3>2. runners'[r].task = runners[r].task /\ runners[r].task \in Task \cup {None}
      BY <1>0, <3>1, GotoEffect DEF TypeOK, RunnerState
    <3> QED BY <2>3, <3>2
  <2> QED BY <1>1, <2>1, <2>2, <2>3, WhoseStep, OthersStay, Entries
<1>2. ASSUME NEW c \in Call
      PROVE  /\ invocations'[c].target = "ara" => invocations'[c].task # None
             /\ invocations'[c].task # None /\ invocations'[c].state \notin Settled =>
                    tasks'[invocations'[c].task].state = "open"
             /\ invocations'[c].state = "awaiting_approval" => approvals'[c] = "pending"
  <2>0. /\ invocations[c].target = "ara" => invocations[c].task # None
        /\ invocations[c].task # None /\ invocations[c].state \notin Settled =>
               tasks[invocations[c].task].state = "open"
        /\ invocations[c].state = "awaiting_approval" => approvals[c] = "pending"
        /\ approvals[c] # "absent" => invocations[c].task = None
        /\ invocations[c].task \in Task \cup {None}
    BY <1>0 DEF Wakeful, RemoteAreLinked, UnsettledAreOpen, AwaitedIsPending, Linked,
                Gate, GateOrder, AskedAreUnlinked, TypeOK, InvocationRow
  <2>1. CASE KeepsRow(c)
    <3>1. ASSUME invocations[c].task # None, invocations[c].state \notin Settled
          PROVE  tasks'[invocations[c].task].state = "open"
      <4>1. ASSUME NEW state \in Finished, FinishTask(invocations[c].task, state)
            PROVE  FALSE
        <5>1. invocations'[c] = [invocations[c] EXCEPT !.state = state]
          BY <4>1 DEF FinishTask
        <5>2. [invocations[c] EXCEPT !.state = state].state = state
          BY <1>0 DEF TypeOK, InvocationRow
        <5> QED BY <2>1, <3>1, <5>1, <5>2 DEF KeepsRow, Finished, Settled
      <4> QED BY <2>0, <3>1, <4>1, OpenStays
    <3> QED BY <2>0, <2>1, <3>1 DEF KeepsRow
  <2>2. CASE Created(c)
    <3>1. PICK r \in Runner :
              /\ Current(r) = c
              /\ \/ CreateToolInvocation(r) /\ invocations'[c].target = "local"
                                            /\ invocations'[c].task = None
                 \/ CreateHostInvocation(r)
                 \/ LinkTask(r) /\ invocations'[c].task = runners[r].task
      BY <2>2 DEF Created
    <3>2. invocations'[c].state = "pending"
      BY <2>2 DEF Created
    <3>3. ~CreateHostInvocation(r)
      BY DEF CreateHostInvocation
    <3>4. CASE LinkTask(r) /\ invocations'[c].task = runners[r].task
      <4>1. /\ runners[r].task \in Task /\ tasks' = tasks
            /\ tasks[runners[r].task].state = "open"
        BY <3>4 DEF LinkTask, LinksLand, Wakeful, LinkHasTask
      <4> QED BY <3>2, <3>4, <4>1, TurnAssumption
    <3> QED BY <3>1, <3>2, <3>3, <3>4
  <2>3. CASE Concluded(c)
    <3>1. invocations'[c].state \in Settled
      BY <2>3 DEF Concluded, Settled
    <3> QED BY <2>0, <2>3, <3>1 DEF Concluded, KeepsLink, Settled
  <2>4. CASE AskedFor(c)
    <3>1. invocations[c].task = None
      BY <2>4 DEF AskedFor, CreateCoordinatorApproval, Gate, GateOrder, OneAsker, Linked
    <3> QED BY <2>0, <2>4, <3>1 DEF AskedFor, KeepsLink
  <2>5. CASE Decided(c)
    BY <2>0, <2>5 DEF Decided, KeepsLink
  <2>6. CASE FinishedWith(c)
    BY <2>0, <2>6 DEF FinishedWith, KeepsLink, Finished, Settled
  <2> QED BY <2>1, <2>2, <2>3, <2>4, <2>5, <2>6, RowSteps DEF RowStep
<1>3. HasWaker => turn'.state = "pending" \/ HasWaker'
  BY WakerStays DEF Wakeful
<1>4. ASSUME NEW r \in Runner, At(r, "pause")', Active(r)'
      PROVE  HasWaker'
  <2>0. turn'.state # "pending" /\ Active(r)
    BY <1>4, HolderStays DEF Active, At
  <2>1. CASE UNCHANGED runners[r]
    BY <1>3, <1>4, <2>0, <2>1 DEF At, Wakeful, PauserHasWaker
  <2>2. CASE WaitForResult(r)
    <3>1. Current(r) \in Call
      BY <1>0, <2>2, CurrentIsCall DEF WaitForResult, AtDelegation
    <3>2. HasWaker
      BY <2>2, <3>1 DEF WaitForResult, HasWaker, Wakeful, AwaitedIsPending
    <3> QED BY <1>3, <2>0, <3>2
  <2>3. CASE LinkTask(r)
    <3>1. /\ Current(r) \in Call /\ ~Known(Current(r))
          /\ runners[r].task \in Task /\ tasks' = tasks
          /\ tasks[runners[r].task].state = "open"
      BY <1>0, <2>3, CurrentIsCall DEF LinkTask, AtWork, At, LinksLand, Wakeful, LinkHasTask
    <3>2. Create(Current(r), "ara", runners[r].task)
      BY <2>3, <3>1 DEF LinkTask
    <3>3. invocations'[Current(r)].task = runners[r].task
      BY <1>0, <3>1, <3>2, CreateMakes
    <3> QED BY <3>1, <3>3, TurnAssumption DEF HasWaker, Linked
  <2> QED BY <1>4, <2>1, <2>2, <2>3, WhoseStep, OthersStay, Entries
<1>5. ASSUME turn'.state = "paused"
      PROVE  HasWaker'
  <2>1. CASE turn.state = "paused"
    BY <1>3, <1>5, <2>1 DEF Wakeful, PausedHasWaker
  <2>2. ASSUME NEW r \in Runner, PauseTurn(r)
        PROVE  HasWaker'
    BY <1>3, <1>5, <2>2 DEF PauseTurn, Wakeful, PauserHasWaker
  <2>3. ASSUME NEW r \in Runner, CreateCoordinatorApproval(r)
        PROVE  HasWaker'
    <3>1. Current(r) \in Call
      BY <1>0, <2>3, CurrentIsCall DEF CreateCoordinatorApproval, AtWork, At
    <3>2. approvals' = [approvals EXCEPT ![Current(r)] = "pending"]
      BY <2>3 DEF CreateCoordinatorApproval
    <3>3. approvals'[Current(r)] = "pending"
      BY <1>0, <3>1, <3>2 DEF TypeOK
    <3> QED BY <3>1, <3>3 DEF HasWaker
  <2> QED BY <1>5, <2>1, <2>2, <2>3, WhoPauses
<1>6. LinkHasTask' /\ RemoteAreLinked' /\ UnsettledAreOpen' /\ AwaitedIsPending'
  BY <1>1, <1>2 DEF LinkHasTask, RemoteAreLinked, UnsettledAreOpen, AwaitedIsPending, Linked
<1>7. PauserHasWaker' /\ PausedHasWaker'
  BY <1>4, <1>5 DEF PauserHasWaker, PausedHasWaker
<1> QED BY <1>6, <1>7 DEF Wakeful

\* A lost link is the only way to strand a turn without host commands: streamed,
\* delegated and taken over as it may be, it is paused with nobody to wake it only
\* after a task was linked too late, when it was finished already, or in vain,
\* because the call had an invocation already.
THEOREM LostLinksAloneStrand ==
    HostCall = {} => (Spec /\ [][LinksLand]_vars => []PausedHasWaker)
<1> SUFFICES ASSUME HostCall = {}
             PROVE  Spec /\ [][LinksLand]_vars => []PausedHasWaker
  OBVIOUS
<1>1. Init => Wakeful
  BY DEF Init, Wakeful, LinkHasTask, RemoteAreLinked, UnsettledAreOpen, AwaitedIsPending,
         PauserHasWaker, PausedHasWaker, At, Idle, Linked
<1>2. ASSUME Typed, Grounded, Gate, Wakeful, [Next]_vars, [LinksLand]_vars
      PROVE  Wakeful'
  <2>1. CASE LinksLand
    BY <1>2, <2>1, WakefulNext
  <2>2. CASE UNCHANGED vars
    BY <1>2, <2>2
       DEF vars, Wakeful, LinkHasTask, RemoteAreLinked, UnsettledAreOpen, AwaitedIsPending,
           PauserHasWaker, PausedHasWaker, At, Active, Linked, HasWaker
  <2> QED BY <1>2, <2>1, <2>2
<1> QED BY <1>1, <1>2, GateAlways, PTL DEF Spec, Wakeful
=============================================================================
