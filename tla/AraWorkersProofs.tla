-------------------------- MODULE AraWorkersProofs --------------------------
(***************************************************************************)
(* What holds of the remote agents for any number of them, of tasks, leases *)
(* and lost answers: the types, that a result that was accepted stands, and *)
(* that a worker lets go of a good lease only when it is stopped or when an *)
(* answer is lost.                                                          *)
(***************************************************************************)
EXTENDS AraWorkers, TLAPS

\* What a step that is no stop does to the leases in hand.
Kept ==
    \A a \in Ara, t \in Task, l \in Lease :
        InHand(a, t, l) => InHand(a, t, l)' \/ losses' # losses

States == {"absent", "pending", "leased", "cancelling"} \cup Final
Entry == [task : Task \cup {None}, ara : Ara \cup {None}, live : BOOLEAN]
Standing == [known : BOOLEAN, revoked : BOOLEAN, trusted : BOOLEAN]
-----------------------------------------------------------------------------
(* The store.                                                               *)

\* An agent that registers leaves tasks and leases alone.
LEMMA RegisterTypes ==
    ASSUME StoreTypeOK, NEW a \in Ara, Register(a)
    PROVE  StoreTypeOK'
BY DEF StoreTypeOK, Register

\* A lease is given out: the entry is well formed.
LEMMA LeaseTypes ==
    ASSUME StoreTypeOK, NEW a \in Ara, NEW t \in Task, NEW l \in Lease, LeaseTask(a, t, l)
    PROVE  StoreTypeOK'
<1>1. NoLease \in Entry
  BY DEF NoLease, Entry
<1>2. [task |-> t, ara |-> a, live |-> TRUE] \in Entry
  BY DEF Entry
<1>3. leases \in [Lease \cup Task -> Entry] /\ tasks \in [Task -> States]
  BY DEF StoreTypeOK, Entry, States
<1>4. leases' \in [Lease \cup Task -> Entry]
  BY <1>1, <1>2, <1>3 DEF LeaseTask
<1>5. tasks' \in [Task -> States]
  BY <1>3 DEF LeaseTask, States
<1>6. used' \in SUBSET Lease /\ UNCHANGED <<agents, granted>>
  BY DEF LeaseTask, StoreTypeOK
<1> QED
  BY <1>4, <1>5, <1>6 DEF StoreTypeOK, Entry, States

\* The outcome of a task is one of the final states.
LEMMA FinishTypes ==
    ASSUME StoreTypeOK, NEW t, NEW state \in Final, FinishTask(t, state)
    PROVE  StoreTypeOK'
BY DEF StoreTypeOK, FinishTask, Finished

\* A call of the operator keeps the types.
LEMMA OperateTypes ==
    ASSUME StoreTypeOK, LeasesAssumption, Operate
    PROVE  StoreTypeOK'
<1>1. ASSUME NEW t \in Task, AddTask(t) \/ RequestTaskCancellation(t) \/ Grant(t)
      PROVE  StoreTypeOK'
  <2>1. CASE AddTask(t)
    BY <2>1 DEF AddTask, StoreTypeOK
  <2>2. CASE RequestTaskCancellation(t)
    BY <2>2 DEF RequestTaskCancellation, StoreTypeOK
  <2>3. CASE Grant(t)
    BY <2>3 DEF Grant, StoreTypeOK
  <2> QED
    BY <1>1, <2>1, <2>2, <2>3
<1>2. ASSUME NEW a \in Ara, SetRemoteAgentTrust(a)
      PROVE  StoreTypeOK'
  BY <1>2 DEF SetRemoteAgentTrust, StoreTypeOK
<1>3. ASSUME NEW a \in Ara, RevokeRemoteAgent(a)
      PROVE  StoreTypeOK'
  <2>1. leases \in [Lease \cup Task -> Entry]
    BY DEF StoreTypeOK, Entry
  <2>2. leases' \in [Lease \cup Task -> Entry]
    <3>1. ASSUME NEW k \in Lease \cup Task, NEW l \in Lease \cup Task, leases[l].task = k
          PROVE  [task |-> k, ara |-> a, live |-> FALSE] \in Entry
      <4>1. leases[l] \in Entry
        BY <2>1
      <4>2. leases[l].task \in Task \cup {None}
        BY <4>1 DEF Entry
      <4> QED
        BY <3>1, <4>2 DEF Entry
    <3> QED
      BY <1>3, <2>1, <3>1 DEF RevokeRemoteAgent
  <2>3. agents' \in [Ara -> Standing]
    BY <1>3 DEF RevokeRemoteAgent, StoreTypeOK, Standing
  <2>4. UNCHANGED <<tasks, used, granted>>
    BY <1>3 DEF RevokeRemoteAgent
  <2> QED
    BY <2>2, <2>3, <2>4 DEF StoreTypeOK, Entry, Standing
<1> QED
  BY <1>1, <1>2, <1>3 DEF Operate

\* A lease that runs out stays well formed.
LEMMA LapseTypes ==
    ASSUME StoreTypeOK, NEW l \in Lease, Lapse(l)
    PROVE  StoreTypeOK'
<1>1. leases \in [Lease \cup Task -> Entry]
  BY DEF StoreTypeOK, Entry
<1>2. leases' \in [Lease \cup Task -> Entry]
  <2>1. [leases[l] EXCEPT !.live = FALSE] \in Entry
    BY <1>1 DEF Entry
  <2>2. leases' = [leases EXCEPT ![l] = [leases[l] EXCEPT !.live = FALSE]]
    BY DEF Lapse
  <2> QED
    BY <1>1, <2>1, <2>2
<1> QED
  BY <1>2 DEF Lapse, StoreTypeOK, Entry
-----------------------------------------------------------------------------
(* The workers.                                                             *)

PCs == {"ended", "stopped", "poll", "progress", "work", "heartbeat", "renew", "cancel",
        "report", "complete", "fail"}

\* A worker that goes on with its task is a worker.
LEMMA GoesOn ==
    ASSUME WorkersAssumption, NEW w \in Worker, NEW pc \in PCs
    PROVE  /\ [w EXCEPT !.pc = pc, !.posts = 0] \in Worker
           /\ \A e \in {"none", "running", "done", "raised", "cancelled"} :
                  [w EXCEPT !.pc = pc, !.posts = 0, !.execution = e] \in Worker
<1>1. 0 \in 0 .. Attempts
  BY DEF WorkersAssumption
<1>2. [w EXCEPT !.pc = pc] \in Worker
  BY DEF Worker, PCs
<1>3. [w EXCEPT !.pc = pc, !.posts = 0] \in Worker
  <2>1. ASSUME NEW v \in Worker PROVE [v EXCEPT !.posts = 0] \in Worker
    BY <1>1 DEF Worker
  <2> QED
    BY <1>2, <2>1
<1>4. ASSUME NEW v \in Worker, NEW e \in {"none", "running", "done", "raised", "cancelled"}
      PROVE  [v EXCEPT !.execution = e] \in Worker
  BY DEF Worker
<1> QED
  BY <1>3, <1>4

\* A worker that was given a task is a worker.
LEMMA TakesTask ==
    ASSUME WorkersAssumption, NEW t \in Task, NEW l \in Lease
    PROVE  [Fresh("progress") EXCEPT !.task = t, !.lease = l] \in Worker
<1>1. 0 \in 0 .. Attempts
  BY DEF WorkersAssumption
<1>2. Fresh("progress") \in Worker
  BY <1>1 DEF Fresh, Worker
<1>3. ASSUME NEW v \in Worker PROVE [v EXCEPT !.task = t] \in Worker
  BY DEF Worker
<1>4. ASSUME NEW v \in Worker PROVE [v EXCEPT !.lease = l] \in Worker
  BY DEF Worker
<1> QED
  BY <1>2, <1>3, <1>4

\* What a call leaves behind fits: the worker goes on at pc.
LEMMA GoesTypes ==
    ASSUME TypeOK, WorkersAssumption, NEW a \in Ara, NEW pc \in PCs, Goes(a, pc)
    PROVE  workers' \in [Ara -> Worker]
<1>1. workers \in [Ara -> Worker]
  BY DEF TypeOK
<1>2. Fresh(pc) \in Worker
  BY DEF Fresh, Worker, PCs, WorkersAssumption
<1>3. [workers[a] EXCEPT !.pc = pc, !.posts = 0] \in Worker
  BY <1>1, GoesOn
<1>4. workers' = [workers EXCEPT ![a] = IF pc \in {"poll", "ended", "stopped"} THEN Fresh(pc)
                     ELSE [workers[a] EXCEPT !.pc = pc, !.posts = 0]]
  BY DEF Goes
<1> QED
  BY <1>1, <1>2, <1>3, <1>4

\* ... or posts again.
LEMMA UnansweredTypes ==
    ASSUME TypeOK, WorkersAssumption, NEW a \in Ara, NEW pc \in PCs, Unanswered(a, pc)
    PROVE  workers' \in [Ara -> Worker] /\ losses' \in 0 .. MaxLosses
<1>1. losses' \in 0 .. MaxLosses
  BY DEF Unanswered, TypeOK, WorkersAssumption
<1>2. CASE workers[a].posts + 1 < Attempts
  <2>1. workers \in [Ara -> Worker]
    BY DEF TypeOK
  <2>2. [workers[a] EXCEPT !.posts = workers[a].posts + 1] \in Worker
    BY <1>2, <2>1 DEF Worker, WorkersAssumption
  <2>3. workers' = [workers EXCEPT ![a] = [workers[a] EXCEPT !.posts = workers[a].posts + 1]]
    BY <1>2 DEF Unanswered
  <2> QED
    BY <1>1, <2>1, <2>2, <2>3
<1>3. CASE ~(workers[a].posts + 1 < Attempts)
  BY <1>1, <1>3, GoesTypes DEF Unanswered
<1> QED
  BY <1>2, <1>3

\* ... with its answer or without.
LEMMA ReplyTypes ==
    ASSUME TypeOK, WorkersAssumption, NEW a \in Ara, NEW pc \in PCs, NEW raised \in PCs,
           Reply(a, pc, raised)
    PROVE  workers' \in [Ara -> Worker] /\ losses' \in 0 .. MaxLosses
<1>1. losses \in 0 .. MaxLosses
  BY DEF TypeOK
<1> QED
  BY <1>1, GoesTypes, UnansweredTypes DEF Reply, Answered

\* A call that only asks.
LEMMA CheckTypes ==
    ASSUME TypeOK, WorkersAssumption, NEW a \in Ara, NEW pc \in PCs, NEW raised \in PCs,
           Check(a, pc, raised)
    PROVE  StoreTypeOK' /\ workers' \in [Ara -> Worker] /\ losses' \in 0 .. MaxLosses
<1>1. workers' \in [Ara -> Worker] /\ losses' \in 0 .. MaxLosses
  BY ReplyTypes, UnansweredTypes DEF Check
<1>2. StoreTypeOK'
  BY DEF Check, TypeOK, storeVars, StoreTypeOK
<1> QED
  BY <1>1, <1>2

\* A report.
LEMMA ReportTypes ==
    ASSUME TypeOK, WorkersAssumption, NEW a \in Ara, NEW state \in Final,
           NEW pc \in PCs, NEW raised \in PCs, Report(a, state, pc, raised)
    PROVE  StoreTypeOK' /\ workers' \in [Ara -> Worker] /\ losses' \in 0 .. MaxLosses
<1>1. workers' \in [Ara -> Worker] /\ losses' \in 0 .. MaxLosses
  BY ReplyTypes, UnansweredTypes DEF Report
<1>2. StoreTypeOK'
  <2>1. CASE UNCHANGED storeVars
    BY <2>1 DEF TypeOK, storeVars, StoreTypeOK
  <2>2. CASE FinishTask(workers[a].task, state)
    BY <2>2, FinishTypes DEF TypeOK
  <2> QED
    BY <2>1, <2>2 DEF Report
<1> QED
  BY <1>1, <1>2

\* A step of a worker keeps the types.
LEMMA StepTypes ==
    ASSUME TypeOK, LeasesAssumption, WorkersAssumption, NEW a \in Ara, WorkerStep(a)
    PROVE  StoreTypeOK' /\ workers' \in [Ara -> Worker] /\ losses' \in 0 .. MaxLosses
<1>1. workers \in [Ara -> Worker] /\ losses \in 0 .. MaxLosses /\ StoreTypeOK
  BY DEF TypeOK
<1>2. UNCHANGED storeVars => StoreTypeOK'
  BY <1>1 DEF storeVars, StoreTypeOK
<1>3. CASE Start(a)
  BY <1>1, <1>3, RegisterTypes, GoesTypes DEF Start, Answered, PCs
<1>4. CASE Poll(a)
  <2>1. PICK t \in Task, l \in Lease :
            /\ LeaseTask(a, t, l)
            /\ \/ /\ workers' = [workers EXCEPT ![a] = [Fresh("progress") EXCEPT
                                                           !.task = t, !.lease = l]]
                  /\ UNCHANGED losses
               \/ Unanswered(a, "poll")
    BY <1>4 DEF Poll
  <2>2. [Fresh("progress") EXCEPT !.task = t, !.lease = l] \in Worker
    BY TakesTask
  <2>3. StoreTypeOK'
    BY <1>1, <2>1, LeaseTypes
  <2>4. workers' \in [Ara -> Worker] /\ losses' \in 0 .. MaxLosses
    BY <1>1, <2>1, <2>2, UnansweredTypes DEF PCs
  <2> QED
    BY <2>3, <2>4
<1>5. CASE Progress(a)
  <2>1. [workers[a] EXCEPT !.pc = "work", !.posts = 0, !.execution = "running"] \in Worker
    BY <1>1, GoesOn DEF PCs
  <2>2. \/ workers' = [workers EXCEPT ![a] =
                          [workers[a] EXCEPT !.pc = "work", !.posts = 0,
                                             !.execution = "running"]]
           /\ UNCHANGED losses
        \/ Unanswered(a, "ended")
        \/ Reply(a, "ended", "ended")
    BY <1>5 DEF Progress
  <2>3. workers' \in [Ara -> Worker] /\ losses' \in 0 .. MaxLosses
    BY <1>1, <2>1, <2>2, UnansweredTypes, ReplyTypes DEF PCs
  <2> QED
    BY <1>2, <1>5, <2>3 DEF Progress
<1>6. CASE Execute(a)
  <2>1. PICK outcome \in {"done", "raised"} :
            workers' = [workers EXCEPT ![a].execution = outcome]
    BY <1>6 DEF Execute
  <2>2. [workers[a] EXCEPT !.execution = outcome] \in Worker
    BY <1>1 DEF Worker
  <2>3. workers' \in [Ara -> Worker] /\ losses' \in 0 .. MaxLosses
    BY <1>1, <1>6, <2>1, <2>2 DEF Execute
  <2> QED
    BY <1>2, <1>6, <2>3 DEF Execute
<1>7. CASE LoopOrReport(a)
  BY <1>1, <1>2, <1>7, GoesTypes DEF LoopOrReport, Answered, PCs
<1>8. CASE Heartbeat(a)
  <2>1. CASE Check(a, "renew", "fail")
    BY <2>1, CheckTypes DEF PCs
  <2>2. CASE Unanswered(a, "fail") /\ UNCHANGED storeVars
    BY <1>2, <2>2, UnansweredTypes DEF PCs
  <2>3. CASE /\ workers' = [workers EXCEPT
                          ![a].pc = "cancel", ![a].posts = 0,
                          ![a].execution = IF @ = "running" THEN "cancelled" ELSE @]
             /\ UNCHANGED <<storeVars, losses>>
    <3>1. PICK e \in {"none", "running", "done", "raised", "cancelled"} :
              workers' = [workers EXCEPT ![a] =
                              [workers[a] EXCEPT !.pc = "cancel", !.posts = 0,
                                                 !.execution = e]]
      BY <1>1, <2>3 DEF Worker
    <3>2. [workers[a] EXCEPT !.pc = "cancel", !.posts = 0, !.execution = e] \in Worker
      BY <1>1, GoesOn DEF PCs
    <3>3. workers' \in [Ara -> Worker]
      BY <1>1, <3>1, <3>2
    <3> QED
      BY <1>1, <1>2, <2>3, <3>3
  <2> QED
    BY <1>8, <2>1, <2>2, <2>3 DEF Heartbeat
<1>9. CASE Renew(a)
  BY <1>9, CheckTypes DEF Renew, PCs
<1>10. CASE Cancel(a)
  BY <1>10, ReportTypes DEF Cancel, PCs, Final
<1>11. CASE Await(a)
  BY <1>1, <1>2, <1>11, GoesTypes DEF Await, Answered, PCs
<1>12. CASE Complete(a)
  BY <1>12, ReportTypes DEF Complete, PCs, Final
<1>13. CASE Fail(a)
  BY <1>13, ReportTypes DEF Fail, PCs, Final
<1>14. CASE Stop(a)
  BY <1>1, <1>2, <1>14, GoesTypes DEF Stop, Answered, PCs
<1> QED
  BY <1>3, <1>4, <1>5, <1>6, <1>7, <1>8, <1>9, <1>10, <1>11, <1>12, <1>13, <1>14
     DEF WorkerStep
-----------------------------------------------------------------------------
(* Who holds what.                                                          *)

\* A step that makes no lease good and lets a worker keep what it has.
LEMMA KeepsRule ==
    ASSUME \A a \in Ara, t \in Task, l \in Lease :
               InHand(a, t, l) /\ ActiveLease(a, t, l)'
                   => ActiveLease(a, t, l) /\ (Holder(a, t, l) => Holder(a, t, l)')
    PROVE  Kept
BY DEF Kept, InHand

\* A call answered at a pc where the worker keeps its task: it holds on.
LEMMA GoesHolds ==
    ASSUME TypeOK, NEW a \in Ara, NEW pc \in PCs \ {"poll", "ended", "stopped"}, Goes(a, pc)
    PROVE  \A b \in Ara, t \in Task, l \in Lease : Holder(b, t, l) => Holder(b, t, l)'
<1>1. workers \in [Ara -> Worker]
  BY DEF TypeOK
<1>2. workers' = [workers EXCEPT ![a] = [workers[a] EXCEPT !.pc = pc, !.posts = 0]]
  BY DEF Goes
<1>3. [workers[a] EXCEPT !.pc = pc, !.posts = 0].task = workers[a].task
  BY <1>1 DEF Worker
<1>4. [workers[a] EXCEPT !.pc = pc, !.posts = 0].lease = workers[a].lease
  BY <1>1 DEF Worker
<1>5. [workers[a] EXCEPT !.pc = pc, !.posts = 0].pc = pc
  BY <1>1 DEF Worker
<1> QED
  BY <1>1, <1>2, <1>3, <1>4, <1>5 DEF Holder

\* An unanswered call counts as a loss.
LEMMA UnansweredLoses ==
    ASSUME TypeOK, WorkersAssumption, NEW a \in Ara, NEW pc, Unanswered(a, pc)
    PROVE  losses' # losses
BY DEF TypeOK, Unanswered, WorkersAssumption

\* The other workers are as they were.
LEMMA OthersHold ==
    ASSUME TypeOK, NEW a \in Ara, NEW w, workers' = [workers EXCEPT ![a] = w],
           NEW b \in Ara \ {a}, NEW t \in Task, NEW l \in Lease, Holder(b, t, l)
    PROVE  Holder(b, t, l)'
BY DEF TypeOK, Holder

\* A call that goes wrong lets a worker go only when it has no good lease.
LEMMA RefusedHolds ==
    ASSUME TypeOK, NEW a \in Ara, NEW pc \in PCs, Goes(a, pc), UNCHANGED losses,
           UNCHANGED storeVars, ~Active(a) \/ pc \notin {"poll", "ended", "stopped"}
    PROVE  Kept
<1>2. SUFFICES ASSUME NEW b \in Ara, NEW t \in Task, NEW l \in Lease,
                      InHand(b, t, l), ActiveLease(b, t, l)'
               PROVE  ActiveLease(b, t, l) /\ (Holder(b, t, l) => Holder(b, t, l)')
  BY KeepsRule
<1>3. ActiveLease(b, t, l)
  BY <1>2 DEF ActiveLease, storeVars
<1>4. CASE pc \notin {"poll", "ended", "stopped"}
  BY <1>3, <1>4, GoesHolds
<1>5. CASE ~Active(a)
  <2>1. Holder(b, t, l)
    BY <1>2, <1>3 DEF InHand
  <2>2. t # None /\ l # None
    BY LeasesAssumption DEF LeasesAssumption
  <2>3. b # a
    BY <1>3, <1>5, <2>1, <2>2 DEF Active, Holder
  <2>4. workers' = [workers EXCEPT ![a] = IF pc \in {"poll", "ended", "stopped"} THEN Fresh(pc)
                     ELSE [workers[a] EXCEPT !.pc = pc, !.posts = 0]]
    BY DEF Goes
  <2>5. Holder(b, t, l)'
    BY <2>1, <2>3, <2>4, OthersHold
  <2> QED
    BY <1>3, <2>5
<1> QED
  BY <1>4, <1>5
\* A call that only asks.
LEMMA CheckHolds ==
    ASSUME TypeOK, WorkersAssumption, NEW a \in Ara, NEW pc \in PCs \ {"poll", "ended", "stopped"},
           NEW raised \in PCs, Check(a, pc, raised)
    PROVE  Kept
<1>1. CASE Unanswered(a, pc) \/ Unanswered(a, raised)
  BY <1>1, UnansweredLoses DEF Kept
<1>2. CASE Answered(a, pc)
  BY <1>2, RefusedHolds DEF Check, Answered
<1>3. CASE ~Active(a) /\ Answered(a, raised)
  BY <1>3, RefusedHolds DEF Check, Answered
<1> QED
  BY <1>1, <1>2, <1>3 DEF Check, Reply

\* A report that was accepted leaves nobody with a lease for the task.
LEMMA AcceptedHolds ==
    ASSUME TypeOK, NEW a \in Ara, NEW state \in Final, NEW pc,
           FinishTask(workers[a].task, state), Answered(a, pc)
    PROVE  Kept
<1>2. SUFFICES ASSUME NEW b \in Ara, NEW t \in Task, NEW l \in Lease,
                      InHand(b, t, l), ActiveLease(b, t, l)'
               PROVE  ActiveLease(b, t, l) /\ (Holder(b, t, l) => Holder(b, t, l)')
  BY KeepsRule
<1>3. tasks \in [Task -> States]
  BY DEF TypeOK, StoreTypeOK, States
<1>4. tasks' = [tasks EXCEPT ![workers[a].task] = state] /\ leases' = leases
  BY DEF FinishTask, Finished
<1>5. tasks'[t] \in {"leased", "cancelling"}
  BY <1>2 DEF ActiveLease
<1>6. t # workers[a].task /\ tasks'[t] = tasks[t]
  BY <1>3, <1>4, <1>5 DEF Final
<1>7. ActiveLease(b, t, l)
  BY <1>2, <1>4, <1>6 DEF ActiveLease
<1>8. Holder(b, t, l)
  BY <1>2, <1>7 DEF InHand
<1>9. b # a
  BY <1>6, <1>8 DEF Holder
<1>10. PICK w : workers' = [workers EXCEPT ![a] = w]
  BY DEF Answered, Goes
<1> QED
  BY <1>7, <1>8, <1>9, <1>10, OthersHold

\* A report.
LEMMA ReportHolds ==
    ASSUME TypeOK, WorkersAssumption, NEW a \in Ara, NEW state \in Final,
           NEW pc \in PCs, NEW raised \in PCs,
           state # "completed" \/ raised \notin {"poll", "ended", "stopped"},
           Report(a, state, pc, raised)
    PROVE  Kept
<1>1. CASE Unanswered(a, raised)
  BY <1>1, UnansweredLoses DEF Kept
<1>2. CASE FinishTask(workers[a].task, state) /\ Answered(a, pc)
  BY <1>2, AcceptedHolds
<1>3. CASE /\ ~Accepts(a, workers[a].task, workers[a].lease, state)
           /\ UNCHANGED storeVars /\ Answered(a, raised)
  <2>1. state # "completed" => ~Active(a)
    BY <1>3 DEF Accepts, Active
  <2> QED
    BY <1>3, <2>1, RefusedHolds DEF Answered
<1> QED
  BY <1>1, <1>2, <1>3 DEF Report, Reply

\* A worker that waits is given a task, and nobody else loses one.
LEMMA PollHolds ==
    ASSUME TypeOK, LeasesAssumption, WorkersAssumption, NEW a \in Ara, Poll(a)
    PROVE  Kept
<1>1. PICK u \in Task, k \in Lease :
          /\ LeaseTask(a, u, k)
          /\ \/ /\ workers' = [workers EXCEPT ![a] = [Fresh("progress") EXCEPT
                                                         !.task = u, !.lease = k]]
                /\ UNCHANGED losses
             \/ Unanswered(a, "poll")
  BY DEF Poll
<1>2. CASE Unanswered(a, "poll")
  BY <1>2, UnansweredLoses DEF Kept
<1>3. CASE /\ workers' = [workers EXCEPT ![a] = [Fresh("progress") EXCEPT
                                                     !.task = u, !.lease = k]]
           /\ UNCHANGED losses
  <2>1. TypeOK /\ workers \in [Ara -> Worker]
    BY DEF TypeOK
  <2>2. SUFFICES ASSUME NEW b \in Ara, NEW t \in Task, NEW l \in Lease,
                        InHand(b, t, l), ActiveLease(b, t, l)'
                 PROVE  Holder(b, t, l)'
    BY <1>3 DEF Kept, InHand
  <2>3. tasks \in [Task -> States] /\ leases \in [Lease \cup Task -> Entry]
    BY <2>1 DEF TypeOK, StoreTypeOK, States, Entry
  <2>4. leases'[l] = IF l = k THEN [task |-> u, ara |-> a, live |-> TRUE]
                     ELSE IF leases[l].task = u THEN NoLease ELSE leases[l]
    BY <1>1 DEF LeaseTask
  <2>5. CASE l = k
    <3>1. b = a /\ t = u
      BY <2>2, <2>4, <2>5 DEF ActiveLease
    <3>2. workers'[a] = [Fresh("progress") EXCEPT !.task = u, !.lease = k]
      BY <1>3, <2>1
    <3>3. workers'[a].task = u
      BY <3>2 DEF Fresh
    <3>4. workers'[a].lease = k
      BY <3>2 DEF Fresh
    <3>5. workers'[a].pc = "progress"
      BY <3>2 DEF Fresh
    <3> QED
      BY <2>5, <3>1, <3>3, <3>4, <3>5 DEF Holder
  <2>6. CASE l # k
    <3>1. leases'[l].task = t /\ leases'[l].ara = b /\ leases'[l].live
          /\ tasks'[t] \in {"leased", "cancelling"}
      BY <2>2 DEF ActiveLease
    <3>2. leases[l].task # u /\ leases'[l] = leases[l]
      BY <2>4, <2>6, <3>1 DEF NoLease
    <3>3. t # u /\ tasks'[t] = tasks[t]
      BY <1>1, <2>3, <3>1, <3>2 DEF LeaseTask
    <3>4. ActiveLease(b, t, l)
      BY <3>1, <3>2, <3>3 DEF ActiveLease
    <3>5. Holder(b, t, l)
      BY <2>2, <3>4 DEF InHand
    <3>6. b # a
      BY <3>5 DEF Poll, Holder
    <3> QED
      BY <1>3, <2>1, <3>5, <3>6, OthersHold
  <2> QED
    BY <2>5, <2>6
<1> QED
  BY <1>1, <1>2, <1>3

\* A call of the operator, or the lapse of a lease, makes no lease good.
LEMMA StoreHolds ==
    ASSUME TypeOK, LeasesAssumption, UNCHANGED <<workers, losses>>,
           Operate \/ (\E l \in Lease : Lapse(l)) \/ (\E a \in Ara : Register(a))
    PROVE  Kept
<1>1. SUFFICES ASSUME NEW b \in Ara, NEW t \in Task, NEW l \in Lease,
                      InHand(b, t, l), ActiveLease(b, t, l)'
               PROVE  ActiveLease(b, t, l)
  BY KeepsRule DEF Holder
<1>2. tasks \in [Task -> States] /\ leases \in [Lease \cup Task -> Entry]
  BY DEF TypeOK, StoreTypeOK, States, Entry
<1>3. CASE \E u \in Task : AddTask(u) \/ RequestTaskCancellation(u) \/ Grant(u)
  <2>1. PICK u \in Task : AddTask(u) \/ RequestTaskCancellation(u) \/ Grant(u)
    BY <1>3
  <2>2. CASE AddTask(u)
    BY <1>1, <1>2, <2>2 DEF AddTask, ActiveLease
  <2>3. CASE RequestTaskCancellation(u)
    BY <1>1, <1>2, <2>3 DEF RequestTaskCancellation, ActiveLease
  <2>4. CASE Grant(u)
    BY <1>1, <2>4 DEF Grant, ActiveLease
  <2> QED
    BY <2>1, <2>2, <2>3, <2>4
<1>4. CASE \E a \in Ara : SetRemoteAgentTrust(a) \/ Register(a)
  BY <1>1, <1>4 DEF SetRemoteAgentTrust, Register, ActiveLease
<1>5. CASE \E a \in Ara : RevokeRemoteAgent(a)
  <2>1. PICK a \in Ara : RevokeRemoteAgent(a)
    BY <1>5
  <2>2. ASSUME NEW k \in Lease \cup Task PROVE leases[k].task # l
    <3>1. leases[k] \in Entry
      BY <1>2
    <3>2. leases[k].task \in Task \cup {None}
      BY <3>1 DEF Entry
    <3> QED
      BY <3>2 DEF LeasesAssumption
  <2>3. leases'[l] = leases[l] /\ tasks' = tasks
    BY <2>1, <2>2 DEF RevokeRemoteAgent
  <2> QED
    BY <1>1, <2>3 DEF ActiveLease
<1>6. CASE \E k \in Lease : Lapse(k)
  <2>1. PICK k \in Lease : Lapse(k)
    BY <1>6
  <2>2. leases' = [leases EXCEPT ![k] = [leases[k] EXCEPT !.live = FALSE]] /\ tasks' = tasks
    BY <2>1 DEF Lapse
  <2>3. leases[k] \in Entry
    BY <1>2
  <2>4. leases'[k].live = FALSE
    BY <1>2, <2>2, <2>3 DEF Entry
  <2>5. l # k
    BY <1>1, <2>4 DEF ActiveLease
  <2>6. leases'[l] = leases[l]
    BY <1>2, <2>2, <2>5
  <2> QED
    BY <1>1, <2>2, <2>6 DEF ActiveLease
<1> QED
  BY <1>3, <1>4, <1>5, <1>6 DEF Operate
\* A worker that changes but what it executes, or its pc to a busy one, holds on.
LEMMA BusyHolds ==
    ASSUME TypeOK, NEW a \in Ara, NEW w \in Worker, workers' = [workers EXCEPT ![a] = w],
           w.task = workers[a].task, w.lease = workers[a].lease,
           w.pc \notin {"poll", "ended", "stopped"} \/ w.pc = workers[a].pc,
           UNCHANGED <<storeVars, losses>>
    PROVE  Kept
<1>1. workers \in [Ara -> Worker]
  BY DEF TypeOK
<1>2. SUFFICES ASSUME NEW b \in Ara, NEW t \in Task, NEW l \in Lease,
                      InHand(b, t, l), ActiveLease(b, t, l)'
               PROVE  ActiveLease(b, t, l) /\ (Holder(b, t, l) => Holder(b, t, l)')
  BY KeepsRule
<1>3. ActiveLease(b, t, l)
  BY <1>2 DEF ActiveLease, storeVars
<1>4. CASE b = a
  <2>1. workers'[a] = w
    BY <1>1
  <2> QED
    BY <1>3, <1>4, <2>1 DEF Holder
<1>5. CASE b # a
  BY <1>3, <1>5, OthersHold
<1> QED
  BY <1>4, <1>5

\* A step of a worker keeps the rule.
LEMMA StepHolds ==
    ASSUME TypeOK, LeasesAssumption, WorkersAssumption, NEW a \in Ara,
           WorkerStep(a), ~Stop(a)
    PROVE  Kept
<1>1. TypeOK /\ workers \in [Ara -> Worker]
  BY DEF TypeOK
<1>2. CASE Start(a)
  <2>1. SUFFICES ASSUME NEW b \in Ara, NEW t \in Task, NEW l \in Lease,
                        InHand(b, t, l), ActiveLease(b, t, l)'
                 PROVE  ActiveLease(b, t, l) /\ (Holder(b, t, l) => Holder(b, t, l)')
    BY <1>2, KeepsRule DEF Start, Answered
  <2>2. ActiveLease(b, t, l)
    BY <1>2, <2>1 DEF Start, Register, ActiveLease
  <2>3. Holder(b, t, l)
    BY <2>1, <2>2 DEF InHand
  <2>4. b # a
    BY <1>2, <2>3 DEF Start, Holder
  <2>5. PICK w : workers' = [workers EXCEPT ![a] = w]
    BY <1>2 DEF Start, Answered, Goes
  <2> QED
    BY <1>1, <2>2, <2>3, <2>4, <2>5, OthersHold
<1>3. CASE Poll(a)
  BY <1>3, PollHolds
<1>4. CASE Progress(a)
  <2>1. CASE Unanswered(a, "ended")
    BY <1>1, <2>1, UnansweredLoses DEF Kept
  <2>2. CASE ~Active(a) /\ Answered(a, "ended")
    BY <1>4, <2>2, RefusedHolds DEF Progress, Answered, PCs
  <2>3. CASE /\ workers' = [workers EXCEPT ![a].pc = "work", ![a].posts = 0,
                                           ![a].execution = "running"]
             /\ UNCHANGED losses
    <3> DEFINE w == [workers[a] EXCEPT !.pc = "work", !.posts = 0, !.execution = "running"]
    <3>1. w \in Worker
      BY <1>1, GoesOn DEF PCs
    <3>2. w.task = workers[a].task
      BY <1>1 DEF Worker
    <3>3. w.lease = workers[a].lease
      BY <1>1 DEF Worker
    <3>4. w.pc = "work"
      BY <1>1 DEF Worker
    <3>5. workers' = [workers EXCEPT ![a] = w]
      BY <2>3
    <3> HIDE DEF w
    <3> QED
      BY <1>4, <2>3, <3>1, <3>2, <3>3, <3>4, <3>5, BusyHolds DEF Progress
  <2> QED
    BY <1>4, <2>1, <2>2, <2>3 DEF Progress, Reply
<1>5. CASE Execute(a)
  <2>1. PICK outcome \in {"done", "raised"} :
            workers' = [workers EXCEPT ![a] = [workers[a] EXCEPT !.execution = outcome]]
    BY <1>5 DEF Execute
  <2> DEFINE w == [workers[a] EXCEPT !.execution = outcome]
  <2>2. w \in Worker
    BY <1>1 DEF Worker
  <2>3. w.task = workers[a].task /\ w.lease = workers[a].lease /\ w.pc = workers[a].pc
    BY <1>1 DEF Worker
  <2>4. workers' = [workers EXCEPT ![a] = w]
    BY <2>1
  <2> HIDE DEF w
  <2> QED
    BY <1>5, <2>2, <2>3, <2>4, BusyHolds DEF Execute
<1>6. CASE LoopOrReport(a)
  BY <1>6, RefusedHolds DEF LoopOrReport, Answered, PCs
<1>7. CASE Heartbeat(a)
  <2>1. CASE Check(a, "renew", "fail")
    BY <2>1, CheckHolds DEF PCs
  <2>2. CASE Unanswered(a, "fail")
    BY <1>1, <2>2, UnansweredLoses DEF Kept
  <2>3. CASE /\ workers' = [workers EXCEPT
                          ![a].pc = "cancel", ![a].posts = 0,
                          ![a].execution = IF @ = "running" THEN "cancelled" ELSE @]
             /\ UNCHANGED <<storeVars, losses>>
    <3>1. PICK e \in {"none", "running", "done", "raised", "cancelled"} :
              workers' = [workers EXCEPT ![a] =
                              [workers[a] EXCEPT !.pc = "cancel", !.posts = 0,
                                                 !.execution = e]]
      BY <1>1, <2>3 DEF Worker
    <3> DEFINE w == [workers[a] EXCEPT !.pc = "cancel", !.posts = 0, !.execution = e]
    <3>2. w \in Worker
      BY <1>1, GoesOn DEF PCs
    <3>3. w.task = workers[a].task
      BY <1>1 DEF Worker
    <3>4. w.lease = workers[a].lease
      BY <1>1 DEF Worker
    <3>5. w.pc = "cancel"
      BY <1>1 DEF Worker
    <3>6. workers' = [workers EXCEPT ![a] = w]
      BY <3>1
    <3> HIDE DEF w
    <3> QED
      BY <2>3, <3>2, <3>3, <3>4, <3>5, <3>6, BusyHolds
  <2> QED
    BY <1>7, <2>1, <2>2, <2>3 DEF Heartbeat
<1>8. CASE Renew(a)
  BY <1>8, CheckHolds DEF Renew, PCs
<1>9. CASE Cancel(a)
  BY <1>9, ReportHolds DEF Cancel, PCs, Final
<1>10. CASE Await(a)
  BY <1>10, RefusedHolds DEF Await, Answered, PCs
<1>11. CASE Complete(a)
  BY <1>11, ReportHolds DEF Complete, PCs, Final
<1>12. CASE Fail(a)
  BY <1>12, ReportHolds DEF Fail, PCs, Final
<1> QED
  BY <1>2, <1>3, <1>4, <1>5, <1>6, <1>7, <1>8, <1>9, <1>10, <1>11, <1>12 DEF WorkerStep
-----------------------------------------------------------------------------
(* The theorems.                                                            *)

\* The fields of tasks, leases, agents and workers keep their types.
THEOREM WorkersTypeCorrect == Spec => []TypeOK
<1>1. Init => TypeOK
  <2>1. Fresh("ended") \in Worker
    BY WorkersAssumption DEF Fresh, Worker, WorkersAssumption
  <2> QED
    BY <2>1, WorkersAssumption, LeasesAssumption
       DEF Init, StoreInit, TypeOK, StoreTypeOK, NoLease, NoAgent, WorkersAssumption
<1>2. TypeOK /\ [Next]_vars => TypeOK'
  <2> SUFFICES ASSUME TypeOK, [Next]_vars PROVE TypeOK'
    OBVIOUS
  <2> USE LeasesAssumption, WorkersAssumption
  <2>1. StoreTypeOK
    BY DEF TypeOK
  <2>2. CASE \E a \in Ara : WorkerStep(a) /\ UNCHANGED lapses
    <3>1. PICK a \in Ara : WorkerStep(a) /\ UNCHANGED lapses
      BY <2>2
    <3>2. StoreTypeOK' /\ workers' \in [Ara -> Worker] /\ losses' \in 0 .. MaxLosses
      BY <3>1, StepTypes
    <3> QED
      BY <3>1, <3>2 DEF TypeOK
  <2>3. CASE Operate /\ UNCHANGED <<workers, losses, lapses>>
    <3>1. StoreTypeOK'
      BY <2>1, <2>3, OperateTypes
    <3> QED
      BY <2>3, <3>1 DEF TypeOK
  <2>4. CASE \E l \in Lease : RunOut(l) /\ UNCHANGED <<workers, losses>>
    <3>1. PICK l \in Lease : RunOut(l) /\ UNCHANGED <<workers, losses>>
      BY <2>4
    <3>2. StoreTypeOK'
      BY <2>1, <3>1, LapseTypes DEF RunOut
    <3>3. lapses' \in 0 .. MaxLapses
      BY <3>1 DEF RunOut, TypeOK, WorkersAssumption
    <3> QED
      BY <3>1, <3>2, <3>3 DEF TypeOK
  <2>5. CASE UNCHANGED vars
    BY <2>5 DEF vars, storeVars, TypeOK, StoreTypeOK
  <2> QED
    BY <2>2, <2>3, <2>4, <2>5 DEF Next
<1> QED
  BY <1>1, <1>2, PTL DEF Spec

\* A worker lets go of a good lease only when it is stopped or loses an answer:
\* the loop serve forgets no task, whichever way it leaves it by itself.
THEOREM NoTaskForgotten == Spec => OnlyStopsAndLossesForget
<1> DEFINE Step == \A a \in Ara, t \in Task, l \in Lease :
                      InHand(a, t, l) => InHand(a, t, l)' \/ Stop(a) \/ losses' # losses
<1>1. TypeOK /\ [Next]_vars => [Step]_vars
  <2> SUFFICES ASSUME TypeOK, Next, NEW a \in Ara, NEW t \in Task, NEW l \in Lease,
                      InHand(a, t, l)
               PROVE  InHand(a, t, l)' \/ Stop(a) \/ losses' # losses
    OBVIOUS
  <2> USE LeasesAssumption, WorkersAssumption
  <2>1. ASSUME NEW b \in Ara, WorkerStep(b), ~Stop(b)
        PROVE  InHand(a, t, l)' \/ losses' # losses
    BY <2>1, StepHolds DEF Kept
  <2>2. ASSUME NEW b \in Ara \ {a}, Stop(b)
        PROVE  InHand(a, t, l)'
    BY <2>2, OthersHold DEF Stop, Answered, Goes, InHand, ActiveLease, storeVars
  <2>3. CASE \/ Operate /\ UNCHANGED <<workers, losses, lapses>>
             \/ \E k \in Lease : RunOut(k) /\ UNCHANGED <<workers, losses>>
    BY <2>3, StoreHolds DEF Kept, RunOut
  <2> QED
    BY <2>1, <2>2, <2>3 DEF Next
<1> QED
  BY <1>1, WorkersTypeCorrect, PTL DEF Spec, OnlyStopsAndLossesForget

\* A report that finish_task accepted stands until the task is leased again.
THEOREM AcceptedResultStands == Spec => ResultStands
<1> DEFINE Stands == \A t \in Task :
                        tasks[t] \in Final /\ tasks'[t] # tasks[t]
                            => tasks'[t] = "leased" /\ used' # used
<1>1. TypeOK /\ [Next]_vars => [Stands]_vars
  <2> SUFFICES ASSUME TypeOK, [Next]_vars, NEW t \in Task,
                      tasks[t] \in Final, tasks'[t] # tasks[t]
               PROVE  tasks'[t] = "leased" /\ used' # used
    OBVIOUS
  <2>1. tasks \in [Task -> States]
    BY DEF TypeOK, StoreTypeOK, States
  <2>2. tasks' # tasks
    OBVIOUS
  <2>3. ASSUME NEW a \in Ara, NEW state, NEW pc, NEW raised, Report(a, state, pc, raised)
        PROVE  FALSE
    <3>1. Accepts(a, workers[a].task, workers[a].lease, state)
          /\ FinishTask(workers[a].task, state)
      BY <2>2, <2>3 DEF Report, storeVars
    <3>2. tasks[workers[a].task] \in {"leased", "cancelling"}
      BY <3>1 DEF Accepts, ActiveLease
    <3>3. tasks' = [tasks EXCEPT ![workers[a].task] = state]
      BY <3>1 DEF FinishTask, Finished
    <3>4. t = workers[a].task
      BY <2>1, <3>3
    <3> QED
      BY <3>2, <3>4 DEF Final
  <2>4. ASSUME NEW a \in Ara, WorkerStep(a)
        PROVE  Poll(a)
    <3>1. ~Cancel(a) /\ ~Complete(a) /\ ~Fail(a)
      BY <2>3 DEF Cancel, Complete, Fail
    <3>2. ~(UNCHANGED storeVars)
      BY <2>2 DEF storeVars
    <3>3. ~Start(a)
      BY <2>2 DEF Start, Register
    <3>4. ~Progress(a) /\ ~Execute(a) /\ ~LoopOrReport(a) /\ ~Renew(a) /\ ~Await(a)
          /\ ~Stop(a)
      BY <3>2 DEF Progress, Execute, LoopOrReport, Renew, Await, Stop, Check
    <3>5. ~Heartbeat(a)
      BY <3>2 DEF Heartbeat, Check
    <3> QED
      BY <2>4, <3>1, <3>3, <3>4, <3>5 DEF WorkerStep
  <2>5. CASE \E a \in Ara : WorkerStep(a)
    <3>1. PICK a \in Ara, u \in Task, l \in Lease : LeaseTask(a, u, l)
      BY <2>4, <2>5 DEF Poll
    <3>2. tasks' = [tasks EXCEPT ![u] = "leased"] /\ l \notin used /\ used' = used \cup {l}
      BY <3>1 DEF LeaseTask
    <3> QED
      BY <2>1, <3>2
  <2>6. CASE \E u \in Task : AddTask(u) \/ RequestTaskCancellation(u) \/ Grant(u)
    BY <2>1, <2>6 DEF AddTask, RequestTaskCancellation, Grant, Final
  <2>7. CASE \E a \in Ara : SetRemoteAgentTrust(a) \/ RevokeRemoteAgent(a)
    BY <2>2, <2>7 DEF SetRemoteAgentTrust, RevokeRemoteAgent
  <2>8. CASE (\E l \in Lease : RunOut(l)) \/ UNCHANGED vars
    BY <2>2, <2>8 DEF RunOut, Lapse, vars, storeVars
  <2> QED
    BY <2>5, <2>6, <2>7, <2>8 DEF Next, Operate
<1> QED
  BY <1>1, WorkersTypeCorrect, PTL DEF Spec, ResultStands
-----------------------------------------------------------------------------
(* The leases as a fence.                                                   *)

\* A worker at work knows its task and its lease.
Sound(w) == w.pc \in {"poll", "ended", "stopped"} \/ (w.task \in Task /\ w.lease \in Lease)
EveryoneSound == \A a \in Ara : Sound(workers[a])

\* What a step of worker a makes of the workers.
OnlyMoves(a) == Sound(workers'[a]) /\ \A b \in Ara \ {a} : workers'[b] = workers[b]

\* A worker at work goes on with its task, and any worker may go idle.
LEMMA GoesSound ==
    ASSUME TypeOK, NEW a \in Ara, NEW pc \in PCs, Goes(a, pc), Sound(workers[a]),
           workers[a].pc \notin {"poll", "ended", "stopped"} \/ pc \in {"poll", "ended", "stopped"}
    PROVE  OnlyMoves(a)
<1>1. workers \in [Ara -> Worker]
  BY DEF TypeOK
<1>2. CASE pc \in {"poll", "ended", "stopped"}
  <2>1. workers' = [workers EXCEPT ![a] = Fresh(pc)]
    BY <1>2 DEF Goes
  <2> QED
    BY <1>1, <1>2, <2>1 DEF OnlyMoves, Sound, Fresh
<1>3. CASE pc \notin {"poll", "ended", "stopped"}
  <2> DEFINE w == [workers[a] EXCEPT !.pc = pc, !.posts = 0]
  <2>1. workers' = [workers EXCEPT ![a] = w]
    BY <1>3 DEF Goes
  <2>2. w.task = workers[a].task
    BY <1>1 DEF Worker
  <2>3. w.lease = workers[a].lease
    BY <1>1 DEF Worker
  <2> HIDE DEF w
  <2> QED
    BY <1>1, <1>3, <2>1, <2>2, <2>3 DEF OnlyMoves, Sound
<1> QED
  BY <1>2, <1>3

\* ... so does one whose call is not answered.
LEMMA UnansweredSound ==
    ASSUME TypeOK, NEW a \in Ara, NEW pc \in PCs, Unanswered(a, pc), Sound(workers[a]),
           workers[a].pc \notin {"poll", "ended", "stopped"} \/ pc \in {"poll", "ended", "stopped"}
    PROVE  OnlyMoves(a)
<1>1. workers \in [Ara -> Worker]
  BY DEF TypeOK
<1>2. CASE workers[a].posts + 1 < Attempts
  <2> DEFINE w == [workers[a] EXCEPT !.posts = workers[a].posts + 1]
  <2>1. workers' = [workers EXCEPT ![a] = w]
    BY <1>2 DEF Unanswered
  <2>2. w.task = workers[a].task /\ w.lease = workers[a].lease /\ w.pc = workers[a].pc
    BY <1>1 DEF Worker
  <2> HIDE DEF w
  <2> QED
    BY <1>1, <2>1, <2>2 DEF OnlyMoves, Sound
<1>3. CASE ~(workers[a].posts + 1 < Attempts)
  BY <1>3, GoesSound DEF Unanswered
<1> QED
  BY <1>2, <1>3

\* A step of a worker keeps all of them sound.
LEMMA StepSound ==
    ASSUME TypeOK, NEW a \in Ara, WorkerStep(a), Sound(workers[a])
    PROVE  OnlyMoves(a)
<1>1. workers \in [Ara -> Worker]
  BY DEF TypeOK
<1>2. ASSUME NEW pc \in PCs, NEW raised \in PCs, Reply(a, pc, raised),
             workers[a].pc \notin {"poll", "ended", "stopped"}
      PROVE  OnlyMoves(a)
  BY <1>2, GoesSound, UnansweredSound DEF Reply, Answered
<1>3. ASSUME NEW pc \in PCs, NEW raised \in PCs, Check(a, pc, raised),
             workers[a].pc \notin {"poll", "ended", "stopped"}
      PROVE  OnlyMoves(a)
  BY <1>2, <1>3, UnansweredSound DEF Check
<1>4. ASSUME NEW state, NEW pc \in PCs, NEW raised \in PCs, Report(a, state, pc, raised),
             workers[a].pc \notin {"poll", "ended", "stopped"}
      PROVE  OnlyMoves(a)
  BY <1>2, <1>4, UnansweredSound DEF Report
<1>5. ASSUME NEW w, workers' = [workers EXCEPT ![a] = w], w.task = workers[a].task,
             w.lease = workers[a].lease,
             workers[a].pc \notin {"poll", "ended", "stopped"} \/ w.pc = workers[a].pc
      PROVE  OnlyMoves(a)
  BY <1>1, <1>5 DEF OnlyMoves, Sound
<1>6. CASE Start(a)
  BY <1>6, GoesSound DEF Start, Answered, PCs
<1>7. CASE Poll(a)
  <2>1. CASE Unanswered(a, "poll")
    BY <2>1, UnansweredSound DEF PCs
  <2>2. CASE \E t \in Task, l \in Lease :
                 workers' = [workers EXCEPT ![a] = [Fresh("progress") EXCEPT
                                                       !.task = t, !.lease = l]]
    <3>1. PICK t \in Task, l \in Lease :
                 workers' = [workers EXCEPT ![a] = [Fresh("progress") EXCEPT
                                                       !.task = t, !.lease = l]]
      BY <2>2
    <3> DEFINE w == [Fresh("progress") EXCEPT !.task = t, !.lease = l]
    <3>2. w.task = t
      BY DEF Fresh
    <3>3. w.lease = l
      BY DEF Fresh
    <3>4. workers' = [workers EXCEPT ![a] = w]
      BY <3>1
    <3> HIDE DEF w
    <3> QED
      BY <1>1, <3>2, <3>3, <3>4 DEF OnlyMoves, Sound
  <2> QED
    BY <1>7, <2>1, <2>2 DEF Poll
<1>8. CASE Progress(a)
  <2>1. CASE workers' = [workers EXCEPT ![a].pc = "work", ![a].posts = 0,
                                        ![a].execution = "running"]
    <3> DEFINE w == [workers[a] EXCEPT !.pc = "work", !.posts = 0, !.execution = "running"]
    <3>1. w.task = workers[a].task
      BY <1>1 DEF Worker
    <3>2. w.lease = workers[a].lease
      BY <1>1 DEF Worker
    <3>3. workers' = [workers EXCEPT ![a] = w]
      BY <2>1
    <3>4. workers[a].pc \notin {"poll", "ended", "stopped"}
      BY <1>8 DEF Progress
    <3> HIDE DEF w
    <3> QED
      BY <1>5, <3>1, <3>2, <3>3, <3>4
  <2>2. CASE Unanswered(a, "ended")
    BY <2>2, UnansweredSound DEF PCs
  <2>3. CASE Reply(a, "ended", "ended")
    BY <1>2, <1>8, <2>3 DEF PCs, Progress
  <2> QED
    BY <1>8, <2>1, <2>2, <2>3 DEF Progress
<1>9. CASE Execute(a)
  <2>1. PICK outcome \in {"done", "raised"} :
            workers' = [workers EXCEPT ![a] = [workers[a] EXCEPT !.execution = outcome]]
    BY <1>9 DEF Execute
  <2> DEFINE w == [workers[a] EXCEPT !.execution = outcome]
  <2>2. w.task = workers[a].task /\ w.lease = workers[a].lease /\ w.pc = workers[a].pc
    BY <1>1 DEF Worker
  <2>3. workers' = [workers EXCEPT ![a] = w]
    BY <2>1
  <2> HIDE DEF w
  <2> QED
    BY <1>5, <2>2, <2>3
<1>10. CASE LoopOrReport(a)
  BY <1>10, GoesSound DEF LoopOrReport, Answered, PCs
<1>11. CASE Heartbeat(a)
  <2>1. workers[a].pc \notin {"poll", "ended", "stopped"}
    BY <1>11 DEF Heartbeat
  <2>2. CASE Check(a, "renew", "fail")
    BY <1>3, <2>1, <2>2 DEF PCs
  <2>3. CASE Unanswered(a, "fail")
    BY <2>1, <2>3, UnansweredSound DEF PCs
  <2>4. CASE workers' = [workers EXCEPT
                          ![a].pc = "cancel", ![a].posts = 0,
                          ![a].execution = IF @ = "running" THEN "cancelled" ELSE @]
    <3>1. PICK e \in {"none", "running", "done", "raised", "cancelled"} :
              workers' = [workers EXCEPT ![a] =
                              [workers[a] EXCEPT !.pc = "cancel", !.posts = 0,
                                                 !.execution = e]]
      BY <1>1, <2>4 DEF Worker
    <3> DEFINE w == [workers[a] EXCEPT !.pc = "cancel", !.posts = 0, !.execution = e]
    <3>2. w.task = workers[a].task
      BY <1>1 DEF Worker
    <3>3. w.lease = workers[a].lease
      BY <1>1 DEF Worker
    <3>4. workers' = [workers EXCEPT ![a] = w]
      BY <3>1
    <3> HIDE DEF w
    <3> QED
      BY <1>5, <2>1, <3>2, <3>3, <3>4
  <2> QED
    BY <1>11, <2>2, <2>3, <2>4 DEF Heartbeat
<1>12. CASE Renew(a)
  BY <1>3, <1>12 DEF Renew, PCs
<1>13. CASE Cancel(a)
  BY <1>4, <1>13 DEF Cancel, PCs
<1>14. CASE Await(a)
  BY <1>14, GoesSound DEF Await, Answered, PCs
<1>15. CASE Complete(a)
  BY <1>4, <1>15 DEF Complete, PCs
<1>16. CASE Fail(a)
  BY <1>4, <1>16 DEF Fail, PCs
<1>17. CASE Stop(a)
  BY <1>17, GoesSound DEF Stop, Answered, PCs
<1> QED
  BY <1>6, <1>7, <1>8, <1>9, <1>10, <1>11, <1>12, <1>13, <1>14, <1>15, <1>16, <1>17
     DEF WorkerStep

\* What a step does to tasks and leases, whoever takes it: nothing, or one of
\* the operations of the store, a report under an active lease.
Reports(a, t, l, state) == ActiveLease(a, t, l) /\ FinishTask(t, state)

LEMMA StoreSteps ==
    ASSUME TypeOK, EveryoneSound, [Next]_vars
    PROVE  \/ UNCHANGED <<tasks, leases, used>>
           \/ \E a \in Ara, t \in Task, l \in Lease : LeaseTask(a, t, l)
           \/ \E a \in Ara, t \in Task, l \in Lease, state \in Final : Reports(a, t, l, state)
           \/ \E t \in Task : AddTask(t) \/ RequestTaskCancellation(t)
           \/ \E a \in Ara : RevokeRemoteAgent(a)
           \/ \E l \in Lease : Lapse(l)
<1>1. ASSUME NEW a \in Ara, NEW state \in Final, NEW pc, NEW raised,
             Report(a, state, pc, raised), workers[a].pc \notin {"poll", "ended", "stopped"}
      PROVE  \/ UNCHANGED <<tasks, leases, used>>
             \/ \E t \in Task, l \in Lease : Reports(a, t, l, state)
  <2>1. workers[a].task \in Task /\ workers[a].lease \in Lease
    BY <1>1 DEF EveryoneSound, Sound
  <2> QED
    BY <1>1, <2>1 DEF Report, Accepts, Reports, storeVars
<1>2. ASSUME NEW a \in Ara, WorkerStep(a)
      PROVE  \/ UNCHANGED <<tasks, leases, used>>
             \/ \E t \in Task, l \in Lease : LeaseTask(a, t, l)
             \/ \E t \in Task, l \in Lease, state \in Final : Reports(a, t, l, state)
  <2>1. CASE Start(a)
    BY <2>1 DEF Start, Register
  <2>2. CASE Poll(a)
    BY <2>2 DEF Poll
  <2>3. CASE Progress(a) \/ Execute(a) \/ LoopOrReport(a) \/ Await(a) \/ Stop(a)
    BY <2>3 DEF Progress, Execute, LoopOrReport, Await, Stop, storeVars
  <2>4. CASE Heartbeat(a) \/ Renew(a)
    BY <2>4 DEF Heartbeat, Renew, Check, storeVars
  <2>5. CASE Cancel(a)
    BY <1>1, <2>5 DEF Cancel, Final
  <2>6. CASE Complete(a)
    BY <1>1, <2>6 DEF Complete, Final
  <2>7. CASE Fail(a)
    BY <1>1, <2>7 DEF Fail, Final
  <2> QED
    BY <1>2, <2>1, <2>2, <2>3, <2>4, <2>5, <2>6, <2>7 DEF WorkerStep
<1>3. CASE \E a \in Ara : WorkerStep(a)
  BY <1>2, <1>3
<1>4. CASE Operate
  BY <1>4 DEF Operate, Grant, SetRemoteAgentTrust
<1>5. CASE \E l \in Lease : RunOut(l)
  BY <1>5 DEF RunOut
<1>6. CASE UNCHANGED vars
  BY <1>6 DEF vars, storeVars
<1> QED
  BY <1>3, <1>4, <1>5, <1>6 DEF Next

LEMMA SoundAlways == Spec => []EveryoneSound
<1>1. Init => EveryoneSound
  BY DEF Init, EveryoneSound, Sound, Fresh
<1>2. TypeOK /\ EveryoneSound /\ [Next]_vars => EveryoneSound'
  <2> SUFFICES ASSUME TypeOK, EveryoneSound, [Next]_vars PROVE EveryoneSound'
    OBVIOUS
  <2>1. CASE \E a \in Ara : WorkerStep(a)
    BY <2>1, StepSound DEF EveryoneSound, OnlyMoves
  <2>2. CASE UNCHANGED workers
    BY <2>2 DEF EveryoneSound
  <2> QED
    BY <2>1, <2>2 DEF Next, vars
<1> QED
  BY <1>1, <1>2, WorkersTypeCorrect, PTL DEF Spec

\* _leases holds one lease of a task at a time.
OneEntry == \A l, k \in Lease : leases[l].task # None /\ leases[l].task = leases[k].task => l = k

\* What revoke_remote_agent files under the id of a task is an expired copy.
CopiesAreExpired == \A t \in Task : leases[t].task \in {t, None} /\ ~leases[t].live

EntriesAreUsed == \A l \in Lease : leases[l].task # None => l \in used

Fence == OneEntry /\ CopiesAreExpired /\ EntriesAreUsed

\* The tables as functions.
LEMMA Tables ==
    ASSUME TypeOK
    PROVE  /\ tasks \in [Task -> States]
           /\ leases \in [Lease \cup Task -> Entry]
           /\ \A k \in Lease \cup Task : leases[k].task \in Task \cup {None}
<1>1. tasks \in [Task -> States] /\ leases \in [Lease \cup Task -> Entry]
  BY DEF TypeOK, StoreTypeOK, States, Entry
<1> QED
  BY <1>1 DEF Entry

\* lease_task clears the entries of the task before it files the new one.
LEMMA LeaseEffect ==
    ASSUME TypeOK, NEW a \in Ara, NEW t \in Task, NEW l \in Lease, LeaseTask(a, t, l)
    PROVE  /\ tasks'[t] = "leased" /\ \A u \in Task \ {t} : tasks'[u] = tasks[u]
           /\ leases'[l].task = t /\ leases'[l].ara = a /\ leases'[l].live
           /\ \A k \in (Lease \cup Task) \ {l} :
                 leases'[k] = IF leases[k].task = t THEN NoLease ELSE leases[k]
           /\ l \in Lease \ used /\ used' = used \cup {l}
BY Tables DEF LeaseTask

\* revoke_remote_agent leaves the leases themselves as they are.
LEMMA RevokeEffect ==
    ASSUME TypeOK, NEW a \in Ara, RevokeRemoteAgent(a)
    PROVE  /\ UNCHANGED <<tasks, used>>
           /\ \A l \in Lease : leases'[l] = leases[l]
           /\ \A t \in Task :
                 \/ leases'[t] = leases[t]
                 \/ /\ leases'[t] = [task |-> t, ara |-> a, live |-> FALSE]
                    /\ \E k \in Lease \cup Task : leases[k].task = t /\ leases[k].ara = a
<1>1. \A l, k \in Lease \cup Task : l \in Lease => leases[k].task # l
  BY Tables, LeasesAssumption DEF LeasesAssumption
<1> QED
  BY <1>1, Tables DEF RevokeRemoteAgent

\* The lapse of a lease, which only it feels.
LEMMA LapseEffect ==
    ASSUME TypeOK, NEW l \in Lease, Lapse(l)
    PROVE  /\ UNCHANGED <<tasks, used>>
           /\ \A k \in (Lease \cup Task) \ {l} : leases'[k] = leases[k]
           /\ leases'[l].task = leases[l].task /\ leases'[l].ara = leases[l].ara
           /\ ~leases'[l].live
<1>1. leases' = [leases EXCEPT ![l] = [leases[l] EXCEPT !.live = FALSE]]
  BY DEF Lapse
<1>2. leases[l] \in Entry
  BY Tables
<1>3. /\ [leases[l] EXCEPT !.live = FALSE].task = leases[l].task
      /\ [leases[l] EXCEPT !.live = FALSE].ara = leases[l].ara
      /\ [leases[l] EXCEPT !.live = FALSE].live = FALSE
  BY <1>2 DEF Entry
<1>4. UNCHANGED <<tasks, used>>
  BY DEF Lapse
<1>5. leases'[l] = [leases[l] EXCEPT !.live = FALSE]
  BY <1>1, Tables
<1> QED
  BY <1>1, <1>3, <1>4, <1>5, Tables

\* The entries of the leases keep their order, whatever happens.
LEMMA FenceNext ==
    ASSUME TypeOK, EveryoneSound, Fence, [Next]_vars
    PROVE  Fence'
<1> USE LeasesAssumption DEF LeasesAssumption
<1>1. CASE UNCHANGED <<leases, used>>
  BY <1>1 DEF Fence, OneEntry, CopiesAreExpired, EntriesAreUsed
<1>2. CASE \E a \in Ara, t \in Task, l \in Lease : LeaseTask(a, t, l)
  <2>1. PICK a \in Ara, t \in Task, l \in Lease : LeaseTask(a, t, l)
    BY <1>2
  <2>2. \A k \in (Lease \cup Task) \ {l} :
            leases'[k].task = IF leases[k].task = t THEN None ELSE leases[k].task
    BY <2>1, LeaseEffect DEF NoLease
  <2>3. leases'[l].task = t /\ used' = used \cup {l} /\ l \notin used
    BY <2>1, LeaseEffect
  <2>4. OneEntry'
    BY <2>2, <2>3 DEF Fence, OneEntry
  <2>5. CopiesAreExpired'
    <3>1. \A u \in Task : leases'[u] = IF leases[u].task = t THEN NoLease ELSE leases[u]
      BY <2>1, LeaseEffect
    <3> QED
      BY <3>1 DEF Fence, CopiesAreExpired, NoLease
  <2>6. EntriesAreUsed'
    BY <2>2, <2>3 DEF Fence, EntriesAreUsed
  <2> QED
    BY <2>4, <2>5, <2>6 DEF Fence
<1>3. CASE \E a \in Ara : RevokeRemoteAgent(a)
  <2>1. PICK a \in Ara : RevokeRemoteAgent(a)
    BY <1>3
  <2>2. used' = used /\ \A l \in Lease : leases'[l] = leases[l]
    BY <2>1, RevokeEffect
  <2>3. \A t \in Task : \/ leases'[t] = leases[t]
                        \/ leases'[t] = [task |-> t, ara |-> a, live |-> FALSE]
    BY <2>1, RevokeEffect
  <2>4. CopiesAreExpired'
    <3>1. ASSUME NEW t \in Task
          PROVE  leases'[t].task \in {t, None} /\ ~leases'[t].live
      <4>1. CASE leases'[t] = leases[t]
        BY <4>1 DEF Fence, CopiesAreExpired
      <4>2. CASE leases'[t] = [task |-> t, ara |-> a, live |-> FALSE]
        BY <4>2
      <4> QED
        BY <2>3, <4>1, <4>2
    <3> QED
      BY <3>1 DEF CopiesAreExpired
  <2> QED
    BY <2>2, <2>4 DEF Fence, OneEntry, EntriesAreUsed
<1>4. CASE \E l \in Lease : Lapse(l)
  <2>1. PICK l \in Lease : Lapse(l)
    BY <1>4
  <2>2. \A k \in Lease \cup Task : leases'[k].task = leases[k].task
    BY <2>1, LapseEffect
  <2>3. used' = used /\ \A t \in Task : leases'[t] = leases[t]
    BY <2>1, LapseEffect
  <2> QED
    BY <2>2, <2>3 DEF Fence, OneEntry, CopiesAreExpired, EntriesAreUsed
<1> QED
  BY <1>1, <1>2, <1>3, <1>4, StoreSteps
     DEF Reports, FinishTask, AddTask, RequestTaskCancellation

LEMMA FenceAlways == Spec => [](TypeOK /\ EveryoneSound /\ Fence)
<1>1. Init => Fence
  BY DEF Init, StoreInit, Fence, OneEntry, CopiesAreExpired, EntriesAreUsed, NoLease
<1>2. TypeOK /\ EveryoneSound /\ Fence /\ [Next]_vars => Fence'
  BY FenceNext
<1> QED
  BY <1>1, <1>2, SoundAlways, WorkersTypeCorrect, PTL DEF Spec

\* The in-memory store, too, has one worker at most on a task: no two leases of
\* a task are active at once, although a lease that was revoked stays active.
OneActiveLease ==
    \A t \in Task, a, b \in Ara, l, k \in Lease :
        ActiveLease(a, t, l) /\ ActiveLease(b, t, k) => a = b /\ l = k

THEOREM OneWorkerPerTask == Spec => []OneActiveLease
<1>1. Fence => OneActiveLease
  BY LeasesAssumption DEF Fence, OneEntry, OneActiveLease, ActiveLease, LeasesAssumption
<1> QED
  BY <1>1, FenceAlways, PTL
-----------------------------------------------------------------------------
(* The in-memory store implements ClaimFencing, and also LeaseFencing, as   *)
(* TaskLeasing does, unless an agent is revoked that holds a task.  The     *)
(* expired copy that revocation files makes the task claimable, and the     *)
(* next claim takes it from a lease that is still good.                     *)
(*                                                                          *)
(* The store keeps no record of the leases that delivered: delivered is one.*)

VARIABLE delivered

Holds(t, l) == \E a \in Ara : ActiveLease(a, t, l)

\* A lease delivers when the task that it holds is finished.
RecordsDelivery ==
    delivered' = delivered \cup
        {l \in Lease : \E t \in Task : Holds(t, l) /\ tasks'[t] \in Final}
History == delivered = {} /\ [][RecordsDelivery]_<<vars, delivered>>

\* Agents are revoked only while they hold no task.
RevokesIdle ==
    \A a \in Ara : RevokeRemoteAgent(a)
        => \A t \in Task, l \in Lease : ~ActiveLease(a, t, l)

HolderOf == [t \in Task |-> IF \E l \in Lease : Holds(t, l)
                            THEN CHOOSE l \in Lease : Holds(t, l) ELSE None]

Claims == INSTANCE ClaimFencing WITH Item <- Task, ClaimId <- Lease, holder <- HolderOf
Fencing == INSTANCE LeaseFencing WITH LeaseId <- Lease, holder <- HolderOf

\* A lease that delivered is spent: its task is final as long as its entry stays.
DeliveredIsSpent ==
    \A l \in delivered :
        l \in used /\ l \in Lease
        /\ (leases[l].task # None => tasks[leases[l].task] \in Final)

\* Nobody holds a task of which there is an expired copy.
CopiedIsFree == \A t \in Task : leases[t].task = t => \A l \in Lease : ~Holds(t, l)

\* Only lease_task gives anybody a task.
LEMMA HoldsOnly ==
    ASSUME TypeOK, EveryoneSound, [Next]_vars, NEW t \in Task, NEW l \in Lease,
           Holds(t, l)'
    PROVE  Holds(t, l) \/ \E a \in Ara : LeaseTask(a, t, l)
<1> USE LeasesAssumption DEF LeasesAssumption
<1>1. PICK b \in Ara : ActiveLease(b, t, l)'
  BY DEF Holds
<1>2. /\ leases'[l].task = t /\ leases'[l].ara = b /\ leases'[l].live
      /\ tasks'[t] \in {"leased", "cancelling"}
  BY <1>1 DEF ActiveLease
<1>3. tasks \in [Task -> States]
  BY Tables
<1>4. CASE UNCHANGED <<tasks, leases, used>>
  BY <1>2, <1>4 DEF Holds, ActiveLease
<1>5. CASE \E a \in Ara, u \in Task, k \in Lease : LeaseTask(a, u, k)
  <2>1. PICK a \in Ara, u \in Task, k \in Lease : LeaseTask(a, u, k)
    BY <1>5
  <2>2. CASE k = l
    BY <1>2, <2>1, <2>2, LeaseEffect
  <2>3. CASE k # l
    <3>1. leases'[l] = leases[l] /\ t # u
      BY <1>2, <2>1, <2>3, LeaseEffect DEF NoLease
    <3>2. tasks'[t] = tasks[t]
      BY <2>1, <3>1, LeaseEffect
    <3> QED
      BY <1>2, <3>1, <3>2 DEF Holds, ActiveLease
  <2> QED
    BY <2>2, <2>3
<1>6. CASE \E a \in Ara, u \in Task, k \in Lease, state \in Final : Reports(a, u, k, state)
  <2>1. PICK a \in Ara, u \in Task, k \in Lease, state \in Final : Reports(a, u, k, state)
    BY <1>6
  <2>2. leases' = leases /\ tasks' = [tasks EXCEPT ![u] = state]
    BY <2>1 DEF Reports, FinishTask, Finished
  <2>3. tasks'[t] = tasks[t]
    BY <1>2, <1>3, <2>2 DEF Final
  <2> QED
    BY <1>2, <2>2, <2>3 DEF Holds, ActiveLease
<1>7. CASE \E u \in Task : AddTask(u) \/ RequestTaskCancellation(u)
  <2>1. leases' = leases /\ tasks[t] \in {"leased", "cancelling"}
    BY <1>2, <1>3, <1>7 DEF AddTask, RequestTaskCancellation
  <2> QED
    BY <1>2, <2>1 DEF Holds, ActiveLease
<1>8. CASE \E a \in Ara : RevokeRemoteAgent(a)
  BY <1>2, <1>8, RevokeEffect DEF Holds, ActiveLease
<1>9. CASE \E k \in Lease : Lapse(k)
  <2>1. PICK k \in Lease : Lapse(k)
    BY <1>9
  <2>2. l # k
    BY <1>2, <2>1, LapseEffect
  <2> QED
    BY <1>2, <2>1, <2>2, LapseEffect DEF Holds, ActiveLease
<1> QED
  BY <1>4, <1>5, <1>6, <1>7, <1>8, <1>9, StoreSteps

\* Only finish_task ends a task that somebody holds.
LEMMA EndsHeld ==
    ASSUME TypeOK, EveryoneSound, [Next]_vars, NEW t \in Task, NEW l \in Lease,
           Holds(t, l), tasks'[t] \in Final
    PROVE  leases' = leases /\ used' = used
           /\ \E state \in Final : tasks' = [tasks EXCEPT ![t] = state]
<1>1. tasks \in [Task -> States] /\ tasks[t] \in {"leased", "cancelling"}
  BY Tables DEF Holds, ActiveLease
<1>2. tasks'[t] # tasks[t]
  BY <1>1 DEF Final
<1>3. CASE UNCHANGED tasks
  BY <1>2, <1>3
<1>4. CASE \E a \in Ara, u \in Task, k \in Lease : LeaseTask(a, u, k)
  BY <1>2, <1>4, LeaseEffect DEF Final
<1>5. CASE \E a \in Ara, u \in Task, k \in Lease, state \in Final : Reports(a, u, k, state)
  BY <1>1, <1>2, <1>5 DEF Reports, FinishTask, Finished
<1>6. CASE \E u \in Task : AddTask(u) \/ RequestTaskCancellation(u)
  BY <1>1, <1>6 DEF AddTask, RequestTaskCancellation, Final
<1>7. CASE (\E a \in Ara : RevokeRemoteAgent(a)) \/ (\E k \in Lease : Lapse(k))
  BY <1>2, <1>7, RevokeEffect, LapseEffect
<1> QED
  BY <1>3, <1>4, <1>5, <1>6, <1>7, StoreSteps

\* A final task stays final until it is leased again, under a new lease.
LEMMA FinalStays ==
    ASSUME TypeOK, EveryoneSound, Fence, [Next]_vars, NEW l \in used, l \in Lease,
           leases[l].task # None => tasks[leases[l].task] \in Final
    PROVE  l \in used' /\ (leases'[l].task # None => tasks'[leases'[l].task] \in Final)
<1>1. /\ tasks \in [Task -> States]
      /\ leases[l].task \in Task \cup {None}
  BY Tables
<1>2. CASE UNCHANGED <<tasks, leases, used>>
  BY <1>2
<1>3. CASE \E a \in Ara, u \in Task, k \in Lease : LeaseTask(a, u, k)
  <2>1. PICK a \in Ara, u \in Task, k \in Lease : LeaseTask(a, u, k)
    BY <1>3
  <2>2. l # k /\ l \in used'
    BY <2>1, LeaseEffect
  <2>3. leases'[l] = IF leases[l].task = u THEN NoLease ELSE leases[l]
    BY <2>1, <2>2, LeaseEffect
  <2>4. CASE leases[l].task = u
    BY <2>2, <2>3, <2>4 DEF NoLease
  <2>5. CASE leases[l].task # u
    BY <1>1, <2>1, <2>2, <2>3, <2>5, LeaseEffect
  <2> QED
    BY <2>4, <2>5
<1>4. CASE \E a \in Ara, u \in Task, k \in Lease, state \in Final : Reports(a, u, k, state)
  BY <1>1, <1>4 DEF Reports, FinishTask, Finished
<1>5. CASE \E u \in Task : AddTask(u) \/ RequestTaskCancellation(u)
  BY <1>1, <1>5 DEF AddTask, RequestTaskCancellation, Final
<1>6. CASE \E a \in Ara : RevokeRemoteAgent(a)
  BY <1>6, RevokeEffect
<1>7. CASE \E k \in Lease : Lapse(k)
  <2>1. leases'[l].task = leases[l].task /\ UNCHANGED <<tasks, used>>
    BY <1>7, LapseEffect
  <2> QED
    BY <2>1
<1> QED
  BY <1>2, <1>3, <1>4, <1>5, <1>6, <1>7, StoreSteps

\* A lease that delivered stays spent.
LEMMA DeliveredNext ==
    ASSUME TypeOK, EveryoneSound, Fence, DeliveredIsSpent, [Next]_vars,
           [RecordsDelivery]_<<vars, delivered>>
    PROVE  DeliveredIsSpent'
<1>1. SUFFICES ASSUME NEW l \in delivered'
               PROVE  /\ l \in used' /\ l \in Lease
                      /\ leases'[l].task # None => tasks'[leases'[l].task] \in Final
  BY DEF DeliveredIsSpent
<1>2. CASE l \in delivered
  BY <1>2, FinalStays DEF DeliveredIsSpent
<1>3. CASE l \notin delivered
  <2>1. PICK t \in Task : l \in Lease /\ Holds(t, l) /\ tasks'[t] \in Final
    BY <1>1, <1>3 DEF RecordsDelivery
  <2>2. leases' = leases /\ used' = used
    BY <2>1, EndsHeld
  <2>3. leases[l].task = t /\ t # None
    BY <2>1, LeasesAssumption DEF Holds, ActiveLease, LeasesAssumption
  <2> QED
    BY <2>1, <2>2, <2>3 DEF Fence, EntriesAreUsed
<1> QED
  BY <1>2, <1>3

\* Only the revocation of a holder leaves a copy of what is held.
LEMMA CopiedNext ==
    ASSUME TypeOK, EveryoneSound, Fence, CopiedIsFree, [Next]_vars, [RevokesIdle]_vars
    PROVE  CopiedIsFree'
<1> USE LeasesAssumption DEF LeasesAssumption
<1>1. SUFFICES ASSUME NEW t \in Task, leases'[t].task = t, NEW l \in Lease, Holds(t, l)'
               PROVE  FALSE
  BY DEF CopiedIsFree
<1>2. CASE \E a \in Ara : LeaseTask(a, t, l)
  BY <1>1, <1>2, LeaseEffect DEF NoLease
<1>3. CASE Holds(t, l)
  <2>1. leases[t].task # t /\ leases[l].task = t
    BY <1>3 DEF CopiedIsFree, Holds, ActiveLease
  <2>2. leases'[t] # leases[t]
    BY <1>1, <2>1
  <2>3. ASSUME NEW a \in Ara, NEW u \in Task, NEW k \in Lease, LeaseTask(a, u, k)
        PROVE  FALSE
    <3>1. leases'[t] = NoLease
      BY <2>2, <2>3, LeaseEffect
    <3> QED
      BY <1>1, <3>1 DEF NoLease
  <2>4. ~(\E k \in Lease : Lapse(k))
    BY <2>2, LapseEffect
  <2>5. PICK a \in Ara : RevokeRemoteAgent(a)
    BY <2>2, <2>3, <2>4, StoreSteps
       DEF Reports, FinishTask, AddTask, RequestTaskCancellation
  <2>6. PICK k \in Lease \cup Task : leases[k].task = t /\ leases[k].ara = a
    BY <2>2, <2>5, RevokeEffect
  <2>7. k \in Lease
    BY <2>1, <2>6 DEF Fence, CopiesAreExpired
  <2>8. k = l
    BY <2>1, <2>6, <2>7 DEF Fence, OneEntry
  <2>9. ActiveLease(a, t, l)
    BY <1>3, <2>6, <2>8 DEF Holds, ActiveLease
  <2>10. ~(UNCHANGED vars)
    BY <2>2 DEF vars, storeVars
  <2> QED
    BY <2>5, <2>9, <2>10 DEF RevokesIdle
<1> QED
  BY <1>1, <1>2, <1>3, HoldsOnly

\* The holder of a task is the lease that is active.
HolderIsActive ==
    \A t \in Task : /\ \A l \in Lease : Holds(t, l) => HolderOf[t] = l
                    /\ (\A l \in Lease : ~Holds(t, l)) => HolderOf[t] = None

LEMMA HolderIs == Fence => HolderIsActive
<1> SUFFICES ASSUME Fence, NEW t \in Task
             PROVE  /\ \A l \in Lease : Holds(t, l) => HolderOf[t] = l
                    /\ (\A l \in Lease : ~Holds(t, l)) => HolderOf[t] = None
  BY DEF HolderIsActive
<1>1. \A l, k \in Lease : Holds(t, l) /\ Holds(t, k) => l = k
  BY LeasesAssumption DEF Fence, OneEntry, Holds, ActiveLease, LeasesAssumption
<1>2. HolderOf[t] = IF \E l \in Lease : Holds(t, l)
                    THEN CHOOSE l \in Lease : Holds(t, l) ELSE None
  BY DEF HolderOf
<1> QED
  BY <1>1, <1>2

\* A step that gives nobody a task and ends none is a lapse of the others.
LEMMA StepLapses ==
    ASSUME Fence, Fence', UNCHANGED used, [RecordsDelivery]_<<vars, delivered>>,
           \A t \in Task, l \in Lease : Holds(t, l)' => Holds(t, l),
           \A t \in Task, l \in Lease : Holds(t, l) => tasks'[t] \notin Final
    PROVE  \E S \in SUBSET Task : Claims!Lapse(S)
<1>1. delivered' = delivered
  BY DEF RecordsDelivery
<1>2. (Fence => HolderIsActive)'
  BY HolderIs, PTL
<1>3. ASSUME NEW t \in Task PROVE HolderOf'[t] \in {HolderOf[t], None}
  BY <1>2, HolderIs DEF HolderIsActive
<1> DEFINE S == {t \in Task : HolderOf'[t] = None}
<1>4. HolderOf' = [t \in Task |-> HolderOf'[t]]
  BY DEF HolderOf
<1>5. HolderOf' = [t \in Task |-> IF t \in S THEN None ELSE HolderOf[t]]
  BY <1>3, <1>4
<1>6. Claims!Lapse(S)
  BY <1>1, <1>5 DEF Claims!Lapse
<1>7. S \in SUBSET Task
  OBVIOUS
<1> QED
  BY <1>6, <1>7

FenceInv == TypeOK /\ EveryoneSound /\ Fence /\ DeliveredIsSpent

\* A task that is leased has a new holder, who holds nothing else.
LEMMA LeaseAcquires ==
    ASSUME FenceInv, FenceInv', [Next]_vars, [RecordsDelivery]_<<vars, delivered>>,
           NEW a \in Ara, NEW t \in Task, NEW l \in Lease, LeaseTask(a, t, l)
    PROVE  Claims!Acquire(t, l)
<1> USE LeasesAssumption DEF LeasesAssumption
<1>3. /\ tasks'[t] = "leased" /\ \A u \in Task \ {t} : tasks'[u] = tasks[u]
      /\ leases'[l].task = t /\ leases'[l].ara = a /\ leases'[l].live
      /\ \A k \in (Lease \cup Task) \ {l} :
            leases'[k] = IF leases[k].task = t THEN NoLease ELSE leases[k]
      /\ l \in Lease \ used /\ used' = used \cup {l}
  BY LeaseEffect DEF FenceInv
<1>4. Holds(t, l)'
  BY <1>3 DEF Holds, ActiveLease
<1>5. (Fence => HolderIsActive)'
  BY HolderIs, PTL
<1>6. HolderOf'[t] = l
  BY <1>4, <1>5 DEF FenceInv, HolderIsActive
<1>7. ASSUME NEW u \in Task \ {t}, NEW k \in Lease PROVE Holds(u, k)' <=> Holds(u, k)
  <2>1. CASE k = l
    <3>1. leases[l].task = None
      BY <1>3, Tables DEF FenceInv, Fence, EntriesAreUsed
    <3> QED
      BY <1>3, <2>1, <3>1 DEF Holds, ActiveLease
  <2>2. CASE k # l
    BY <1>3, <2>2 DEF Holds, ActiveLease, NoLease
  <2> QED
    BY <2>1, <2>2
<1>8. ASSUME NEW u \in Task \ {t} PROVE HolderOf'[u] = HolderOf[u]
  <2>1. CASE \E k \in Lease : Holds(u, k)
    BY <1>5, <1>7, <2>1, HolderIs DEF FenceInv, HolderIsActive
  <2>2. CASE \A k \in Lease : ~Holds(u, k)
    BY <1>5, <1>7, <2>2, HolderIs DEF FenceInv, HolderIsActive
  <2> QED
    BY <2>1, <2>2
<1>9. HolderOf' = [HolderOf EXCEPT ![t] = l]
  <2>1. HolderOf = [u \in Task |-> HolderOf[u]] /\ HolderOf' = [u \in Task |-> HolderOf'[u]]
    BY DEF HolderOf
  <2> DEFINE f == HolderOf
             g == HolderOf'
  <2>2. f = [u \in Task |-> f[u]] /\ g = [u \in Task |-> g[u]]
    BY <2>1
  <2>3. g[t] = l /\ \A u \in Task \ {t} : g[u] = f[u]
    BY <1>6, <1>8
  <2> HIDE DEF f, g
  <2>4. g = [f EXCEPT ![t] = l]
    BY <2>2, <2>3
  <2> QED
    BY <2>4 DEF f, g
<1>10. delivered' = delivered
  <2>1. ASSUME NEW u \in Task, NEW k \in Lease, Holds(u, k), tasks'[u] \in Final
        PROVE  FALSE
    BY <1>3, <2>1 DEF Holds, ActiveLease, Final
  <2> QED
    BY <2>1 DEF RecordsDelivery
<1> QED
  BY <1>3, <1>9, <1>10 DEF Claims!Acquire

\* A report under an active lease is the delivery of the task's holder.
LEMMA ReportDelivers ==
    ASSUME FenceInv, FenceInv', [RecordsDelivery]_<<vars, delivered>>,
           NEW a \in Ara, NEW t \in Task, NEW l \in Lease, NEW state \in Final,
           Reports(a, t, l, state)
    PROVE  Claims!Deliver(t)
<1>1. Holds(t, l) /\ tasks[t] \in {"leased", "cancelling"} /\ leases[l].task = t
  BY DEF Reports, Holds, ActiveLease
<1>2. /\ tasks' = [tasks EXCEPT ![t] = state] /\ UNCHANGED <<leases, used>>
      /\ tasks \in [Task -> States]
  BY Tables DEF FenceInv, Reports, FinishTask, Finished
<1>3. HolderOf[t] = l
  BY <1>1, HolderIs DEF FenceInv, HolderIsActive
<1>4. l # None /\ t # None
  BY LeasesAssumption DEF LeasesAssumption
<1>5. l \notin delivered
  BY <1>1, <1>4 DEF FenceInv, DeliveredIsSpent, Final
<1>6. \A k \in Lease : Holds(t, k) => k = l
  BY <1>3, HolderIs DEF FenceInv, HolderIsActive
<1>7. \A u \in Task, k \in Lease : Holds(u, k) /\ tasks'[u] \in Final => u = t
  BY <1>2 DEF Holds, ActiveLease, Final
<1>8. delivered' = delivered \cup {l}
  <2>1. tasks'[t] \in Final /\ <<vars, delivered>>' # <<vars, delivered>>
    BY <1>1, <1>2 DEF Final, vars, storeVars
  <2>2. RecordsDelivery
    BY <2>1
  <2>3. {k \in Lease : \E u \in Task : Holds(u, k) /\ tasks'[u] \in Final} = {l}
    BY <1>1, <1>6, <1>7, <2>1
  <2> QED
    BY <2>2, <2>3 DEF RecordsDelivery
<1>9. (Fence => HolderIsActive)'
  BY HolderIs, PTL
<1>10. \A k \in Lease : ~Holds(t, k)'
  BY <1>2 DEF Holds, ActiveLease, Final
<1>11. \A u \in Task \ {t}, k \in Lease : Holds(u, k)' <=> Holds(u, k)
  BY <1>2 DEF Holds, ActiveLease
<1>12. HolderOf'[t] = None /\ \A u \in Task \ {t} : HolderOf'[u] = HolderOf[u]
  <2>1. ASSUME NEW u \in Task \ {t} PROVE HolderOf'[u] = HolderOf[u]
    <3>1. CASE \E k \in Lease : Holds(u, k)
      BY <1>9, <1>11, <3>1, HolderIs DEF FenceInv, HolderIsActive
    <3>2. CASE \A k \in Lease : ~Holds(u, k)
      BY <1>9, <1>11, <3>2, HolderIs DEF FenceInv, HolderIsActive
    <3> QED
      BY <3>1, <3>2
  <2> QED
    BY <1>9, <1>10, <2>1 DEF FenceInv, HolderIsActive
<1>13. HolderOf' = [HolderOf EXCEPT ![t] = None]
  <2>1. HolderOf = [u \in Task |-> HolderOf[u]] /\ HolderOf' = [u \in Task |-> HolderOf'[u]]
    BY DEF HolderOf
  <2> DEFINE f == HolderOf
             g == HolderOf'
  <2>2. f = [u \in Task |-> f[u]] /\ g = [u \in Task |-> g[u]]
    BY <2>1
  <2>3. g[t] = None /\ \A u \in Task \ {t} : g[u] = f[u]
    BY <1>12
  <2> HIDE DEF f, g
  <2>4. g = [f EXCEPT ![t] = None]
    BY <2>2, <2>3
  <2> QED
    BY <2>4 DEF f, g
<1> QED
  BY <1>2, <1>3, <1>4, <1>5, <1>8, <1>13 DEF Claims!Deliver

LEMMA FenceInvAlways == Spec /\ History => []FenceInv
<1>1. Init /\ delivered = {} => DeliveredIsSpent
  BY DEF DeliveredIsSpent
<1>2. /\ TypeOK /\ EveryoneSound /\ Fence /\ DeliveredIsSpent
      /\ [Next]_vars /\ [RecordsDelivery]_<<vars, delivered>>
      => DeliveredIsSpent'
  BY DeliveredNext
<1>3. TypeOK /\ EveryoneSound /\ Fence /\ DeliveredIsSpent => FenceInv
  BY DEF FenceInv
<1> QED
  BY <1>1, <1>2, <1>3, FenceAlways, PTL DEF Spec, History

\* Every step of the in-memory store is one of ClaimFencing, or hidden from it.
LEMMA StoreClaims ==
    ASSUME FenceInv, FenceInv', [Next]_vars, [RecordsDelivery]_<<vars, delivered>>
    PROVE  \/ \E a \in Ara, t \in Task, l \in Lease :
                 LeaseTask(a, t, l) /\ Claims!Acquire(t, l)
           \/ \E S \in SUBSET Task : Claims!Lapse(S)
           \/ \E t \in Task : Claims!Deliver(t)
<1>1. CASE \E a \in Ara, t \in Task, l \in Lease : LeaseTask(a, t, l)
  BY <1>1, LeaseAcquires
<1>2. CASE \E a \in Ara, t \in Task, l \in Lease, state \in Final : Reports(a, t, l, state)
  BY <1>2, ReportDelivers
<1>3. CASE /\ ~\E a \in Ara, t \in Task, l \in Lease : LeaseTask(a, t, l)
           /\ ~\E a \in Ara, t \in Task, l \in Lease, state \in Final : Reports(a, t, l, state)
  <2>1. TypeOK /\ EveryoneSound /\ Fence /\ Fence'
    BY DEF FenceInv
  <2>2. \/ UNCHANGED <<tasks, leases, used>>
        \/ \E t \in Task : AddTask(t) \/ RequestTaskCancellation(t)
        \/ \E a \in Ara : RevokeRemoteAgent(a)
        \/ \E l \in Lease : Lapse(l)
    BY <1>3, <2>1, StoreSteps
  <2>3. UNCHANGED used
    BY <2>2 DEF AddTask, RequestTaskCancellation, RevokeRemoteAgent, Lapse
  <2>4. \A t \in Task, l \in Lease : Holds(t, l)' => Holds(t, l)
    BY <1>3, <2>1, HoldsOnly
  <2>5. ASSUME NEW t \in Task, NEW l \in Lease, Holds(t, l), tasks'[t] \in Final
        PROVE  FALSE
    <3>1. tasks[t] \in {"leased", "cancelling"} /\ tasks \in [Task -> States]
      BY <2>1, <2>5, Tables DEF Holds, ActiveLease
    <3> QED
      BY <2>1, <2>2, <2>5, <3>1
         DEF AddTask, RequestTaskCancellation, RevokeRemoteAgent, Lapse, Final
  <2> QED
    BY <2>1, <2>3, <2>4, <2>5, StepLapses
<1> QED
  BY <1>1, <1>2, <1>3

\* Nobody holds anything at first.
LEMMA NobodyHoldsInit == Init => HolderOf = [t \in Task |-> None] /\ used = {}
<1> SUFFICES ASSUME Init PROVE HolderOf = [t \in Task |-> None] /\ used = {}
  OBVIOUS
<1>1. ASSUME NEW t \in Task, NEW l \in Lease PROVE ~Holds(t, l)
  BY DEF Init, StoreInit, Holds, ActiveLease
<1> QED
  BY <1>1 DEF HolderOf, Init, StoreInit

\* Whatever is lost, late or revoked: in the in-memory store, each claim of a
\* task is a new lease, and a result is accepted once for a lease, from the one
\* that has the task (lease_task, finish_task).
THEOREM InMemoryFencesClaims == Spec /\ History => Claims!Spec
<1>1. Init /\ delivered = {} => Claims!Init
  BY NobodyHoldsInit DEF Claims!Init
<1>2. /\ FenceInv /\ FenceInv' /\ [Next]_vars /\ [RecordsDelivery]_<<vars, delivered>>
      => [Claims!Next]_Claims!vars
  BY StoreClaims DEF Claims!Next
<1> QED
  BY <1>1, <1>2, FenceInvAlways, PTL DEF Spec, History, Claims!Spec

\* A task that is leased is free, unless the holder was revoked.
LEMMA LeasedIsFree ==
    ASSUME FenceInv, CopiedIsFree, NEW a \in Ara, NEW t \in Task, NEW l \in Lease,
           LeaseTask(a, t, l)
    PROVE  HolderOf[t] = None
<1> USE LeasesAssumption DEF LeasesAssumption
<1>1. ASSUME NEW k \in Lease, Holds(t, k) PROVE FALSE
  <2>1. /\ leases[k].task = t /\ leases[k].live /\ tasks[t] \in {"leased", "cancelling"}
    BY <1>1 DEF Holds, ActiveLease
  <2>2. PICK j \in Lease \cup Task : leases[j].task = t /\ ~leases[j].live
    BY <2>1 DEF LeaseTask, Claimable, Expired
  <2>3. CASE j \in Lease
    BY <2>1, <2>2, <2>3 DEF FenceInv, Fence, OneEntry
  <2>4. CASE j \in Task
    <3>1. j = t
      BY <2>2, <2>4 DEF FenceInv, Fence, CopiesAreExpired
    <3> QED
      BY <1>1, <2>2, <3>1 DEF CopiedIsFree
  <2> QED
    BY <2>3, <2>4
<1> QED
  BY <1>1, HolderIs DEF FenceInv, HolderIsActive

\* As long as no agent is revoked that holds a task, the in-memory store
\* implements LeaseFencing: a task is given out only when it is free.
THEOREM FencesUnlessHolderRevoked ==
    Spec /\ History /\ [][RevokesIdle]_vars => Fencing!Spec
<1>1. Init /\ delivered = {} => Fencing!Init /\ CopiedIsFree
  BY NobodyHoldsInit, LeasesAssumption
     DEF Fencing!Init, Init, StoreInit, CopiedIsFree, NoLease, LeasesAssumption
<1>2. FenceInv /\ CopiedIsFree /\ [Next]_vars /\ [RevokesIdle]_vars => CopiedIsFree'
  BY CopiedNext DEF FenceInv
<1>3. /\ FenceInv /\ FenceInv' /\ CopiedIsFree
      /\ [Next]_vars /\ [RecordsDelivery]_<<vars, delivered>>
      => [Fencing!Next]_Fencing!vars
  <2> SUFFICES ASSUME FenceInv, FenceInv', CopiedIsFree, [Next]_vars,
                      [RecordsDelivery]_<<vars, delivered>>
               PROVE  Fencing!Next
    OBVIOUS
  <2>1. CASE \E a \in Ara, t \in Task, l \in Lease :
                 LeaseTask(a, t, l) /\ Claims!Acquire(t, l)
    BY <2>1, LeasedIsFree DEF Claims!Acquire, Fencing!Acquire, Fencing!Next
  <2>2. CASE \E S \in SUBSET Task : Claims!Lapse(S)
    BY <2>2 DEF Claims!Lapse, Fencing!Lapse, Fencing!Next
  <2>3. CASE \E t \in Task : Claims!Deliver(t)
    BY <2>3 DEF Claims!Deliver, Fencing!Deliver, Fencing!Next
  <2> QED
    BY <2>1, <2>2, <2>3, StoreClaims
<1> QED
  BY <1>1, <1>2, <1>3, FenceInvAlways, PTL DEF Spec, History, Fencing!Spec
=============================================================================
