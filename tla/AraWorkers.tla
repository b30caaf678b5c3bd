----------------------------- MODULE AraWorkers -----------------------------
(***************************************************************************)
(* Remote agents at work: the loop serve of the two ARA programs            *)
(* (astra_ara/main.py, host_main.py) with its client, against the store.    *)
(*                                                                          *)
(* A worker leases a task, has a thread execute it, and while that runs     *)
(* asks every half minute whether to go on and renews its lease; then it    *)
(* reports.  A call is posted again when its answer does not come, and      *)
(* Attempts such posts in vain raise, as a refusal does.  The request of a  *)
(* post without an answer may have been carried out, or not.                *)
(*                                                                          *)
(* A report that is refused or stays unanswered makes the worker report a   *)
(* failure; where that is refused, too, the program ends.  It also ends,    *)
(* wherever it is, when it is stopped.  Somebody has to start it again.     *)
(***************************************************************************)
EXTENDS InMemoryLeases

CONSTANTS Attempts,    \* posts of a call
          MaxLosses,   \* bound: answers lost
          MaxLapses    \* bound: leases that run out

ASSUME WorkersAssumption ==
    Attempts \in Nat \ {0} /\ MaxLosses \in Nat /\ MaxLapses \in Nat

VARIABLES workers,     \* the loop of each agent
          losses,
          lapses

vars == <<storeVars, workers, losses, lapses>>

Worker == [pc : {"ended", "stopped", "poll", "progress", "work", "heartbeat", "renew",
                 "cancel", "report", "complete", "fail"},
           task : Task \cup {None},
           lease : Lease \cup {None},
           execution : {"none", "running", "done", "raised", "cancelled"},
           posts : 0 .. Attempts]   \* of the current call
Fresh(pc) == [pc |-> pc, task |-> None, lease |-> None, execution |-> "none", posts |-> 0]

TypeOK ==
    /\ StoreTypeOK
    /\ workers \in [Ara -> Worker]
    /\ losses \in 0 .. MaxLosses
    /\ lapses \in 0 .. MaxLapses

Init ==
    /\ StoreInit
    /\ workers = [a \in Ara |-> Fresh("ended")]
    /\ losses = 0
    /\ lapses = 0
-----------------------------------------------------------------------------
(* Calls.                                                                   *)

\* After its task, or for want of one, a worker polls, ends or is stopped.
Goes(a, pc) ==
    workers' = [workers EXCEPT ![a] = IF pc \in {"poll", "ended", "stopped"} THEN Fresh(pc)
                                      ELSE [@ EXCEPT !.pc = pc, !.posts = 0]]

Answered(a, pc) == Goes(a, pc) /\ UNCHANGED losses

\* _post: it is posted again, or raises, and the worker goes on at pc.
Unanswered(a, pc) ==
    /\ losses < MaxLosses
    /\ losses' = losses + 1
    /\ IF workers[a].posts + 1 < Attempts
       THEN workers' = [workers EXCEPT ![a].posts = @ + 1]
       ELSE Goes(a, pc)

Reply(a, pc, raised) == Answered(a, pc) \/ Unanswered(a, raised)

\* The lease the worker was given is good.
Active(a) ==
    workers[a].lease # None /\ ActiveLease(a, workers[a].task, workers[a].lease)

\* Calls that ask for a good lease and leave the store as it is.
Check(a, pc, raised) ==
    /\ \/ Active(a) /\ Reply(a, pc, raised)
       \/ ~Active(a) /\ Reply(a, raised, raised)
       \/ Unanswered(a, raised)
    /\ UNCHANGED storeVars

\* finish_task with this outcome.
Report(a, state, pc, raised) ==
    LET accepted == Accepts(a, workers[a].task, workers[a].lease, state) IN
    \/ accepted /\ FinishTask(workers[a].task, state) /\ Reply(a, pc, raised)
    \/ ~accepted /\ UNCHANGED storeVars /\ Reply(a, raised, raised)
    \/ UNCHANGED storeVars /\ Unanswered(a, raised)
-----------------------------------------------------------------------------
(* The worker's loop.                                                       *)

\* serve: the program is started, and registers.
Start(a) ==
    /\ workers[a].pc \in {"ended", "stopped"}
    /\ Register(a)
    /\ Answered(a, "poll")

\* client.lease: whatever goes wrong, it returns None, and a task that was
\* leased to a lost answer has nobody who knows of it.
Poll(a) ==
    /\ workers[a].pc = "poll"
    /\ \E t \in Task, l \in Lease :
        /\ LeaseTask(a, t, l)
        /\ \/ /\ workers' = [workers EXCEPT ![a] = [Fresh("progress") EXCEPT
                                                       !.task = t, !.lease = l]]
              /\ UNCHANGED losses
           \/ Unanswered(a, "poll")

\* client.progress, outside of the try block.
Progress(a) ==
    /\ workers[a].pc = "progress"
    /\ \/ /\ Active(a)
          /\ \/ /\ workers' = [workers EXCEPT ![a].pc = "work", ![a].posts = 0,
                                              ![a].execution = "running"]
                /\ UNCHANGED losses
             \/ Unanswered(a, "ended")
       \/ ~Active(a) /\ Reply(a, "ended", "ended")
       \/ Unanswered(a, "ended")
    /\ UNCHANGED storeVars

\* The thread finishes, or raises: the executors do for a task they cannot
\* read, a command that is not allowed, or one that takes too long.
Execute(a) ==
    /\ workers[a].execution = "running"
    /\ \E outcome \in {"done", "raised"} :
          workers' = [workers EXCEPT ![a].execution = outcome]
    /\ UNCHANGED <<storeVars, losses>>

\* The head of the loop, and its half minute of sleep.
LoopOrReport(a) ==
    /\ workers[a].pc = "work"
    /\ Answered(a, IF workers[a].execution = "running" THEN "heartbeat" ELSE "report")
    /\ UNCHANGED storeVars

\* client.heartbeat.  execution.cancel() stops one that still runs.
Heartbeat(a) ==
    /\ workers[a].pc = "heartbeat"
    /\ \/ /\ Active(a) /\ tasks[workers[a].task] = "cancelling"
          /\ \/ /\ workers' = [workers EXCEPT
                          ![a].pc = "cancel", ![a].posts = 0,
                          ![a].execution = IF @ = "running" THEN "cancelled" ELSE @]
                /\ UNCHANGED <<storeVars, losses>>
             \/ Unanswered(a, "fail") /\ UNCHANGED storeVars
       \/ /\ ~(Active(a) /\ tasks[workers[a].task] = "cancelling")
          /\ Check(a, "renew", "fail")

\* client.renew: the lease is good for longer.
Renew(a) ==
    /\ workers[a].pc = "renew"
    /\ Check(a, "work", "fail")

\* client.cancel.  What was finished before is reported nevertheless.
Cancel(a) ==
    /\ workers[a].pc = "cancel"
    /\ Report(a, "cancelled",
              IF workers[a].execution = "cancelled" THEN "poll" ELSE "report", "fail")

\* The result is awaited.
Await(a) ==
    /\ workers[a].pc = "report"
    /\ Answered(a, IF workers[a].execution = "done" THEN "complete" ELSE "fail")
    /\ UNCHANGED storeVars

Complete(a) == workers[a].pc = "complete" /\ Report(a, "completed", "poll", "fail")
Fail(a) == workers[a].pc = "fail" /\ Report(a, "failed", "poll", "ended")

\* The program is stopped: asyncio.CancelledError is raised where it waits and
\* is not handled, so nothing is reported.
Stop(a) ==
    /\ workers[a].pc \notin {"ended", "stopped"}
    /\ Answered(a, "stopped")
    /\ UNCHANGED storeVars

WorkerStep(a) ==
    \/ Start(a) \/ Poll(a) \/ Progress(a) \/ Execute(a) \/ LoopOrReport(a)
    \/ Heartbeat(a) \/ Renew(a) \/ Cancel(a) \/ Await(a) \/ Complete(a) \/ Fail(a)
    \/ Stop(a)

Operate ==
    \/ \E t \in Task : AddTask(t) \/ RequestTaskCancellation(t) \/ Grant(t)
    \/ \E a \in Ara : SetRemoteAgentTrust(a) \/ RevokeRemoteAgent(a)

RunOut(l) == lapses < MaxLapses /\ Lapse(l) /\ lapses' = lapses + 1

Next ==
    \/ \E a \in Ara : WorkerStep(a) /\ UNCHANGED lapses
    \/ Operate /\ UNCHANGED <<workers, losses, lapses>>
    \/ \E l \in Lease : RunOut(l) /\ UNCHANGED <<workers, losses>>

Spec == Init /\ [][Next]_vars
-----------------------------------------------------------------------------
(* A report that was accepted stands until the task is leased again: the    *)
(* second post of a report whose answer was lost, the failure reported      *)
(* after it, a cancellation that comes too late, or the agent that was      *)
(* taken over or revoked, changes nothing (_active_lease in finish_task).   *)
ResultStands ==
    [][\A t \in Task :
          tasks[t] \in Final /\ tasks'[t] # tasks[t]
              => tasks'[t] = "leased" /\ used' # used]_vars

\* The worker is at work under the lease.
Holder(a, t, l) ==
    /\ workers[a].task = t /\ workers[a].lease = l
    /\ workers[a].pc \notin {"poll", "ended", "stopped"}

InHand(a, t, l) == ActiveLease(a, t, l) => Holder(a, t, l)

(* A worker lets go of a good lease only when it is stopped or when an      *)
(* answer is lost, by that very step: not when its work is done, raises, is *)
(* cancelled, refused for want of an approval or overtaken, nor afterwards, *)
(* whatever was lost before (the handlers in serve, astra_ara/main.py and   *)
(* host_main.py).                                                           *)
OnlyStopsAndLossesForget ==
    [][\A a \in Ara, t \in Task, l \in Lease :
          InHand(a, t, l) => InHand(a, t, l)' \/ Stop(a) \/ losses' # losses]_vars
=============================================================================
