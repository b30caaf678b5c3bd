----------------------------- MODULE MemorySync -----------------------------
(***************************************************************************)
(* Memory records and the vector index that follows them.                   *)
(*                                                                          *)
(* JobQueue leaves open what a job does.  Here a job for a message extracts *)
(* memories from it, stores them one by one and enqueues a vector job for   *)
(* each promoted one; a job for a memory reads its record and writes the    *)
(* outcome to Qdrant.  Between any two of these calls the user may review   *)
(* or delete a memory, and another process may do the same.                 *)
(*                                                                          *)
(* A route that changes a record commits, and only then enqueues the vector *)
(* job; a controller tool that stores a fact writes to Qdrant itself.  Such *)
(* an unfinished second half is a member of handlers, and a crash loses it. *)
(*                                                                          *)
(* The vector job of a memory is found by the id of its record, and there   *)
(* is one for it at most, ever: that of its first promotion or deletion.    *)
(***************************************************************************)
EXTENDS JobQueue, FiniteSets, MemoryRecords

CONSTANTS Message,      \* messages of conversations
          Finds,        \* the sets of memories an extraction of each message
                        \* may find: one for the pattern extractor, several
                        \* for a local model, which may answer differently
          Verdict,      \* whether an extraction promotes a memory, which
                        \* again may differ from one answer to the next
          Told,         \* memories that a controller tool may be told
          MaxHandlers   \* bound: unfinished handlers at a time

ASSUME MemoryAssumption ==
    /\ Job = Message \cup Memory
    /\ Message \cap Memory = {}
    /\ Finds \in [Message -> SUBSET SUBSET Memory]
    /\ Verdict \in [Memory -> SUBSET BOOLEAN]
    /\ Told \subseteq Memory
    /\ None \notin Memory
    /\ MaxHandlers \in Nat

VARIABLES index,     \* memories that have a vector in Qdrant
          work,      \* local variables of each job loop while it works
          handlers   \* requests and tool calls that are not over

memoryVars == <<records, index, work, handlers>>
vars == <<queueVars, memoryVars>>

Locals == [stage : {"start", "store", "index"},
           found : SUBSET Memory,   \* extracted, not stored yet
           kept : SUBSET Memory,    \* stored and promoted, not enqueued yet
           seen : State \cup {"absent"}]
Fresh == [stage |-> "start", found |-> {}, kept |-> {}, seen |-> "absent"]
Handler == [process : Runner,
            then : {"enqueue", "index"},
            todo : SUBSET Memory,    \* memories still to be enqueued or indexed
            seen : State \cup {"absent"}]

MemoryTypeOK ==
    /\ QueueTypeOK
    /\ RecordsTypeOK
    /\ index \in SUBSET Memory
    /\ work \in [Runner -> Locals]
    /\ handlers \in SUBSET Handler

MemoryInit ==
    /\ QueueInit
    /\ RecordsInit
    /\ index = {}
    /\ work = [r \in Runner |-> Fresh]
    /\ handlers = {}
-----------------------------------------------------------------------------
(* Statements that several callers use.                                     *)

\* Faulty: an extraction's promoted records get their vector written later.
EnqueueNothing(m) == UNCHANGED rowVars

\* Faulty: a memory that changes again gets its old job back, as new.
EnqueueOver(m) == Insert(m)

\* enqueue_job for the vector of a memory.
EnqueueVector(m) ==
    IF jobs[m].state = "absent" THEN Insert(m) ELSE UNCHANGED rowVars

\* sync_memory, on the record as the caller read it.
Synced(m, seen) ==
    CASE seen = "promoted" -> index \cup {m}
      [] seen = "deleted" -> index \ {m}
      [] OTHER -> index

Up(r) == runners[r].pc # "down"

\* A handler of process r has committed, and goes on with these memories.
Then(r, then, todo, seen) ==
    /\ Cardinality(handlers) < MaxHandlers
    /\ handlers' = handlers \cup {[process |-> r, then |-> then, todo |-> todo,
                                   seen |-> seen]}
-----------------------------------------------------------------------------
(* The work of a job.                                                       *)

AtWork(r, kind) == runners[r].pc = "work" /\ runners[r].job \in kind

\* The local model, or the patterns when it fails, find something.
Extract(r) ==
    /\ AtWork(r, Message) /\ work[r].stage = "start"
    /\ \E found \in Finds[runners[r].job] :
          work' = [work EXCEPT ![r] = [Fresh EXCEPT !.stage = "store",
                                                    !.found = found]]
    /\ UNCHANGED <<queueVars, records, index, handlers>>

\* Faulty: only what the extraction promoted itself gets a vector, not what an
\* earlier attempt of it had promoted.
StoreFoundNew(r) ==
    /\ AtWork(r, Message)
    /\ \E m \in work[r].found : \E promoted \in Verdict[m] :
        /\ Store(m, promoted)
        /\ work' = [work EXCEPT ![r].found = @ \ {m},
                                ![r].kept = IF records'[m] = "promoted" /\ records[m] # "promoted"
                                            THEN @ \cup {m} ELSE @]
    /\ UNCHANGED <<queueVars, index, handlers>>

\* extract_content stores one of them.
StoreFound(r) ==
    /\ AtWork(r, Message)
    /\ \E m \in work[r].found : \E promoted \in Verdict[m] :
        /\ Store(m, promoted)
        /\ work' = [work EXCEPT ![r].found = @ \ {m},
                                ![r].kept = IF records'[m] = "promoted"
                                            THEN @ \cup {m} ELSE @]
    /\ UNCHANGED <<queueVars, index, handlers>>

\* The loop enqueues the vector of one of the promoted records.
EnqueueKept(r) ==
    /\ AtWork(r, Message) /\ work[r].stage = "store" /\ work[r].found = {}
    /\ \E m \in work[r].kept :
        /\ EnqueueVector(m)
        /\ work' = [work EXCEPT ![r].kept = @ \ {m}]
    /\ UNCHANGED <<runners, mishaps, records, index, handlers>>

\* get_memory, before the vector is written.
ReadRecord(r) ==
    /\ AtWork(r, Memory) /\ work[r].stage = "start"
    /\ work' = [work EXCEPT ![r] = [Fresh EXCEPT !.stage = "index",
                                                 !.seen = records[runners[r].job]]]
    /\ UNCHANGED <<queueVars, records, index, handlers>>

\* Qdrant takes the vector; its answer may be lost all the same.
WriteVector(r) ==
    /\ AtWork(r, Memory) /\ work[r].stage = "index"
    /\ Work(r)
    /\ index' = Synced(runners[r].job, work[r].seen)
    /\ work' = [work EXCEPT ![r] = Fresh]
    /\ UNCHANGED <<records, handlers>>

\* All found memories are stored and enqueued.
FinishExtraction(r) ==
    /\ AtWork(r, Message) /\ work[r].stage = "store"
    /\ work[r].found = {} /\ work[r].kept = {}
    /\ Work(r) /\ runners'[r].pc = "complete"
    /\ work' = [work EXCEPT ![r] = Fresh]
    /\ UNCHANGED <<records, index, handlers>>

\* Any call of the work may raise: what was done stays done.
WorkFails(r) ==
    /\ Work(r) /\ runners'[r].pc = "retry"
    /\ work' = [work EXCEPT ![r] = Fresh]
    /\ UNCHANGED <<records, index, handlers>>

WorkStep(r) ==
    \/ Extract(r) \/ StoreFound(r) \/ EnqueueKept(r) \/ FinishExtraction(r)
    \/ ReadRecord(r) \/ WriteVector(r) \/ WorkFails(r)

\* The loop around the work.
LoopStep(r) ==
    /\ Claim(r) \/ Complete(r) \/ Retry(r)
    /\ UNCHANGED memoryVars

\* An error of the store ends it; the handlers of the process go on.
LoopFails(r) == StoreFails(r) /\ UNCHANGED memoryVars

StartProcess(r) == Restart(r) /\ UNCHANGED memoryVars

\* A process that stops loses its work and its handlers.
StopProcess(r) ==
    /\ Crash(r)
    /\ work' = [work EXCEPT ![r] = Fresh]
    /\ handlers' = {h \in handlers : h.process # r}
    /\ UNCHANGED <<records, index>>
-----------------------------------------------------------------------------
(* Requests, each served by a process that is up.                           *)

\* A message is stored and its extraction enqueued.
PostMessage(msg) == Enqueue(msg) /\ UNCHANGED memoryVars

\* review_memory rejects a candidate; nothing follows.
Reject(m) ==
    /\ RejectRecord(m)
    /\ UNCHANGED <<queueVars, index, work, handlers>>

\* review_memory promotes a candidate; the route then enqueues its vector.
Promote(r, m) ==
    /\ Up(r) /\ PromoteRecord(m)
    /\ Then(r, "enqueue", {m}, "absent")
    /\ UNCHANGED <<queueVars, index, work>>

\* review_memory promotes a candidate and retires the memory it contradicts
\* in one transaction.  The user's route enqueues both vectors, the
\* operator's only that of the promoted one.
Replace(r, m, old) ==
    /\ Up(r) /\ ReplaceRecord(m, old)
    /\ \E todo \in {{m, old}, {m}} : Then(r, "enqueue", todo, "absent")
    /\ UNCHANGED <<queueVars, index, work>>

\* delete_memory, and the vector job that is to take the vector away.
Delete(r, m) ==
    /\ Up(r) /\ DeleteRecord(m)
    /\ Then(r, "enqueue", {m}, "absent")
    /\ UNCHANGED <<queueVars, index, work>>

\* The controller's tool set_fact promotes everything it extracts, and then
\* hands the record it got back to sync_memory.
SetFact(r, m) ==
    /\ Up(r) /\ m \in Told
    /\ Store(m, TRUE)
    /\ Then(r, "index", {m}, Upsert(m, TRUE))
    /\ UNCHANGED <<queueVars, index, work>>

\* A handler enqueues the next vector job.
HandlerEnqueues(h) ==
    /\ h.then = "enqueue"
    /\ \E m \in h.todo :
        /\ EnqueueVector(m)
        /\ handlers' = (handlers \ {h})
              \cup {[h EXCEPT !.todo = left] : left \in {h.todo \ {m}} \ {{}}}
    /\ UNCHANGED <<runners, mishaps, records, index, work>>

\* Qdrant takes it, or not: nobody tries again.
HandlerIndexes(h) ==
    /\ h.then = "index"
    /\ \E m \in h.todo : index' \in {index, Synced(m, h.seen)}
    /\ handlers' = handlers \ {h}
    /\ UNCHANGED <<queueVars, records, work>>

\* Time.  No operator requeues a job here: JobQueue shows where that leads.
Clock(j) ==
    /\ FallDue(j) \/ Lapse(j) \/ Outlive(j)
    /\ UNCHANGED memoryVars

MemoryNext ==
    \/ \E r \in Runner :
          LoopStep(r) \/ WorkStep(r) \/ LoopFails(r) \/ StopProcess(r) \/ StartProcess(r)
    \/ \E r \in Runner, m \in Memory : Promote(r, m) \/ Delete(r, m) \/ SetFact(r, m)
    \/ \E r \in Runner, m, old \in Memory : Replace(r, m, old)
    \/ \E m \in Memory : Reject(m)
    \/ \E msg \in Message : PostMessage(msg)
    \/ \E h \in handlers : HandlerEnqueues(h) \/ HandlerIndexes(h)
    \/ \E j \in Job : Clock(j)
-----------------------------------------------------------------------------
(* A loop goes on with its work, a process that stopped is started again,   *)
(* handlers run on, time passes.                                            *)
Fairness ==
    /\ \A r \in Runner :
        /\ WF_vars(WorkStep(r) \/ LoopStep(r) \/ StartProcess(r))
        /\ WF_vars(\E h \in handlers : h.process = r
                                    /\ (HandlerEnqueues(h) \/ HandlerIndexes(h)))
    /\ \A j \in Job : WF_vars((FallDue(j) \/ Lapse(j)) /\ UNCHANGED memoryVars)

MemorySpec == MemoryInit /\ [][MemoryNext]_vars /\ Fairness
-----------------------------------------------------------------------------
(* The jobs of memories behave as JobQueue says, with its fairness: what    *)
(* the work does in between is hidden (run_jobs in astra_agent/app.py).     *)
ImplementsJobQueue == QueueSpec

(* What an extraction stored as promoted gets a vector job, across crashes, *)
(* lost loops and failures between the storing and the enqueueing: the job  *)
(* is tried again, finds the memory there, and enqueues it all the same.    *)
(* Unless the job gives up, the user retires the memory, or errors of the   *)
(* store leave no loop (extract_content in run_jobs).                       *)
RememberedIsQueued ==
    LoopsGoOn =>
      \A r \in Runner, msg \in Message, m \in Memory :
            (runners[r].job = msg /\ m \in work[r].kept)
                ~> (jobs[m].state # "absent" \/ records[m] # "promoted"
                    \/ jobs[msg].state = "failed")

\* The handler is going to see to the vector of a promoted memory.
Pursues(h, m) == m \in h.todo /\ (h.then = "enqueue" \/ h.seen = "promoted")

\* The vector is there, or there is a job for it, or somebody who committed the
\* promotion has not yet come to enqueue the job or to write the vector.
Pursued(m) ==
    \/ m \in index
    \/ jobs[m].state # "absent"
    \/ \E r \in Runner : m \in work[r].kept
    \/ \E h \in handlers : Pursues(h, m)

Followed(m) == records[m] = "promoted" => Pursued(m)

\* The three ways to lose the vector of a memory: the process stops, the work of
\* the loop raises, or Qdrant does not take the one write of a tool.
Loses(m) ==
    \/ \E r \in Runner : /\ StopProcess(r)
                         /\ \/ m \in work[r].kept
                            \/ \E h \in handlers : h.process = r /\ Pursues(h, m)
    \/ \E r \in Runner : WorkFails(r) /\ m \in work[r].kept
    \/ \E h \in handlers : HandlerIndexes(h) /\ Pursues(h, m) /\ index' = index

(* A promoted memory is without a vector, without a job for it and without  *)
(* anybody about to see to it only after one of three failures, each of     *)
(* which had its vector in hand: the process that had promoted it stopped,  *)
(* the job that had stored it raised, or Qdrant did not take the write of   *)
(* set_fact.  No order of reviews, deletions, extractions and late writes   *)
(* brings it about (the routes of astra_agent/app.py, run_jobs, set_fact).  *)
(* It says nothing of the vector of a memory that was deleted: when its job *)
(* is running or settled, nothing takes the vector away.                    *)
OnlyFailuresLoseVectors ==
    [][\A m \in Memory : Followed(m) => Followed(m)' \/ Loses(m)]_vars
=============================================================================
