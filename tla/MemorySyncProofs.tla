-------------------------- MODULE MemorySyncProofs --------------------------
(***************************************************************************)
(* What holds of memories, their vectors and their jobs for any number of   *)
(* messages, memories and processes: the types; that the jobs behave as     *)
(* JobQueue says, step by step, so that what JobQueueProofs shows of the    *)
(* queue holds of it here; and what it takes for a promoted memory to be    *)
(* left without its vector.                                                 *)
(***************************************************************************)
EXTENDS MemorySync, JobQueueProofs

\* The parts of the type invariant that are not about the queue.
OwnTypeOK ==
    /\ RecordsTypeOK
    /\ index \in SUBSET Memory
    /\ work \in [Runner -> Locals]
    /\ handlers \in SUBSET Handler

MemoryInv == QueueInv /\ OwnTypeOK
-----------------------------------------------------------------------------
(* The queue.                                                               *)

\* Enqueueing the vector of a memory is a step of the queue, or none.
LEMMA EnqueueVectorQueues ==
    ASSUME MemoryAssumption, NEW m \in Memory, EnqueueVector(m), UNCHANGED <<runners, mishaps>>
    PROVE  [QueueNext]_queueVars
<1>1. m \in Job
  BY DEF MemoryAssumption
<1>2. CASE jobs[m].state = "absent"
  <2>1. Enqueue(m)
    BY <1>2 DEF EnqueueVector, Enqueue
  <2> QED
    BY <1>1, <2>1 DEF QueueNext
<1>3. CASE jobs[m].state # "absent"
  BY <1>3 DEF EnqueueVector, rowVars, queueVars
<1> QED
  BY <1>2, <1>3

\* A step of a job loop is one of the queue, or hidden from it.
LEMMA LoopQueues ==
    ASSUME MemoryAssumption, OwnTypeOK, NEW r \in Runner,
           LoopStep(r) \/ WorkStep(r) \/ LoopFails(r) \/ StopProcess(r) \/ StartProcess(r)
    PROVE  [QueueNext]_queueVars
<1>1. CASE \/ Claim(r) \/ Complete(r) \/ Retry(r) \/ Work(r)
         \/ StoreFails(r) \/ Crash(r) \/ Restart(r)
  BY <1>1 DEF QueueNext, RunnerStep
<1>2. CASE EnqueueKept(r)
  <2>1. PICK m \in work[r].kept : EnqueueVector(m)
    BY <1>2 DEF EnqueueKept
  <2>2. m \in Memory
    BY <2>1 DEF OwnTypeOK, Locals
  <2> QED
    BY <1>2, <2>1, <2>2, EnqueueVectorQueues DEF EnqueueKept
<1>3. CASE Extract(r) \/ StoreFound(r) \/ ReadRecord(r)
  BY <1>3 DEF Extract, StoreFound, ReadRecord
<1> QED
  BY <1>1, <1>2, <1>3 DEF LoopStep, LoopFails, WorkStep, StopProcess, StartProcess,
     WriteVector, FinishExtraction, WorkFails

\* A request, its handler, or time.
LEMMA RequestQueues ==
    ASSUME MemoryAssumption, OwnTypeOK,
           \/ \E r \in Runner, m \in Memory : Promote(r, m) \/ Delete(r, m) \/ SetFact(r, m)
           \/ \E r \in Runner, m, old \in Memory : Replace(r, m, old)
           \/ \E m \in Memory : Reject(m)
           \/ \E msg \in Message : PostMessage(msg)
           \/ \E h \in handlers : HandlerEnqueues(h) \/ HandlerIndexes(h)
           \/ \E j \in Job : Clock(j)
    PROVE  [QueueNext]_queueVars
<1>1. CASE \/ \E r \in Runner, m \in Memory : Promote(r, m) \/ Delete(r, m) \/ SetFact(r, m)
           \/ \E r \in Runner, m, old \in Memory : Replace(r, m, old)
           \/ \E m \in Memory : Reject(m)
           \/ \E h \in handlers : HandlerIndexes(h)
  BY <1>1 DEF Promote, Delete, SetFact, Replace, Reject, HandlerIndexes
<1>2. CASE \E msg \in Message : PostMessage(msg)
  <2>1. \E j \in Job : Enqueue(j)
    BY <1>2 DEF PostMessage, MemoryAssumption
  <2> QED
    BY <2>1 DEF QueueNext
<1>3. CASE \E h \in handlers : HandlerEnqueues(h)
  <2>1. PICK h \in handlers : HandlerEnqueues(h)
    BY <1>3
  <2>2. PICK m \in h.todo : EnqueueVector(m)
    BY <2>1 DEF HandlerEnqueues
  <2>3. m \in Memory
    BY <2>2 DEF OwnTypeOK, Handler
  <2> QED
    BY <2>1, <2>2, <2>3, EnqueueVectorQueues DEF HandlerEnqueues
<1>4. CASE \E j \in Job : Clock(j)
  BY <1>4 DEF Clock, QueueNext
<1> QED
  BY <1>1, <1>2, <1>3, <1>4

\* Every step.
LEMMA StepQueues ==
    ASSUME MemoryAssumption, OwnTypeOK, [MemoryNext]_vars
    PROVE  [QueueNext]_queueVars
<1>1. CASE UNCHANGED vars
  BY <1>1 DEF vars
<1> QED
  BY <1>1, LoopQueues, RequestQueues DEF MemoryNext
-----------------------------------------------------------------------------
(* Types.                                                                   *)

\* What the record operations leave is a state of a record.
LEMMA RecordTypes ==
    ASSUME RecordsTypeOK, NEW m \in Memory
    PROVE  /\ \A promoted \in BOOLEAN :
                 /\ Upsert(m, promoted) \in State
                 /\ Store(m, promoted) => RecordsTypeOK'
           /\ PromoteRecord(m) \/ RejectRecord(m) \/ DeleteRecord(m) => RecordsTypeOK'
           /\ \A old \in Memory : ReplaceRecord(m, old) => RecordsTypeOK'
<1>1. \A promoted \in BOOLEAN : Upsert(m, promoted) \in State
  BY DEF RecordsTypeOK, Upsert, Live, State
<1> QED
  BY <1>1 DEF RecordsTypeOK, Store, PromoteRecord, RejectRecord, DeleteRecord, ReplaceRecord,
     State

\* The variables of a job loop.
LEMMA LocalsTypes ==
    /\ Fresh \in Locals
    /\ \A w \in Locals, s \in SUBSET Memory :
          /\ [w EXCEPT !.found = s] \in Locals
          /\ [w EXCEPT !.kept = s] \in Locals
    /\ \A s \in SUBSET Memory : [Fresh EXCEPT !.stage = "store", !.found = s] \in Locals
    /\ \A x \in State \cup {"absent"} :
          [Fresh EXCEPT !.stage = "index", !.seen = x] \in Locals
<1>1. Fresh \in Locals
  BY DEF Fresh, Locals
<1>2. \A w \in Locals, s \in SUBSET Memory : [w EXCEPT !.found = s] \in Locals
  BY DEF Locals
<1>3. \A w \in Locals, s \in SUBSET Memory : [w EXCEPT !.kept = s] \in Locals
  BY DEF Locals
<1>4. \A s \in SUBSET Memory : [Fresh EXCEPT !.stage = "store", !.found = s] \in Locals
  BY <1>1 DEF Locals
<1>5. \A x \in State \cup {"absent"} :
         [Fresh EXCEPT !.stage = "index", !.seen = x] \in Locals
  BY <1>1 DEF Locals
<1> QED
  BY <1>1, <1>2, <1>3, <1>4, <1>5

\* A vector that was written or taken away belongs to the memory.
LEMMA SyncedTypes ==
    ASSUME index \in SUBSET Memory, NEW m \in Memory, NEW seen
    PROVE  Synced(m, seen) \in SUBSET Memory
<1>1. CASE seen = "promoted"
  BY <1>1 DEF Synced
<1>2. CASE seen = "deleted"
  BY <1>2 DEF Synced
<1>3. CASE seen \notin {"promoted", "deleted"}
  BY <1>3 DEF Synced
<1> QED
  BY <1>1, <1>2, <1>3

\* A handler that a request leaves is one.
LEMMA ThenTypes ==
    ASSUME handlers \in SUBSET Handler, NEW r \in Runner, NEW then \in {"enqueue", "index"},
           NEW todo \in SUBSET Memory, NEW seen \in State \cup {"absent"},
           Then(r, then, todo, seen)
    PROVE  handlers' \in SUBSET Handler
BY DEF Then, Handler

\* A step of a job loop keeps the types.
LEMMA LoopTypes ==
    ASSUME MemoryAssumption, OwnTypeOK, NEW r \in Runner,
           LoopStep(r) \/ WorkStep(r) \/ LoopFails(r) \/ StopProcess(r) \/ StartProcess(r)
    PROVE  OwnTypeOK'
<1> USE DEF OwnTypeOK
<1>1. UNCHANGED memoryVars => OwnTypeOK'
  BY DEF memoryVars, RecordsTypeOK
<1>2. records' = records => RecordsTypeOK'
  BY DEF RecordsTypeOK
<1>3. work[r] \in Locals
  OBVIOUS
<1>4. work[r].found \in SUBSET Memory /\ work[r].kept \in SUBSET Memory
  BY <1>3 DEF Locals
<1>5. CASE LoopStep(r) \/ LoopFails(r) \/ StartProcess(r)
  BY <1>1, <1>5 DEF LoopStep, LoopFails, StartProcess
<1>6. CASE Extract(r)
  <2>1. PICK found \in Finds[runners[r].job] :
            work' = [work EXCEPT ![r] = [Fresh EXCEPT !.stage = "store", !.found = found]]
    BY <1>6 DEF Extract
  <2>2. found \in SUBSET Memory
    BY <1>6, <2>1 DEF Extract, AtWork, MemoryAssumption
  <2>3. work' \in [Runner -> Locals]
    BY <2>1, <2>2, LocalsTypes
  <2> QED
    BY <1>2, <1>6, <2>3 DEF Extract
<1>7. CASE StoreFound(r)
  <2> DEFINE Stored(m, promoted) ==
               /\ Store(m, promoted)
               /\ work' = [work EXCEPT ![r].found = @ \ {m},
                                       ![r].kept = IF records'[m] = "promoted"
                                                   THEN @ \cup {m} ELSE @]
  <2>0. PICK m \in work[r].found : \E promoted \in Verdict[m] : Stored(m, promoted)
    BY <1>7 DEF StoreFound
  <2>1. PICK promoted \in Verdict[m] : Stored(m, promoted)
    BY <2>0
  <2>2. m \in Memory /\ promoted \in BOOLEAN
    BY <1>4, <2>1 DEF MemoryAssumption
  <2>3. RecordsTypeOK'
    BY <2>1, <2>2, RecordTypes
  <2>4. PICK kept \in SUBSET Memory :
            work' = [work EXCEPT ![r] = [[work[r] EXCEPT !.found = work[r].found \ {m}]
                                           EXCEPT !.kept = kept]]
    <3>1. CASE records'[m] = "promoted"
      <4>1. work' = [work EXCEPT ![r] = [[work[r] EXCEPT !.found = work[r].found \ {m}]
                                           EXCEPT !.kept = work[r].kept \cup {m}]]
        BY <1>3, <2>1, <3>1 DEF Locals
      <4> QED
        BY <1>4, <2>2, <4>1
    <3>2. CASE records'[m] # "promoted"
      <4>1. work' = [work EXCEPT ![r] = [[work[r] EXCEPT !.found = work[r].found \ {m}]
                                           EXCEPT !.kept = work[r].kept]]
        BY <1>3, <2>1, <3>2 DEF Locals
      <4> QED
        BY <1>4, <4>1
    <3> QED
      BY <3>1, <3>2
  <2>5. [work[r] EXCEPT !.found = work[r].found \ {m}] \in Locals
    BY <1>3, <1>4, LocalsTypes
  <2>6. work' \in [Runner -> Locals]
    BY <2>4, <2>5, LocalsTypes
  <2> QED
    BY <1>7, <2>3, <2>6 DEF StoreFound
<1>8. CASE EnqueueKept(r)
  <2>1. PICK m \in work[r].kept :
            work' = [work EXCEPT ![r] = [work[r] EXCEPT !.kept = work[r].kept \ {m}]]
    BY <1>8 DEF EnqueueKept
  <2>2. work' \in [Runner -> Locals]
    BY <1>3, <1>4, <2>1, LocalsTypes
  <2> QED
    BY <1>2, <1>8, <2>2 DEF EnqueueKept
<1>9. CASE ReadRecord(r)
  <2>1. work' = [work EXCEPT ![r] = [Fresh EXCEPT !.stage = "index",
                                                  !.seen = records[runners[r].job]]]
    BY <1>9 DEF ReadRecord
  <2>2. records[runners[r].job] \in State \cup {"absent"}
    BY <1>9 DEF ReadRecord, AtWork, RecordsTypeOK
  <2>3. work' \in [Runner -> Locals]
    BY <2>1, <2>2, LocalsTypes
  <2> QED
    BY <1>2, <1>9, <2>3 DEF ReadRecord
<1>10. CASE WriteVector(r)
  <2>1. index' \in SUBSET Memory
    BY <1>10, SyncedTypes DEF WriteVector, AtWork
  <2>2. work' \in [Runner -> Locals]
    BY <1>10, LocalsTypes DEF WriteVector
  <2> QED
    BY <1>2, <1>10, <2>1, <2>2 DEF WriteVector
<1>11. CASE FinishExtraction(r) \/ WorkFails(r) \/ StopProcess(r)
  <2>1. /\ work' = [work EXCEPT ![r] = Fresh] /\ records' = records /\ index' = index
        /\ handlers' \subseteq handlers
    BY <1>11 DEF FinishExtraction, WorkFails, StopProcess
  <2>2. work' \in [Runner -> Locals]
    BY <2>1, LocalsTypes
  <2> QED
    BY <1>2, <2>1, <2>2
<1> QED
  BY <1>5, <1>6, <1>7, <1>8, <1>9, <1>10, <1>11 DEF WorkStep

\* A request, its handler or time keeps the types.
LEMMA RequestTypes ==
    ASSUME MemoryAssumption, OwnTypeOK,
           \/ \E r \in Runner, m \in Memory : Promote(r, m) \/ Delete(r, m) \/ SetFact(r, m)
           \/ \E r \in Runner, m, old \in Memory : Replace(r, m, old)
           \/ \E m \in Memory : Reject(m)
           \/ \E msg \in Message : PostMessage(msg)
           \/ \E h \in handlers : HandlerEnqueues(h) \/ HandlerIndexes(h)
           \/ \E j \in Job : Clock(j)
    PROVE  OwnTypeOK'
<1> USE DEF OwnTypeOK
<1>1. UNCHANGED memoryVars => OwnTypeOK'
  BY DEF memoryVars, RecordsTypeOK
<1>2. records' = records => RecordsTypeOK'
  BY DEF RecordsTypeOK
<1>3. ASSUME NEW r \in Runner, NEW m \in Memory, Promote(r, m) \/ Delete(r, m)
      PROVE  OwnTypeOK'
  <2>1. handlers' \in SUBSET Handler
    BY <1>3, ThenTypes DEF Promote, Delete
  <2> QED
    BY <1>3, <2>1, RecordTypes DEF Promote, Delete
<1>4. ASSUME NEW r \in Runner, NEW m \in Memory, SetFact(r, m)
      PROVE  OwnTypeOK'
  <2>1. Upsert(m, TRUE) \in State /\ RecordsTypeOK'
    BY <1>4, RecordTypes DEF SetFact
  <2>2. handlers' \in SUBSET Handler
    BY <1>4, <2>1, ThenTypes DEF SetFact
  <2> QED
    BY <1>4, <2>1, <2>2 DEF SetFact
<1>5. ASSUME NEW r \in Runner, NEW m \in Memory, NEW old \in Memory, Replace(r, m, old)
      PROVE  OwnTypeOK'
  <2>1. PICK todo \in {{m, old}, {m}} : Then(r, "enqueue", todo, "absent")
    BY <1>5 DEF Replace
  <2>2. handlers' \in SUBSET Handler
    BY <2>1, ThenTypes
  <2> QED
    BY <1>5, <2>2, RecordTypes DEF Replace
<1>6. ASSUME NEW m \in Memory, Reject(m)
      PROVE  OwnTypeOK'
  BY <1>6, RecordTypes DEF Reject
<1>7. ASSUME NEW h \in handlers, HandlerEnqueues(h)
      PROVE  OwnTypeOK'
  <2>1. PICK m \in h.todo :
            handlers' = (handlers \ {h})
               \cup {[h EXCEPT !.todo = left] : left \in {h.todo \ {m}} \ {{}}}
    BY <1>7 DEF HandlerEnqueues
  <2>2. h \in Handler /\ h.todo \in SUBSET Memory
    BY DEF Handler
  <2>3. [h EXCEPT !.todo = h.todo \ {m}] \in Handler
    BY <2>2 DEF Handler
  <2>4. handlers' \in SUBSET Handler
    BY <2>1, <2>3
  <2> QED
    BY <1>2, <1>7, <2>4 DEF HandlerEnqueues
<1>8. ASSUME NEW h \in handlers, HandlerIndexes(h)
      PROVE  OwnTypeOK'
  <2>1. PICK m \in h.todo : index' \in {index, Synced(m, h.seen)}
    BY <1>8 DEF HandlerIndexes
  <2>2. m \in Memory
    BY <2>1 DEF Handler
  <2>3. index' \in SUBSET Memory
    BY <2>1, <2>2, SyncedTypes
  <2> QED
    BY <1>2, <1>8, <2>3 DEF HandlerIndexes
<1>9. CASE (\E msg \in Message : PostMessage(msg)) \/ (\E j \in Job : Clock(j))
  BY <1>1, <1>9 DEF PostMessage, Clock
<1> QED
  BY <1>3, <1>4, <1>5, <1>6, <1>7, <1>8, <1>9

-----------------------------------------------------------------------------
(* The theorems.                                                            *)

\* The loops, the requests and time keep the queue's invariant and the types.
THEOREM MemoryInvariant == MemorySpec => []MemoryInv
<1>1. MemoryInit => MemoryInv
  BY InitQueueInv, LocalsTypes
     DEF MemoryInit, MemoryInv, OwnTypeOK, RecordsInit, RecordsTypeOK, State
<1>2. MemoryInv /\ [MemoryNext]_vars => MemoryInv'
  <2> SUFFICES ASSUME MemoryInv, [MemoryNext]_vars PROVE MemoryInv'
    OBVIOUS
  <2>1. QueueInv'
    BY StepQueues, StepQueueInv, MemoryAssumption DEF MemoryInv
  <2>2. OwnTypeOK'
    <3>1. CASE UNCHANGED vars
      BY <3>1 DEF vars, memoryVars, MemoryInv, OwnTypeOK, RecordsTypeOK
    <3> QED
      BY <3>1, LoopTypes, RequestTypes, MemoryAssumption DEF MemoryNext, MemoryInv
  <2> QED
    BY <2>1, <2>2 DEF MemoryInv
<1> QED
  BY <1>1, <1>2, PTL DEF MemorySpec

\* Records, vectors, jobs and handlers keep their types.
THEOREM MemoryTypeCorrect == MemorySpec => []MemoryTypeOK
<1>1. MemoryInv => MemoryTypeOK
  BY DEF MemoryInv, QueueInv, OwnTypeOK, MemoryTypeOK
<1> QED
  BY <1>1, MemoryInvariant, PTL

\* The jobs of memories and messages take the steps JobQueue allows, and no
\* others (run_jobs and enqueue_job).
THEOREM MemoryImplementsQueue == MemorySpec => QueueInit /\ [][QueueNext]_queueVars
<1>1. MemoryInit => QueueInit
  BY DEF MemoryInit
<1>2. MemoryInv /\ [MemoryNext]_vars => [QueueNext]_queueVars
  BY StepQueues, MemoryAssumption DEF MemoryInv
<1> QED
  BY <1>1, <1>2, MemoryInvariant, PTL DEF MemorySpec

\* Of the queue of memories too, a loop is left unless an error of the store
\* ended one or a requeued job is about to stop them (run_jobs).
THEOREM MemoryLoopSurvives == MemorySpec => []LoopSurvives
<1>1. MemoryInv => LoopSurvives
  BY DEF MemoryInv, QueueInv, SoundLoop, Sound, LoopSurvives, Busy, Over
<1> QED
  BY <1>1, MemoryInvariant, PTL
-----------------------------------------------------------------------------
(* Promoted memories and their vectors.                                     *)

\* Local variables of a loop that does not store memories are empty.
StoresInStage(r) == work[r].found # {} \/ work[r].kept # {} => work[r].stage = "store"

\* A loop is busy with a job that has a row.
BusyHasRow(r) == runners[r].pc \in Busy => jobs[runners[r].job].state # "absent"

\* A tool that stored a fact writes one vector, and never takes one away.
IndexesOne(h) == h.then = "index" => h.seen # "deleted" /\ \E m \in Memory : h.todo = {m}

VectorInv ==
    /\ \A r \in Runner : StoresInStage(r) /\ BusyHasRow(r)
    /\ \A h \in handlers : IndexesOne(h)

\* No row is ever removed, so a job that exists goes on existing.
LEMMA JobsStay ==
    ASSUME QueueInv, [QueueNext]_queueVars, NEW j \in Job, jobs[j].state # "absent"
    PROVE  jobs'[j].state # "absent"
  BY BudgetSteps DEF BudgetStep, Settled

\* A loop gets busy by a claim, and stays with the job it claimed.
LEMMA StepBusyHasRow ==
    ASSUME QueueInv, [QueueNext]_queueVars, NEW r \in Runner, BusyHasRow(r)
    PROVE  BusyHasRow(r)'
<1> USE DEF QueueInv
<1>1. CASE \E q \in Runner : Claim(q)
  <2>1. PICK q \in Runner : Claim(q)
    BY <1>1
  <2>2. PICK k \in Job, n \in AttemptNo : Claimed(q, k, n)
    BY <2>1, ClaimEffect
  <2>3. CASE r = q
    BY <2>2, <2>3 DEF Claimed, BusyHasRow
  <2>4. CASE r # q
    <3>1. runners'[r] = runners[r]
      BY <2>2, <2>4 DEF Claimed
    <3>2. runners[r].pc \in Busy => runners[r].job \in Job
      BY DEF ClaimKept
    <3> QED
      BY <3>1, <3>2, JobsStay DEF BusyHasRow
  <2> QED
    BY <2>3, <2>4
<1>2. CASE ~\E q \in Runner : Claim(q)
  <2>1. runners'[r].pc \in Busy => runners[r].pc \in Busy /\ runners'[r].job = runners[r].job
    BY <1>2 DEF QueueNext, RunnerStep, ClaimCollides, Work, Complete, Retry, StoreFails, Crash,
       Restart, Enqueue, Requeue, FallDue, Lapse, Outlive, queueVars, At, Idle, Ended, Broken, Down,
       Busy, QueueTypeOK
  <2>2. runners[r].pc \in Busy => runners[r].job \in Job
    BY DEF ClaimKept
  <2> QED
    BY <2>1, <2>2, JobsStay DEF BusyHasRow
<1> QED
  BY <1>1, <1>2

\* The steps of a loop keep the order of its work.
LEMMA StepStoresInStage ==
    ASSUME OwnTypeOK, MemoryAssumption, [MemoryNext]_vars, NEW r \in Runner, StoresInStage(r)
    PROVE  StoresInStage(r)'
<1>1. CASE work' = work
  BY <1>1 DEF StoresInStage
<1>2. ASSUME NEW q \in Runner, WorkStep(q) \/ StopProcess(q)
      PROVE  StoresInStage(r)'
  <2>1. CASE q # r
    <3>1. work'[r] = work[r]
      BY <1>2, <2>1 DEF WorkStep, StopProcess, Extract, StoreFound, EnqueueKept, ReadRecord,
         WriteVector, FinishExtraction, WorkFails, OwnTypeOK
    <3> QED
      BY <3>1 DEF StoresInStage
  <2>2. CASE q = r /\ Extract(r)
    BY <2>2 DEF Extract, OwnTypeOK, StoresInStage, Fresh
  <2>3. CASE q = r /\ StoreFound(r)
    <3>1. work[r].found # {} /\ work'[r].stage = work[r].stage
      BY <2>3 DEF StoreFound, OwnTypeOK, Locals
    <3> QED
      BY <3>1 DEF StoresInStage
  <2>4. CASE q = r /\ EnqueueKept(r)
    <3>1. work[r].stage = "store" /\ work'[r].stage = work[r].stage
      BY <2>4 DEF EnqueueKept, OwnTypeOK, Locals
    <3> QED
      BY <3>1 DEF StoresInStage
  <2>5. CASE q = r /\ (ReadRecord(r) \/ WriteVector(r) \/ FinishExtraction(r)
                         \/ WorkFails(r) \/ StopProcess(r))
    <3>1. Fresh.found = {} /\ Fresh.kept = {}
      BY DEF Fresh
    <3>2. CASE ReadRecord(r)
      BY <3>1, <3>2 DEF ReadRecord, OwnTypeOK, Fresh, StoresInStage
    <3>3. CASE work' = [work EXCEPT ![r] = Fresh]
      BY <3>1, <3>3 DEF OwnTypeOK, StoresInStage
    <3> QED
      BY <2>5, <3>2, <3>3 DEF WriteVector, FinishExtraction, WorkFails, StopProcess
  <2> QED
    BY <1>2, <2>1, <2>2, <2>3, <2>4, <2>5 DEF WorkStep
<1> QED
  BY <1>1, <1>2 DEF MemoryNext, LoopStep, LoopFails, StartProcess, Promote, Delete, SetFact, Replace,
     Reject, PostMessage, HandlerEnqueues, HandlerIndexes, Clock, memoryVars, vars

\* A step leaves a handler, ends it, shortens what it has to enqueue, or starts one.
LEMMA StepIndexesOne ==
    ASSUME OwnTypeOK, MemoryAssumption, [MemoryNext]_vars, \A h \in handlers : IndexesOne(h)
    PROVE  \A h \in handlers' : IndexesOne(h)
<1>1. CASE handlers' \subseteq handlers
  BY <1>1
<1>2. ASSUME NEW r \in Runner, NEW todo, Then(r, "enqueue", todo, "absent")
      PROVE  \A h \in handlers' : IndexesOne(h)
  BY <1>2 DEF Then, IndexesOne
<1>3. ASSUME NEW r \in Runner, NEW m \in Memory, SetFact(r, m)
      PROVE  \A h \in handlers' : IndexesOne(h)
  <2>1. Upsert(m, TRUE) # "deleted"
    BY DEF Upsert, Live
  <2> DEFINE new == [process |-> r, then |-> "index", todo |-> {m}, seen |-> Upsert(m, TRUE)]
  <2>2. handlers' = handlers \cup {new}
    BY <1>3 DEF SetFact, Then
  <2>3. IndexesOne(new)
    BY <2>1 DEF IndexesOne
  <2> QED
    BY <2>2, <2>3
<1>4. ASSUME NEW h \in handlers, HandlerEnqueues(h)
      PROVE  \A g \in handlers' : IndexesOne(g)
  <2>1. \A g \in handlers' \ handlers : g.then = "enqueue"
    BY <1>4 DEF HandlerEnqueues, OwnTypeOK, Handler
  <2> QED
    BY <2>1 DEF IndexesOne
<1> QED
  BY <1>1, <1>2, <1>3, <1>4 DEF MemoryNext, LoopStep, LoopFails, StartProcess, WorkStep, StopProcess,
     Extract, StoreFound, EnqueueKept, ReadRecord, WriteVector, FinishExtraction, WorkFails,
     Promote, Delete, Replace, Reject, PostMessage, HandlerIndexes, Clock, memoryVars, vars
\* Every step keeps all of it.
LEMMA StepVectorInv ==
    ASSUME MemoryInv, MemoryAssumption, VectorInv, [MemoryNext]_vars
    PROVE  VectorInv'
<1>1. QueueInv /\ OwnTypeOK /\ [QueueNext]_queueVars
  BY StepQueues DEF MemoryInv
<1>2. \A r \in Runner : StoresInStage(r)' /\ BusyHasRow(r)'
  BY <1>1, StepStoresInStage, StepBusyHasRow DEF VectorInv
<1>3. \A h \in handlers' : IndexesOne(h)
  BY <1>1, StepIndexesOne DEF VectorInv
<1> QED
  BY <1>2, <1>3 DEF VectorInv

\* A step that takes nothing away from what pursues a memory.
LEMMA PursuitGoesOn ==
    ASSUME QueueInv, [QueueNext]_queueVars, MemoryAssumption, NEW m \in Memory, Pursued(m),
           m \in index => m \in index',
           \A r \in Runner : m \in work[r].kept => m \in work'[r].kept,
           handlers \subseteq handlers'
    PROVE  Pursued(m)'
<1>1. m \in Job
  BY DEF MemoryAssumption
<1> QED
  BY <1>1, JobsStay DEF Pursued

\* A step of a job loop that is not one of these leaves a promoted memory pursued.
LEMMA LoopPursues ==
    ASSUME MemoryInv, VectorInv, MemoryAssumption, NEW m \in Memory, NEW r \in Runner,
           LoopStep(r) \/ WorkStep(r) \/ LoopFails(r) \/ StopProcess(r) \/ StartProcess(r),
           Followed(m), ~Loses(m)
    PROVE  Followed(m)'
<1>a. /\ QueueInv /\ OwnTypeOK /\ [QueueNext]_queueVars /\ m \in Job
      /\ StoresInStage(r) /\ BusyHasRow(r)
      /\ work \in [Runner -> Locals] /\ records \in [Memory -> State \cup {"absent"}]
  BY LoopQueues DEF MemoryInv, MemoryAssumption, VectorInv, OwnTypeOK, RecordsTypeOK
<1>b. jobs[m].state # "absent" => jobs'[m].state # "absent"
  BY <1>a, JobsStay
<1>c. ASSUME records'[m] = records[m], m \in index => m \in index',
             \A q \in Runner : m \in work[q].kept => m \in work'[q].kept,
             handlers' = handlers
      PROVE  Followed(m)'
  BY <1>a, <1>c, PursuitGoesOn DEF Followed
<1>d. work[r].stage # "store" => work[r].kept = {}
  BY <1>a DEF StoresInStage
<1>1. CASE LoopStep(r) \/ LoopFails(r) \/ StartProcess(r)
  BY <1>c, <1>1 DEF LoopStep, LoopFails, StartProcess, memoryVars
<1>2. CASE Extract(r) \/ ReadRecord(r) \/ FinishExtraction(r)
  <2>1. /\ work[r].kept = {} /\ \A q \in Runner : q # r => work'[q] = work[q]
        /\ records' = records /\ index' = index /\ handlers' = handlers
    BY <1>2, <1>a, <1>d DEF Extract, ReadRecord, FinishExtraction
  <2> QED
    BY <1>c, <2>1
<1>3. CASE StoreFound(r)
  <2>1. PICK k \in work[r].found : \E promoted \in Verdict[k] :
            /\ Store(k, promoted)
            /\ work' = [work EXCEPT ![r].found = @ \ {k},
                                    ![r].kept = IF records'[k] = "promoted"
                                                THEN @ \cup {k} ELSE @]
    BY <1>3 DEF StoreFound
  <2>2. k \in Memory /\ work[r] \in Locals
    BY <1>a DEF Locals
  <2>3. /\ \A q \in Runner : q # r => work'[q] = work[q]
        /\ work'[r].kept = IF records'[k] = "promoted" THEN work[r].kept \cup {k}
                                                       ELSE work[r].kept
    BY <1>a, <2>1, <2>2 DEF Locals
  <2>4. k # m => records'[m] = records[m]
    BY <1>a, <2>1 DEF Store
  <2>5. index' = index /\ handlers' = handlers
    BY <1>3 DEF StoreFound
  <2>6. CASE k = m /\ records'[m] = "promoted"
    BY <2>3, <2>6 DEF Followed, Pursued
  <2>7. CASE k # m
    BY <1>c, <2>3, <2>4, <2>5, <2>7
  <2> QED
    BY <2>6, <2>7 DEF Followed
<1>4. CASE EnqueueKept(r)
  <2>1. PICK k \in work[r].kept :
            EnqueueVector(k) /\ work' = [work EXCEPT ![r].kept = @ \ {k}]
    BY <1>4 DEF EnqueueKept
  <2>2. work[r] \in Locals
    BY <1>a
  <2>3. CASE k = m
    <3>1. jobs'[m].state # "absent"
      <4>1. CASE jobs[m].state = "absent"
        BY <1>a, <2>1, <2>3, <4>1, InsertEffect DEF EnqueueVector, QueueInv
      <4> QED
        BY <1>b, <4>1
    <3> QED
      BY <3>1 DEF Followed, Pursued
  <2>4. CASE k # m
    <3>1. \A q \in Runner : m \in work[q].kept => m \in work'[q].kept
      BY <1>a, <2>1, <2>2, <2>4 DEF Locals
    <3> QED
      BY <1>c, <1>4, <3>1 DEF EnqueueKept
  <2> QED
    BY <2>3, <2>4
<1>5. CASE WriteVector(r)
  <2>1. /\ work[r].kept = {} /\ \A q \in Runner : q # r => work'[q] = work[q]
        /\ records' = records /\ handlers' = handlers
        /\ index' = Synced(runners[r].job, work[r].seen) /\ runners[r].pc \in Busy
    BY <1>5, <1>a, <1>d DEF WriteVector, AtWork, Busy
  <2>2. CASE runners[r].job = m
    <3>1. jobs'[m].state # "absent"
      BY <1>a, <1>b, <2>1, <2>2 DEF BusyHasRow
    <3> QED
      BY <3>1 DEF Followed, Pursued
  <2>3. CASE runners[r].job # m
    <3>1. m \in index => m \in index'
      <4>1. CASE work[r].seen = "promoted"
        BY <2>1, <4>1 DEF Synced
      <4>2. CASE work[r].seen = "deleted"
        BY <2>1, <2>3, <4>2 DEF Synced
      <4>3. CASE work[r].seen \notin {"promoted", "deleted"}
        BY <2>1, <4>3 DEF Synced
      <4> QED
        BY <4>1, <4>2, <4>3
    <3> QED
      BY <1>c, <2>1, <3>1
  <2> QED
    BY <2>2, <2>3
<1>6. CASE WorkFails(r)
  <2>1. m \notin work[r].kept
    BY <1>6 DEF Loses
  <2>2. \A q \in Runner : q # r => work'[q] = work[q]
    BY <1>6, <1>a DEF WorkFails
  <2> QED
    BY <1>c, <1>6, <2>1, <2>2 DEF WorkFails
<1>7. CASE StopProcess(r)
  <2>1. m \notin work[r].kept /\ \A h \in handlers : Pursues(h, m) => h.process # r
    BY <1>7 DEF Loses
  <2>2. /\ \A q \in Runner : q # r => work'[q] = work[q]
        /\ handlers' = {h \in handlers : h.process # r}
        /\ records' = records /\ index' = index
    BY <1>7, <1>a DEF StopProcess
  <2> QED
    BY <1>b, <2>1, <2>2 DEF Followed, Pursued
<1> QED
  BY <1>1, <1>2, <1>3, <1>4, <1>5, <1>6, <1>7 DEF WorkStep

\* Whoever promotes a memory pursues its vector, and a handler that ends has
\* enqueued the job or written the vector.
LEMMA RequestPursues ==
    ASSUME MemoryInv, VectorInv, MemoryAssumption, NEW m \in Memory, Followed(m), ~Loses(m),
           \/ \E r \in Runner, k \in Memory : Promote(r, k) \/ Delete(r, k) \/ SetFact(r, k)
           \/ \E r \in Runner, k, old \in Memory : Replace(r, k, old)
           \/ \E k \in Memory : Reject(k)
           \/ \E msg \in Message : PostMessage(msg)
           \/ \E h \in handlers : HandlerEnqueues(h) \/ HandlerIndexes(h)
           \/ \E j \in Job : Clock(j)
    PROVE  Followed(m)'
<1>a. /\ QueueInv /\ OwnTypeOK /\ [QueueNext]_queueVars /\ m \in Job
      /\ handlers \in SUBSET Handler /\ records \in [Memory -> State \cup {"absent"}]
      /\ \A h \in handlers : IndexesOne(h)
  BY RequestQueues DEF MemoryInv, MemoryAssumption, VectorInv, OwnTypeOK, RecordsTypeOK
<1>b. jobs[m].state # "absent" => jobs'[m].state # "absent"
  BY <1>a, JobsStay
<1>c. ASSUME records'[m] = "promoted" => records[m] = "promoted", index' = index,
             work' = work, handlers \subseteq handlers'
      PROVE  Followed(m)'
  BY <1>a, <1>c, PursuitGoesOn DEF Followed
<1>1. ASSUME NEW r \in Runner, NEW k \in Memory, NEW todo \in SUBSET Memory, k \in todo,
             NEW seen, Then(r, "enqueue", todo, seen),
             k # m /\ records'[m] = "promoted" => records[m] = "promoted",
             UNCHANGED <<index, work>>
      PROVE  Followed(m)'
  <2>1. handlers \subseteq handlers'
    BY <1>1 DEF Then
  <2>2. CASE k = m
    <3> DEFINE new == [process |-> r, then |-> "enqueue", todo |-> todo, seen |-> seen]
    <3>1. new \in handlers' /\ Pursues(new, m)
      BY <1>1, <2>2 DEF Then, Pursues
    <3> QED
      BY <3>1 DEF Followed, Pursued
  <2> QED
    BY <1>1, <1>c, <2>1, <2>2
<1>2. ASSUME NEW r \in Runner, NEW k \in Memory, Promote(r, k) \/ Delete(r, k)
      PROVE  Followed(m)'
  <2>1. k # m => records'[m] = records[m]
    BY <1>2, <1>a DEF Promote, PromoteRecord, Delete, DeleteRecord
  <2> QED
    BY <1>1, <1>2, <2>1 DEF Promote, Delete
<1>3. ASSUME NEW r \in Runner, NEW k \in Memory, SetFact(r, k)
      PROVE  Followed(m)'
  <2>1. /\ k # m => records'[m] = records[m]
        /\ records'[k] = Upsert(k, TRUE)
    BY <1>3, <1>a DEF SetFact, Store
  <2>2. handlers \subseteq handlers' /\ index' = index /\ work' = work
    BY <1>3 DEF SetFact, Then
  <2>3. CASE k = m /\ records'[m] = "promoted"
    <3> DEFINE new == [process |-> r, then |-> "index", todo |-> {k}, seen |-> Upsert(k, TRUE)]
    <3>1. new \in handlers'
      BY <1>3 DEF SetFact, Then
    <3>2. Pursues(new, m)
      BY <2>1, <2>3 DEF Pursues
    <3> QED
      BY <3>1, <3>2 DEF Followed, Pursued
  <2> QED
    BY <1>c, <2>1, <2>2, <2>3 DEF Followed
<1>4. ASSUME NEW r \in Runner, NEW k \in Memory, NEW old \in Memory, Replace(r, k, old)
      PROVE  Followed(m)'
  <2>1. PICK todo \in {{k, old}, {k}} : Then(r, "enqueue", todo, "absent")
    BY <1>4 DEF Replace
  <2>2. k # m /\ records'[m] = "promoted" => records[m] = "promoted"
    BY <1>4, <1>a DEF Replace, ReplaceRecord
  <2> QED
    BY <1>1, <1>4, <2>1, <2>2 DEF Replace
<1>5. ASSUME NEW k \in Memory, Reject(k)
      PROVE  Followed(m)'
  <2>1. records'[m] = "promoted" => records[m] = "promoted"
    BY <1>5, <1>a DEF Reject, RejectRecord
  <2> QED
    BY <1>c, <1>5, <2>1 DEF Reject
<1>6. CASE (\E msg \in Message : PostMessage(msg)) \/ (\E j \in Job : Clock(j))
  BY <1>c, <1>6 DEF PostMessage, Clock, memoryVars
<1>7. ASSUME NEW h \in handlers, HandlerEnqueues(h)
      PROVE  Followed(m)'
  <2>1. PICK k \in h.todo :
            /\ EnqueueVector(k)
            /\ handlers' = (handlers \ {h})
                  \cup {[h EXCEPT !.todo = left] : left \in {h.todo \ {k}} \ {{}}}
    BY <1>7 DEF HandlerEnqueues
  <2>2. records' = records /\ index' = index /\ work' = work
    BY <1>7 DEF HandlerEnqueues
  <2>3. CASE k = m
    <3>1. jobs'[m].state # "absent"
      <4>1. CASE jobs[m].state = "absent"
        BY <1>a, <2>1, <2>3, <4>1, InsertEffect DEF EnqueueVector, QueueInv
      <4> QED
        BY <1>b, <4>1
    <3> QED
      BY <3>1 DEF Followed, Pursued
  <2>4. CASE k # m
    <3>1. ASSUME NEW g \in handlers, Pursues(g, m)
          PROVE  \E f \in handlers' : Pursues(f, m)
      <4>1. CASE g # h
        BY <2>1, <3>1, <4>1
      <4>2. CASE g = h
        <5> DEFINE left == h.todo \ {k}
        <5>1. left # {} /\ m \in left
          BY <2>4, <3>1, <4>2 DEF Pursues
        <5>2. [h EXCEPT !.todo = left] \in handlers'
          <6>1. left \in {h.todo \ {k}} \ {{}}
            BY <5>1
          <6> HIDE DEF left
          <6> QED
            BY <2>1, <6>1
        <5>3. Pursues([h EXCEPT !.todo = left], m)
          <6>1. h \in Handler
            BY <1>a
          <6> QED
            BY <3>1, <4>2, <5>1, <6>1 DEF Pursues, Handler
        <5> QED
          BY <5>2, <5>3
      <4> QED
        BY <4>1, <4>2
    <3> QED
      BY <1>b, <2>2, <3>1 DEF Followed, Pursued
  <2> QED
    BY <2>3, <2>4
<1>8. ASSUME NEW h \in handlers, HandlerIndexes(h)
      PROVE  Followed(m)'
  <2>1. PICK k \in Memory : h.todo = {k}
    BY <1>8, <1>a DEF HandlerIndexes, IndexesOne
  <2>2. index' \in {index, Synced(k, h.seen)}
    BY <1>8, <2>1 DEF HandlerIndexes
  <2>3. /\ handlers' = handlers \ {h} /\ records' = records /\ work' = work
        /\ h.then = "index" /\ h.seen # "deleted"
    BY <1>8, <1>a DEF HandlerIndexes, IndexesOne
  <2>4. m \in index => m \in index'
    BY <2>2, <2>3 DEF Synced
  <2>5. CASE Pursues(h, m)
    <3>1. h.seen = "promoted" /\ k = m
      BY <2>1, <2>3, <2>5 DEF Pursues
    <3>2. index' # index
      BY <1>8, <2>5 DEF Loses
    <3>3. m \in index'
      BY <2>2, <3>1, <3>2 DEF Synced
    <3> QED
      BY <3>3 DEF Followed, Pursued
  <2>6. CASE ~Pursues(h, m)
    BY <1>b, <2>3, <2>4, <2>6 DEF Followed, Pursued
  <2> QED
    BY <2>5, <2>6
<1> QED
  BY <1>2, <1>3, <1>4, <1>5, <1>6, <1>7, <1>8

(* Only a failure that has the vector of a promoted memory in hand loses    *)
(* it, for any number of messages, memories, processes and handlers (the    *)
(* routes of astra_agent/app.py, run_jobs, set_fact).                       *)
THEOREM FailuresAloneLoseVectors == MemorySpec => OnlyFailuresLoseVectors
<1>1. MemoryInit => VectorInv
  BY DEF MemoryInit, QueueInit, VectorInv, StoresInStage, BusyHasRow, Fresh, Idle, Busy
<1>2. VectorInv /\ MemoryInv /\ [MemoryNext]_vars => VectorInv'
  BY StepVectorInv, MemoryAssumption
<1>3. VectorInv /\ MemoryInv /\ [MemoryNext]_vars
         => [\A m \in Memory : Followed(m) => Followed(m)' \/ Loses(m)]_vars
  <2> SUFFICES ASSUME VectorInv, MemoryInv, MemoryNext, NEW m \in Memory, Followed(m),
                      ~Loses(m)
               PROVE  Followed(m)'
    OBVIOUS
  <2> QED
    BY LoopPursues, RequestPursues, MemoryAssumption DEF MemoryNext
<1> QED
  BY <1>1, <1>2, <1>3, MemoryInvariant, PTL DEF MemorySpec, OnlyFailuresLoseVectors
=============================================================================
