--------------------------- MODULE JobQueueProofs ---------------------------
(***************************************************************************)
(* Proofs about JobQueue, for every set of jobs and processes and every     *)
(* limit on the attempts of a job.                                          *)
(***************************************************************************)
EXTENDS JobQueue, TLAPS

USE QueueAssumption

-----------------------------------------------------------------------------
(* The inductive invariant.                                                 *)

\* The attempt rows of a job against its counter.
RowsInOrder(j) ==
    /\ attempts[j][1] = "none" => \A n \in AttemptNo : attempts[j][n] = "none"
    /\ jobs[j].attempt_count # 0 => attempts[j][1] # "none"
    /\ jobs[j].state = "pending" => jobs[j].attempt_count = 0
    /\ jobs[j].state # "pending" =>
          \A n \in AttemptNo : n > jobs[j].attempt_count => attempts[j][n] = "none"
    /\ jobs[j].state = "running" =>
          /\ jobs[j].attempt_count # 0
          /\ attempts[j][jobs[j].attempt_count] = "open"

\* A busy loop has a job, and while it has the lease, the job's attempt.
ClaimKept(r) ==
    runners[r].pc \in Busy =>
        /\ runners[r].job \in Job
        /\ Active(r) => runners[r].attempt = jobs[runners[r].job].attempt_count

\* A loop that the rows give no reason to end, or that the store did end.
Sound(r) == \/ runners[r].pc \in {"poll", "down", "broken"}
            \/ runners[r].pc \in Busy /\ Active(r)

\* LoopSurvives alone is not inductive: the last loop that has not ended may be
\* one that was taken over.  The loop that took it over is sound.
SoundLoop == (\E r \in Runner : Sound(r)) \/ (\E j \in Job : Poisoned(j))

QueueInv ==
    /\ QueueTypeOK
    /\ \A j \in Job : RowsInOrder(j)
    /\ \A r \in Runner : ClaimKept(r)
    /\ SoundLoop

-----------------------------------------------------------------------------
(* What the row operations do, field by field.                              *)

\* The part of QueueTypeOK that is about rows and time.
RowsTypeOK ==
    /\ jobs \in [Job -> JobRow]
    /\ attempts \in [Job -> [AttemptNo -> {"none", "open", "finished", "failed"}]]
    /\ due \in SUBSET Job
    /\ ahead \in [Job -> SUBSET Job]
    /\ lapsed \in SUBSET Job

\* A new row, or one made new again, is pending with no attempt counted.
LEMMA InsertEffect ==
  ASSUME QueueTypeOK, NEW j \in Job, Insert(j)
  PROVE  /\ RowsTypeOK'
         /\ jobs'[j].state = "pending" /\ jobs'[j].attempt_count = 0
         /\ \A k \in Job : k # j => jobs'[k] = jobs[k]
         /\ attempts' = attempts
  BY DEF Insert, MakeDue, QueueTypeOK, RowsTypeOK, JobRow

\* A settled attempt changes its own row and its job, and no counter.
LEMMA SettleEffect ==
  ASSUME QueueTypeOK, NEW j \in Job,
         NEW state \in {"completed", "failed", "retry"},
         NEW outcome \in {"finished", "failed"}, Settle(j, state, outcome)
  PROVE  /\ RowsTypeOK'
         /\ jobs'[j].state = state
         /\ jobs'[j].attempt_count = jobs[j].attempt_count
         /\ \A k \in Job : k # j => jobs'[k] = jobs[k] /\ attempts'[k] = attempts[k]
         /\ \A n \in AttemptNo :
               attempts'[j][n] = IF n = jobs[j].attempt_count THEN outcome
                                                              ELSE attempts[j][n]
  BY DEF Settle, TakeOut, QueueTypeOK, RowsTypeOK, JobRow, Settled

\* What a claim of loop r does to job j, whose attempt n it opens.
Claimed(r, j, n) ==
    /\ n = jobs[j].attempt_count + 1
    /\ Claimable(j) /\ ~Collides(j) /\ attempts[j][n] = "none"
    /\ jobs'[j] = [state |-> "running", attempt_count |-> n, lease_id |-> r]
    /\ \A k \in Job : k # j => jobs'[k] = jobs[k] /\ attempts'[k] = attempts[k]
    /\ \A m \in AttemptNo :
          attempts'[j][m] = IF m = n THEN "open" ELSE attempts[j][m]
    /\ runners'[r] = [pc |-> "work", job |-> j, attempt |-> n]
    /\ \A q \in Runner : q # r => runners'[q] = runners[q]
    /\ jobs' \in [Job -> JobRow]
    /\ attempts' \in [Job -> [AttemptNo -> {"none", "open", "finished", "failed"}]]
    /\ runners' \in [Runner -> Loop]

\* A claim opens the next attempt of a job and gives it to the loop.
LEMMA ClaimEffect ==
  ASSUME QueueTypeOK, NEW r \in Runner, Claim(r)
  PROVE  \E j \in Job, n \in AttemptNo : Claimed(r, j, n)
<1>1. PICK j \in Job :
        /\ NextUp(j) /\ jobs[j].attempt_count + 1 <= MaxTries /\ ~Collides(j)
        /\ jobs' = [jobs EXCEPT ![j] = [state |-> "running",
                                        attempt_count |-> jobs[j].attempt_count + 1,
                                        lease_id |-> r]]
        /\ attempts' = [attempts EXCEPT ![j][jobs[j].attempt_count + 1] = "open"]
        /\ runners' = [runners EXCEPT ![r] = [pc |-> "work", job |-> j,
                                              attempt |-> jobs[j].attempt_count + 1]]
  BY DEF Claim
<1> DEFINE n == jobs[j].attempt_count + 1
<1>2. jobs[j].attempt_count \in 0 .. MaxTries
  BY DEF QueueTypeOK, JobRow
<1>3. n \in AttemptNo /\ n \in 0 .. MaxTries
  BY <1>1, <1>2 DEF AttemptNo
<1>4. Claimable(j) /\ attempts[j][n] = "none"
  BY <1>1, <1>2 DEF NextUp, Collides
<1> HIDE DEF n
<1>5. /\ jobs'[j] = [state |-> "running", attempt_count |-> n, lease_id |-> r]
      /\ \A k \in Job : k # j => jobs'[k] = jobs[k]
      /\ jobs' \in [Job -> JobRow]
  BY <1>1, <1>3 DEF QueueTypeOK, JobRow, n
<1>6. /\ \A k \in Job : k # j => attempts'[k] = attempts[k]
      /\ \A m \in AttemptNo :
            attempts'[j][m] = IF m = n THEN "open" ELSE attempts[j][m]
      /\ attempts' \in [Job -> [AttemptNo -> {"none", "open", "finished", "failed"}]]
  BY <1>1, <1>3 DEF QueueTypeOK, n
<1>7. /\ runners'[r] = [pc |-> "work", job |-> j, attempt |-> n]
      /\ \A q \in Runner : q # r => runners'[q] = runners[q]
      /\ runners' \in [Runner -> Loop]
  <2>1. [pc |-> "work", job |-> j, attempt |-> n] \in Loop
    BY <1>3 DEF Loop, Busy
  <2> QED
    BY <1>1, <2>1 DEF QueueTypeOK, n
<1> QED
  BY <1>1, <1>3, <1>4, <1>5, <1>6, <1>7 DEF n, Claimed

-----------------------------------------------------------------------------
(* Type correctness.                                                        *)

\* Every step of a loop, a caller or time writes values of the declared types.
LEMMA StepTypeOK == QueueTypeOK /\ (\A r \in Runner : ClaimKept(r)) /\ [QueueNext]_queueVars
                      => QueueTypeOK'
<1> SUFFICES ASSUME QueueTypeOK, \A r \in Runner : ClaimKept(r), [QueueNext]_queueVars
             PROVE  QueueTypeOK'
  OBVIOUS
<1>1. ASSUME NEW r \in Runner, Claim(r)
      PROVE  QueueTypeOK'
  <2>1. /\ jobs' \in [Job -> JobRow] /\ runners' \in [Runner -> Loop]
        /\ attempts' \in [Job -> [AttemptNo -> {"none", "open", "finished", "failed"}]]
    BY <1>1, ClaimEffect DEF Claimed
  <2>2. due' = due /\ ahead' = ahead /\ mishaps' = mishaps /\ lapsed' \in SUBSET Job
    BY <1>1 DEF Claim, QueueTypeOK
  <2> QED
    BY <2>1, <2>2 DEF QueueTypeOK
<1>2. ASSUME NEW r \in Runner, ClaimCollides(r)
      PROVE  QueueTypeOK'
  BY <1>2 DEF ClaimCollides, rowVars, QueueTypeOK, Ended, Loop, Over
<1>3. ASSUME NEW r \in Runner, Work(r)
      PROVE  QueueTypeOK'
  BY <1>3 DEF Work, At, rowVars, QueueTypeOK, Loop, Busy, Over
<1>4. ASSUME NEW r \in Runner, Complete(r)
      PROVE  QueueTypeOK'
  <2>1. runners' \in [Runner -> Loop] /\ mishaps' \in Nat
    BY <1>4 DEF Complete, At, QueueTypeOK, Loop, Busy, Over, Idle
  <2>2. CASE Settle(runners[r].job, "completed", "finished")
    <3>1. runners[r].job \in Job
      BY <1>4 DEF Complete, ClaimKept, Busy
    <3> QED
      BY <2>1, <2>2, <3>1, SettleEffect DEF QueueTypeOK, RowsTypeOK
  <2>3. CASE UNCHANGED rowVars
    BY <2>1, <2>3 DEF rowVars, QueueTypeOK
  <2> QED
    BY <1>4, <2>2, <2>3 DEF Complete
<1>5. ASSUME NEW r \in Runner, Retry(r)
      PROVE  QueueTypeOK'
  <2>1. runners' \in [Runner -> Loop] /\ mishaps' \in Nat
    BY <1>5 DEF Retry, QueueTypeOK, Loop, Over, Idle, Ended
  <2>2. CASE Settle(runners[r].job, "failed", "failed")
             \/ Settle(runners[r].job, "retry", "failed")
    <3>1. runners[r].job \in Job
      BY <1>5 DEF Retry, ClaimKept, Busy
    <3> QED
      BY <2>1, <2>2, <3>1, SettleEffect DEF QueueTypeOK, RowsTypeOK
  <2>3. CASE UNCHANGED rowVars
    BY <2>1, <2>3 DEF rowVars, QueueTypeOK
  <2> QED
    BY <1>5, <2>2, <2>3 DEF Retry
<1>6. ASSUME NEW r \in Runner, StoreFails(r) \/ Crash(r) \/ Restart(r)
      PROVE  QueueTypeOK'
  BY <1>6 DEF StoreFails, Crash, Restart, rowVars, QueueTypeOK, Loop, Over, Idle, Down, Broken
<1>7. ASSUME NEW j \in Job, Enqueue(j) \/ Requeue(j)
      PROVE  QueueTypeOK'
  BY <1>7, InsertEffect DEF Enqueue, Requeue, QueueTypeOK, RowsTypeOK
<1>8. ASSUME NEW j \in Job, FallDue(j) \/ Lapse(j) \/ Outlive(j)
      PROVE  QueueTypeOK'
  BY <1>8 DEF FallDue, MakeDue, Lapse, Outlive, QueueTypeOK
<1>9. CASE UNCHANGED queueVars
  BY <1>9 DEF queueVars, QueueTypeOK
<1> QED
  BY <1>1, <1>2, <1>3, <1>4, <1>5, <1>6, <1>7, <1>8, <1>9 DEF QueueNext, RunnerStep

-----------------------------------------------------------------------------
(* The attempt rows and the counter of a job.                               *)

\* Claims open the next row, outcomes close the current one, and only a
\* requeue turns a counter back.
LEMMA StepRowsInOrder ==
  QueueInv /\ [QueueNext]_queueVars => \A j \in Job : RowsInOrder(j)'
<1> SUFFICES ASSUME QueueInv, [QueueNext]_queueVars, NEW j \in Job
             PROVE  RowsInOrder(j)'
  OBVIOUS
<1> USE DEF QueueInv
<1>a. /\ RowsInOrder(j)
      /\ jobs[j].attempt_count \in 0 .. MaxTries
      /\ jobs[j].state \in {"absent", "pending", "running", "retry"} \cup Settled
  BY DEF QueueTypeOK, JobRow
<1>1. ASSUME NEW r \in Runner, Claim(r)
      PROVE  RowsInOrder(j)'
  <2>a. PICK k \in Job, n \in AttemptNo : Claimed(r, k, n)
    BY <1>1, ClaimEffect
  <2>1. /\ n = jobs[k].attempt_count + 1
        /\ jobs'[k] = [state |-> "running", attempt_count |-> n, lease_id |-> r]
        /\ \A i \in Job : i # k => jobs'[i] = jobs[i] /\ attempts'[i] = attempts[i]
        /\ \A m \in AttemptNo :
              attempts'[k][m] = IF m = n THEN "open" ELSE attempts[k][m]
        /\ attempts[k][n] = "none"
    BY <2>a DEF Claimed
  <2>2. CASE j # k
    BY <2>1, <2>2, <1>a DEF RowsInOrder
  <2>3. CASE j = k
    <3>1. \A m \in AttemptNo : m > n => attempts[j][m] = "none"
      BY <2>1, <2>3, <1>a DEF RowsInOrder, AttemptNo
    <3>2. attempts'[j][1] # "none"
      BY <2>1, <2>3, <1>a DEF RowsInOrder, AttemptNo
    <3>3. jobs'[j].state = "running" /\ jobs'[j].attempt_count = n
      BY <2>1, <2>3
    <3> QED
      BY <2>1, <2>3, <3>1, <3>2, <3>3 DEF RowsInOrder, AttemptNo
  <2> QED
    BY <2>2, <2>3
<1>2. ASSUME NEW k \in Job, NEW state \in {"completed", "failed", "retry"},
             NEW outcome \in {"finished", "failed"},
             jobs[k].state = "running", Settle(k, state, outcome)
      PROVE  RowsInOrder(j)'
  <2>1. /\ jobs'[k].state = state
        /\ jobs'[k].attempt_count = jobs[k].attempt_count
        /\ \A i \in Job : i # k => jobs'[i] = jobs[i] /\ attempts'[i] = attempts[i]
        /\ \A n \in AttemptNo :
              attempts'[k][n] = IF n = jobs[k].attempt_count THEN outcome
                                                             ELSE attempts[k][n]
    BY <1>2, SettleEffect
  <2>2. CASE j # k
    BY <2>1, <2>2, <1>a DEF RowsInOrder
  <2>3. CASE j = k
    <3>1. attempts[j][1] # "none" /\ attempts'[j][1] # "none"
      BY <1>2, <2>1, <2>3, <1>a DEF RowsInOrder, AttemptNo
    <3>2. \A n \in AttemptNo : n > jobs[j].attempt_count => attempts'[j][n] = "none"
      BY <1>2, <2>1, <2>3, <1>a DEF RowsInOrder, AttemptNo
    <3> QED
      BY <2>1, <2>3, <3>1, <3>2 DEF RowsInOrder
  <2> QED
    BY <2>2, <2>3
<1>3. ASSUME NEW r \in Runner, Complete(r)
      PROVE  RowsInOrder(j)'
  <2>1. CASE Active(r) /\ Settle(runners[r].job, "completed", "finished")
    <3>1. runners[r].job \in Job /\ jobs[runners[r].job].state = "running"
      BY <1>3, <2>1 DEF Complete, ClaimKept, Busy, Active
    <3> QED
      BY <1>2, <2>1, <3>1
  <2>2. CASE UNCHANGED rowVars
    BY <2>2, <1>a DEF rowVars, RowsInOrder
  <2> QED
    BY <1>3, <2>1, <2>2 DEF Complete
<1>4. ASSUME NEW r \in Runner, Retry(r)
      PROVE  RowsInOrder(j)'
  <2>1. CASE Active(r) /\ (\/ Settle(runners[r].job, "failed", "failed")
                           \/ Settle(runners[r].job, "retry", "failed"))
    <3>1. runners[r].job \in Job /\ jobs[runners[r].job].state = "running"
      BY <1>4, <2>1 DEF Retry, ClaimKept, Busy, Active
    <3> QED
      BY <1>2, <2>1, <3>1
  <2>2. CASE UNCHANGED rowVars
    BY <2>2, <1>a DEF rowVars, RowsInOrder
  <2> QED
    BY <1>4, <2>1, <2>2 DEF Retry
<1>5. ASSUME NEW k \in Job, Enqueue(k) \/ Requeue(k)
      PROVE  RowsInOrder(j)'
  <2>1. /\ jobs'[k].state = "pending" /\ jobs'[k].attempt_count = 0
        /\ \A i \in Job : i # k => jobs'[i] = jobs[i]
        /\ attempts' = attempts
    BY <1>5, InsertEffect DEF Enqueue, Requeue
  <2> QED
    BY <2>1, <1>a DEF RowsInOrder
<1>6. CASE UNCHANGED <<jobs, attempts>>
  BY <1>6, <1>a DEF RowsInOrder
<1> QED
  BY <1>1, <1>3, <1>4, <1>5, <1>6
     DEF QueueNext, RunnerStep, ClaimCollides, Work, StoreFails, Crash, Restart, FallDue, Lapse,
         Outlive, rowVars, queueVars

-----------------------------------------------------------------------------
(* The claims of the loops.                                                 *)

\* What another loop, a caller or time does to the job of a busy loop takes
\* the lease from it or leaves its attempt alone.
LEMMA StepClaimKept ==
  QueueInv /\ [QueueNext]_queueVars => \A r \in Runner : ClaimKept(r)'
<1> SUFFICES ASSUME QueueInv, [QueueNext]_queueVars, NEW r \in Runner,
                    runners'[r].pc \in Busy
             PROVE  /\ runners'[r].job \in Job
                    /\ Active(r)' => runners'[r].attempt
                                       = jobs'[runners'[r].job].attempt_count
  BY DEF ClaimKept
<1> USE DEF QueueInv
<1>a. ClaimKept(r)
  OBVIOUS
<1>1. ASSUME NEW q \in Runner, Claim(q)
      PROVE  /\ runners'[r].job \in Job
             /\ Active(r)' => runners'[r].attempt
                                = jobs'[runners'[r].job].attempt_count
  <2>a. PICK k \in Job, n \in AttemptNo : Claimed(q, k, n)
    BY <1>1, ClaimEffect
  <2>1. /\ jobs'[k] = [state |-> "running", attempt_count |-> n, lease_id |-> q]
        /\ \A i \in Job : i # k => jobs'[i] = jobs[i]
        /\ runners'[q] = [pc |-> "work", job |-> k, attempt |-> n]
        /\ \A i \in Runner : i # q => runners'[i] = runners[i]
    BY <2>a DEF Claimed
  <2>2. CASE r = q
    BY <2>1, <2>2
  <2>3. CASE r # q
    BY <2>1, <2>3, <1>a DEF ClaimKept, Active
  <2> QED
    BY <2>2, <2>3
<1>2. ASSUME NEW k \in Job, NEW state \in {"completed", "failed", "retry"},
             NEW outcome \in {"finished", "failed"},
             Settle(k, state, outcome), runners'[r] = runners[r]
      PROVE  /\ runners'[r].job \in Job
             /\ Active(r)' => runners'[r].attempt
                                = jobs'[runners'[r].job].attempt_count
  <2>1. /\ jobs'[k].state = state
        /\ \A i \in Job : i # k => jobs'[i] = jobs[i]
    BY <1>2, SettleEffect
  <2> QED
    BY <1>2, <2>1, <1>a DEF ClaimKept, Active
<1>3. ASSUME NEW q \in Runner, Complete(q)
      PROVE  /\ runners'[r].job \in Job
             /\ Active(r)' => runners'[r].attempt
                                = jobs'[runners'[r].job].attempt_count
  <2>1. CASE Settle(runners[q].job, "completed", "finished") /\ runners' = [runners EXCEPT ![q] = Idle]
    <3>1. r # q
      BY <2>1 DEF QueueTypeOK, Idle, Busy
    <3>2. runners[q].job \in Job /\ runners'[r] = runners[r]
      BY <1>3, <2>1, <3>1 DEF Complete, ClaimKept, Busy, QueueTypeOK
    <3> QED
      BY <1>2, <2>1, <3>2
  <2>2. CASE UNCHANGED rowVars /\ runners' = At(q, "retry")
    <3>1. runners[r].pc \in Busy
      BY <1>3, <2>2 DEF Complete, At, Busy, QueueTypeOK
    <3>2. runners'[r].job = runners[r].job /\ runners'[r].attempt = runners[r].attempt
      BY <2>2 DEF At, QueueTypeOK
    <3>3. jobs' = jobs
      BY <2>2 DEF rowVars
    <3> QED
      BY <3>1, <3>2, <3>3, <1>a DEF ClaimKept, Active
  <2> QED
    BY <1>3, <2>1, <2>2 DEF Complete
<1>4. ASSUME NEW q \in Runner, Retry(q)
      PROVE  /\ runners'[r].job \in Job
             /\ Active(r)' => runners'[r].attempt
                                = jobs'[runners'[r].job].attempt_count
  <2>1. r # q /\ runners'[r] = runners[r]
    BY <1>4 DEF Retry, QueueTypeOK, Idle, Ended, Busy
  <2>2. CASE \/ Settle(runners[q].job, "failed", "failed")
             \/ Settle(runners[q].job, "retry", "failed")
    <3>1. runners[q].job \in Job
      BY <1>4 DEF Retry, ClaimKept, Busy
    <3> QED
      BY <1>2, <2>1, <2>2, <3>1
  <2>3. CASE UNCHANGED rowVars
    BY <2>1, <2>3, <1>a DEF rowVars, ClaimKept, Active
  <2> QED
    BY <1>4, <2>2, <2>3 DEF Retry
<1>5. ASSUME NEW q \in Runner, Work(q)
      PROVE  /\ runners'[r].job \in Job
             /\ Active(r)' => runners'[r].attempt
                                = jobs'[runners'[r].job].attempt_count
  <2>1. /\ runners[r].pc \in Busy
        /\ runners'[r].job = runners[r].job /\ runners'[r].attempt = runners[r].attempt
    BY <1>5 DEF Work, At, Busy, QueueTypeOK
  <2>2. jobs' = jobs
    BY <1>5 DEF Work, rowVars
  <2> QED
    BY <2>1, <2>2, <1>a DEF ClaimKept, Active
<1>6. ASSUME NEW q \in Runner,
             ClaimCollides(q) \/ StoreFails(q) \/ Crash(q) \/ Restart(q)
      PROVE  /\ runners'[r].job \in Job
             /\ Active(r)' => runners'[r].attempt
                                = jobs'[runners'[r].job].attempt_count
  <2>1. runners'[r] = runners[r]
    BY <1>6 DEF ClaimCollides, StoreFails, Crash, Restart, QueueTypeOK, Idle, Ended, Broken,
                Down, Busy
  <2>2. jobs' = jobs
    BY <1>6 DEF ClaimCollides, StoreFails, Crash, Restart, rowVars
  <2> QED
    BY <2>1, <2>2, <1>a DEF ClaimKept, Active
<1>7. ASSUME NEW k \in Job, Enqueue(k) \/ Requeue(k)
      PROVE  /\ runners'[r].job \in Job
             /\ Active(r)' => runners'[r].attempt
                                = jobs'[runners'[r].job].attempt_count
  <2>1. jobs'[k].state = "pending" /\ \A i \in Job : i # k => jobs'[i] = jobs[i]
    BY <1>7, InsertEffect DEF Enqueue, Requeue
  <2>2. runners' = runners
    BY <1>7 DEF Enqueue, Requeue
  <2> QED
    BY <2>1, <2>2, <1>a DEF ClaimKept, Active
<1>8. CASE UNCHANGED <<jobs, runners>>
  BY <1>8, <1>a DEF ClaimKept, Active
<1> QED
  BY <1>1, <1>3, <1>4, <1>5, <1>6, <1>7, <1>8
     DEF QueueNext, RunnerStep, FallDue, Lapse, Outlive, queueVars

-----------------------------------------------------------------------------
(* The loop that goes on.                                                   *)

\* A poisoned job stays so: it is pending, and no claim gets past its row.
LEMMA PoisonStays ==
  ASSUME QueueInv, [QueueNext]_queueVars, NEW j \in Job, Poisoned(j)
  PROVE  Poisoned(j)'
<1> USE DEF QueueInv
<1>1. jobs[j].state = "pending" /\ Collides(j)
  BY DEF Poisoned
<1>2. CASE jobs'[j] = jobs[j] /\ attempts'[j] = attempts[j]
  BY <1>1, <1>2 DEF Poisoned, Collides
<1>3. ASSUME NEW r \in Runner, Claim(r)
      PROVE  jobs'[j] = jobs[j] /\ attempts'[j] = attempts[j]
  <2>1. PICK k \in Job, n \in AttemptNo : Claimed(r, k, n)
    BY <1>3, ClaimEffect
  <2>2. k # j
    BY <1>1, <2>1 DEF Claimed
  <2> QED
    BY <2>1, <2>2 DEF Claimed
<1>4. ASSUME NEW r \in Runner, Complete(r) \/ Retry(r)
      PROVE  jobs'[j] = jobs[j] /\ attempts'[j] = attempts[j]
  <2>1. CASE UNCHANGED rowVars
    BY <2>1 DEF rowVars
  <2>2. CASE Active(r) /\ (\/ Settle(runners[r].job, "completed", "finished")
                           \/ Settle(runners[r].job, "failed", "failed")
                           \/ Settle(runners[r].job, "retry", "failed"))
    <3>1. runners[r].job \in Job
      BY <1>4 DEF Complete, Retry, ClaimKept, Busy
    <3>2. runners[r].job # j
      BY <1>1, <2>2 DEF Active
    <3> QED
      BY <2>2, <3>1, <3>2, SettleEffect
  <2> QED
    BY <1>4, <2>1, <2>2 DEF Complete, Retry
<1>5. ASSUME NEW k \in Job, Enqueue(k) \/ Requeue(k)
      PROVE  jobs'[j] = jobs[j] /\ attempts'[j] = attempts[j]
  <2>1. k # j
    BY <1>1, <1>5 DEF Enqueue, Requeue
  <2> QED
    BY <1>5, <2>1, InsertEffect DEF Enqueue, Requeue
<1>6. CASE UNCHANGED <<jobs, attempts>>
  BY <1>2, <1>6
<1> QED
  BY <1>2, <1>3, <1>4, <1>5, <1>6
     DEF QueueNext, RunnerStep, ClaimCollides, Work, StoreFails, Crash, Restart, FallDue, Lapse,
         Outlive, rowVars, queueVars

\* Whatever makes a sound loop unsound makes another one sound: it ends at a
\* poisoned job only, and it is taken over by a loop that has claimed.
LEMMA StepSoundLoop == QueueInv /\ [QueueNext]_queueVars => SoundLoop'
<1> SUFFICES ASSUME QueueInv, [QueueNext]_queueVars
             PROVE  SoundLoop'
  OBVIOUS
<1>1. CASE \E j \in Job : Poisoned(j)
  BY <1>1, PoisonStays DEF SoundLoop
<1>2. CASE \A j \in Job : ~Poisoned(j)
  <2> USE DEF QueueInv
  <2>a. PICK g \in Runner : Sound(g)
    BY <1>2 DEF SoundLoop
  <2>b. runners[g] \in Loop /\ ClaimKept(g)
    BY DEF QueueTypeOK
  <2>1. ASSUME NEW r \in Runner, Claim(r)
        PROVE  SoundLoop'
    <3>1. PICK j \in Job, n \in AttemptNo : Claimed(r, j, n)
      BY <2>1, ClaimEffect
    <3>2. /\ runners'[r].pc = "work" /\ runners'[r].job = j
          /\ jobs'[j].state = "running" /\ jobs'[j].lease_id = r
      BY <3>1 DEF Claimed
    <3>3. Sound(r)'
      BY <3>2 DEF Sound, Active, Busy
    <3> QED
      BY <3>3 DEF SoundLoop
  <2>2. ASSUME NEW r \in Runner, ClaimCollides(r)
        PROVE  FALSE
    <3>1. PICK j \in Job : NextUp(j) /\ Collides(j)
      BY <2>2 DEF ClaimCollides
    <3>2. jobs[j].attempt_count \in 0 .. MaxTries /\ RowsInOrder(j)
      BY DEF QueueTypeOK, JobRow
    <3>3. jobs[j].attempt_count + 1 \in AttemptNo
      BY <3>1, <3>2 DEF Collides, AttemptNo
    <3>4. jobs[j].state = "pending"
      BY <3>1, <3>2, <3>3 DEF RowsInOrder, Collides
    <3> QED
      BY <1>2, <3>1, <3>4 DEF Poisoned
  <2>3. ASSUME NEW r \in Runner, Complete(r)
        PROVE  SoundLoop'
    <3>1. CASE Active(r) /\ runners' = [runners EXCEPT ![r] = Idle]
      <4>1. runners'[r].pc = "poll"
        BY <3>1 DEF QueueTypeOK, Idle
      <4> QED
        BY <4>1 DEF SoundLoop, Sound
    <3>2. CASE runners' = At(r, "retry") /\ UNCHANGED rowVars
      <4>1. jobs' = jobs
        BY <3>2 DEF rowVars
      <4>2. CASE g = r
        <5>1. /\ runners[g].pc = "complete" /\ runners'[g].pc = "retry"
              /\ runners'[g].job = runners[g].job
          BY <2>3, <3>2, <4>2 DEF Complete, At, QueueTypeOK
        <5>2. Sound(g)'
          BY <2>a, <4>1, <5>1 DEF Sound, Active, Busy
        <5> QED
          BY <5>2 DEF SoundLoop
      <4>3. CASE g # r
        <5>1. runners'[g] = runners[g]
          BY <3>2, <4>3 DEF At, QueueTypeOK
        <5>2. Sound(g)'
          BY <2>a, <4>1, <5>1 DEF Sound, Active
        <5> QED
          BY <5>2 DEF SoundLoop
      <4> QED
        BY <4>2, <4>3
    <3> QED
      BY <2>3, <3>1, <3>2 DEF Complete
  <2>4. ASSUME NEW r \in Runner, Retry(r)
        PROVE  SoundLoop'
    <3>1. CASE Active(r) /\ runners' = [runners EXCEPT ![r] = Idle]
      <4>1. runners'[r].pc = "poll"
        BY <3>1 DEF QueueTypeOK, Idle
      <4> QED
        BY <4>1 DEF SoundLoop, Sound
    <3>2. CASE ~Active(r) /\ runners' = [runners EXCEPT ![r] = Ended] /\ UNCHANGED rowVars
      <4>1. r # g
        BY <2>a, <2>4, <3>2 DEF Sound, Retry
      <4>2. runners'[g] = runners[g] /\ jobs' = jobs
        BY <3>2, <4>1 DEF QueueTypeOK, rowVars
      <4>3. Sound(g)'
        BY <2>a, <4>2 DEF Sound, Active
      <4> QED
        BY <4>3 DEF SoundLoop
    <3> QED
      BY <2>4, <3>1, <3>2 DEF Retry
  <2>5. ASSUME NEW r \in Runner, Work(r)
        PROVE  SoundLoop'
    <3>1. jobs' = jobs
      BY <2>5 DEF Work, rowVars
    <3>2. CASE g = r
      <4>1. /\ runners[g].pc = "work" /\ runners'[g].pc \in {"complete", "retry"}
            /\ runners'[g].job = runners[g].job
        BY <2>5, <3>2 DEF Work, At, QueueTypeOK
      <4>2. Sound(g)'
        BY <2>a, <3>1, <4>1 DEF Sound, Active, Busy
      <4> QED
        BY <4>2 DEF SoundLoop
    <3>3. CASE g # r
      <4>1. runners'[g] = runners[g]
        BY <2>5, <3>3 DEF Work, At, QueueTypeOK
      <4>2. Sound(g)'
        BY <2>a, <3>1, <4>1 DEF Sound, Active
      <4> QED
        BY <4>2 DEF SoundLoop
    <3> QED
      BY <3>2, <3>3
  <2>6. ASSUME NEW r \in Runner, StoreFails(r) \/ Crash(r) \/ Restart(r)
        PROVE  SoundLoop'
    <3>1. runners'[r].pc \in {"poll", "down", "broken"}
      BY <2>6 DEF StoreFails, Crash, Restart, QueueTypeOK, Idle, Down, Broken
    <3> QED
      BY <3>1 DEF SoundLoop, Sound
  <2>7. ASSUME NEW j \in Job, Enqueue(j) \/ Requeue(j)
        PROVE  SoundLoop'
    <3>1. /\ \A k \in Job : k # j => jobs'[k] = jobs[k]
          /\ jobs[j].state # "running" /\ runners' = runners
      BY <2>7, InsertEffect DEF Enqueue, Requeue
    <3>2. Sound(g)'
      BY <2>a, <2>b, <3>1 DEF Sound, Active, ClaimKept
    <3> QED
      BY <3>2 DEF SoundLoop
  <2>8. CASE UNCHANGED <<jobs, runners>>
    <3>1. Sound(g)'
      BY <2>a, <2>8 DEF Sound, Active
    <3> QED
      BY <3>1 DEF SoundLoop
  <2> QED
    BY <2>1, <2>2, <2>3, <2>4, <2>5, <2>6, <2>7, <2>8
       DEF QueueNext, RunnerStep, FallDue, Lapse, Outlive, queueVars
<1> QED
  BY <1>1, <1>2

-----------------------------------------------------------------------------
(* The invariant.                                                           *)

\* No job, and every loop polls.
LEMMA InitQueueInv == QueueInit => QueueInv
<1> SUFFICES ASSUME QueueInit
             PROVE  QueueInv
  OBVIOUS
<1>1. QueueTypeOK
  BY DEF QueueInit, QueueTypeOK, JobRow, Loop, Idle
<1>2. \A j \in Job : RowsInOrder(j)
  BY DEF QueueInit, RowsInOrder, AttemptNo
<1>3. \A r \in Runner : ClaimKept(r) /\ Sound(r)
  BY DEF QueueInit, ClaimKept, Sound, Idle, Busy
<1> QED
  BY <1>1, <1>2, <1>3 DEF QueueInv, SoundLoop

\* Every step keeps the invariant.
LEMMA StepQueueInv == QueueInv /\ [QueueNext]_queueVars => QueueInv'
  BY StepTypeOK, StepRowsInOrder, StepClaimKept, StepSoundLoop DEF QueueInv

(* The rows and the loops of the job queue are as QueueInv says, for any    *)
(* number of jobs and processes.                                            *)
THEOREM QueueInvariant == QueueSpec => []QueueInv
<1>1. QueueInit => QueueInv
  BY InitQueueInv
<1>2. QueueInv /\ [QueueNext]_queueVars => QueueInv'
  BY StepQueueInv
<1> QED
  BY <1>1, <1>2, PTL DEF QueueSpec

(* The tables and the loops have their types (sql.py, run_jobs).            *)
THEOREM QueueTypeCorrect == QueueSpec => []QueueTypeOK
<1>1. QueueInv => QueueTypeOK
  BY DEF QueueInv
<1> QED
  BY <1>1, QueueInvariant, PTL

(* Of any number of processes, at least one keeps a job loop that is not    *)
(* over, as long as the store has ended none of them with an error and no   *)
(* requeued job is in the way: crashes and take-overs alone never stop the  *)
(* queue (run_jobs).                                                        *)
THEOREM QueueSurvives == QueueSpec => []LoopSurvives
<1>1. QueueInv => LoopSurvives
  BY DEF QueueInv, SoundLoop, Sound, LoopSurvives, Over, Busy
<1> QED
  BY <1>1, QueueInvariant, PTL

-----------------------------------------------------------------------------
(* What a step may not do to the history.                                   *)

\* A step opens an attempt row that is new, closes one that is open and is
\* the closing loop's own, or leaves the rows alone.
LEMMA StepHistory ==
  ASSUME QueueInv, [QueueNext]_queueVars, NEW j \in Job, NEW n \in AttemptNo,
         attempts'[j][n] # attempts[j][n]
  PROVE  \/ attempts[j][n] = "none" /\ attempts'[j][n] = "open"
         \/ /\ attempts[j][n] = "open" /\ attempts'[j][n] \in {"finished", "failed"}
            /\ \E r \in Runner : /\ runners[r].job = j /\ runners[r].attempt = n
                                 /\ jobs[j].lease_id = r /\ runners'[r] = Idle
<1> USE DEF QueueInv
<1>1. ASSUME NEW r \in Runner, Claim(r)
      PROVE  attempts[j][n] = "none" /\ attempts'[j][n] = "open"
  <2>1. PICK k \in Job, m \in AttemptNo : Claimed(r, k, m)
    BY <1>1, ClaimEffect
  <2> QED
    BY <2>1 DEF Claimed
<1>2. ASSUME NEW r \in Runner, NEW state \in {"completed", "failed", "retry"},
             NEW outcome \in {"finished", "failed"}, runners[r].pc \in Busy,
             Active(r), Settle(runners[r].job, state, outcome),
             runners' = [runners EXCEPT ![r] = Idle]
      PROVE  /\ attempts[j][n] = "open" /\ attempts'[j][n] \in {"finished", "failed"}
             /\ runners[r].job = j /\ runners[r].attempt = n
             /\ jobs[j].lease_id = r /\ runners'[r] = Idle
  <2>1. /\ runners[r].job \in Job
        /\ runners[r].attempt = jobs[runners[r].job].attempt_count
        /\ jobs[runners[r].job].state = "running" /\ jobs[runners[r].job].lease_id = r
    BY <1>2 DEF ClaimKept, Active
  <2>2. /\ \A k \in Job : k # runners[r].job => attempts'[k] = attempts[k]
        /\ \A m \in AttemptNo :
              attempts'[runners[r].job][m]
                = IF m = jobs[runners[r].job].attempt_count THEN outcome
                  ELSE attempts[runners[r].job][m]
    BY <1>2, <2>1, SettleEffect
  <2>3. runners[r].job = j /\ runners[r].attempt = n
    BY <2>1, <2>2
  <2>4. RowsInOrder(j) /\ runners'[r] = Idle
    BY <1>2 DEF QueueTypeOK
  <2> QED
    BY <1>2, <2>1, <2>2, <2>3, <2>4 DEF RowsInOrder
<1>3. ASSUME NEW r \in Runner, Complete(r) \/ Retry(r)
      PROVE  /\ attempts[j][n] = "open" /\ attempts'[j][n] \in {"finished", "failed"}
             /\ runners[r].job = j /\ runners[r].attempt = n
             /\ jobs[j].lease_id = r /\ runners'[r] = Idle
  <2>1. ~UNCHANGED rowVars
    BY DEF rowVars
  <2>2. /\ runners[r].pc \in Busy /\ Active(r)
        /\ runners' = [runners EXCEPT ![r] = Idle]
        /\ \/ Settle(runners[r].job, "completed", "finished")
           \/ Settle(runners[r].job, "failed", "failed")
           \/ Settle(runners[r].job, "retry", "failed")
    BY <1>3, <2>1 DEF Complete, Retry, Busy
  <2> QED
    BY <1>2, <2>2
<1>4. ASSUME NEW k \in Job, Enqueue(k) \/ Requeue(k)
      PROVE  FALSE
  BY <1>4 DEF Enqueue, Requeue, Insert
<1>5. CASE UNCHANGED attempts
  BY <1>5
<1> QED
  BY <1>1, <1>3, <1>4, <1>5
     DEF QueueNext, RunnerStep, ClaimCollides, Work, StoreFails, Crash, Restart, FallDue, Lapse,
         Outlive, rowVars, queueVars

(* The attempt history of any number of jobs is immutable (complete_job,    *)
(* retry_job, requeue_job).                                                 *)
THEOREM QueueHistoryImmutable == QueueSpec => HistoryImmutable
<1>1. QueueInv /\ [QueueNext]_queueVars =>
        [\A j \in Job, n \in AttemptNo :
           attempts[j][n] # "none" => attempts'[j][n] # "none"
                                   /\ (attempts[j][n] # "open"
                                         => attempts'[j][n] = attempts[j][n])]_queueVars
  BY StepHistory
<1> QED
  BY <1>1, QueueInvariant, PTL DEF QueueSpec, HistoryImmutable

(* Among any number of loops, an attempt is closed by the one that was      *)
(* given it and whose lease is the job's (_active_job).                     *)
THEOREM QueueOutcomeByItsClaimer == QueueSpec => OutcomeByItsClaimer
<1>1. QueueInv /\ [QueueNext]_queueVars =>
        [\A j \in Job, n \in AttemptNo :
           attempts'[j][n] \in {"finished", "failed"} /\ attempts[j][n] = "open"
               => \E r \in Runner : /\ runners[r].job = j
                                    /\ runners[r].attempt = n
                                    /\ jobs[j].lease_id = r
                                    /\ runners'[r] = Idle]_queueVars
  <2> SUFFICES ASSUME QueueInv, [QueueNext]_queueVars, NEW j \in Job, NEW n \in AttemptNo,
                      attempts'[j][n] \in {"finished", "failed"}, attempts[j][n] = "open"
               PROVE  \E r \in Runner : /\ runners[r].job = j
                                        /\ runners[r].attempt = n
                                        /\ jobs[j].lease_id = r
                                        /\ runners'[r] = Idle
    OBVIOUS
  <2> QED
    BY StepHistory
<1> QED
  BY <1>1, QueueInvariant, PTL DEF QueueSpec, OutcomeByItsClaimer
-----------------------------------------------------------------------------
(* The queue implements ClaimFencing: an attempt is a claim of its job.  It *)
(* does not implement LeaseFencing, since a claim whose lease has run out   *)
(* is good until the job is claimed again.                                  *)

NoClaim == <<>>
ClaimOf(j) == IF jobs[j].state = "running" THEN <<j, jobs[j].attempt_count>> ELSE NoClaim
AttemptsThatAre(states) == {c \in Job \X AttemptNo : attempts[c[1]][c[2]] \in states}

Claims == INSTANCE ClaimFencing WITH
             Item <- Job, ClaimId <- Job \X AttemptNo, None <- NoClaim,
             holder <- [j \in Job |-> ClaimOf(j)],
             used <- AttemptsThatAre({"open", "finished", "failed"}),
             delivered <- AttemptsThatAre({"finished", "failed"})

\* The current attempt of a running job is settled, and no other.
Settles(j, outcome) ==
    /\ jobs[j].state = "running" /\ jobs'[j].state # "running"
    /\ jobs[j].attempt_count \in AttemptNo
    /\ attempts[j][jobs[j].attempt_count] = "open"
    /\ \A k \in Job : k # j => jobs'[k] = jobs[k] /\ attempts'[k] = attempts[k]
    /\ \A n \in AttemptNo :
          attempts'[j][n] = IF n = jobs[j].attempt_count THEN outcome ELSE attempts[j][n]

\* A step opens an attempt, settles one, or changes neither claims nor attempts.
LEMMA ClaimSteps ==
  ASSUME QueueInv, [QueueNext]_queueVars
  PROVE  \/ \E r \in Runner, j \in Job, n \in AttemptNo : Claimed(r, j, n)
         \/ \E j \in Job, outcome \in {"finished", "failed"} : Settles(j, outcome)
         \/ attempts' = attempts /\ \A j \in Job : ClaimOf(j)' = ClaimOf(j)
<1> USE DEF QueueInv
<1>1. CASE \E r \in Runner : Claim(r)
  BY <1>1, ClaimEffect
<1>2. ASSUME NEW r \in Runner, NEW state \in {"completed", "failed", "retry"},
             NEW outcome \in {"finished", "failed"}, runners[r].pc \in Busy,
             Active(r), Settle(runners[r].job, state, outcome)
      PROVE  \E j \in Job : Settles(j, outcome)
  <2>1. runners[r].job \in Job /\ jobs[runners[r].job].state = "running"
    BY <1>2 DEF ClaimKept, Active
  <2>2. RowsInOrder(runners[r].job) /\ jobs[runners[r].job] \in JobRow
    BY <2>1 DEF QueueTypeOK
  <2>3. jobs[runners[r].job].attempt_count \in AttemptNo
    BY <2>1, <2>2 DEF RowsInOrder, JobRow, AttemptNo
  <2>4. Settles(runners[r].job, outcome)
    BY <1>2, <2>1, <2>2, <2>3, SettleEffect DEF RowsInOrder, Settles
  <2> QED
    BY <2>1, <2>4
<1>3. CASE \E r \in Runner : Complete(r) \/ Retry(r)
  <2>1. PICK r \in Runner : Complete(r) \/ Retry(r)
    BY <1>3
  <2>2. CASE UNCHANGED rowVars
    BY <2>2 DEF rowVars, ClaimOf
  <2>3. CASE ~UNCHANGED rowVars
    <3>1. /\ runners[r].pc \in Busy /\ Active(r)
          /\ \/ Settle(runners[r].job, "completed", "finished")
             \/ Settle(runners[r].job, "failed", "failed")
             \/ Settle(runners[r].job, "retry", "failed")
      BY <2>1, <2>3 DEF Complete, Retry, Busy
    <3> QED
      BY <1>2, <3>1
  <2> QED
    BY <2>2, <2>3
<1>4. CASE \E k \in Job : Enqueue(k) \/ Requeue(k)
  <2>1. PICK k \in Job : Enqueue(k) \/ Requeue(k)
    BY <1>4
  <2>2. Insert(k) /\ jobs[k].state # "running"
    BY <2>1 DEF Enqueue, Requeue
  <2> QED
    BY <2>2, InsertEffect DEF ClaimOf
<1>5. CASE UNCHANGED <<jobs, attempts>>
  BY <1>5 DEF ClaimOf
<1> QED
  BY <1>1, <1>3, <1>4, <1>5
     DEF QueueNext, RunnerStep, ClaimCollides, Work, StoreFails, Crash, Restart, FallDue, Lapse,
         Outlive, rowVars, queueVars

\* A job is claimed under the number of an attempt that it never had.
LEMMA ClaimAcquires ==
  ASSUME QueueTypeOK, NEW r \in Runner, NEW j \in Job, NEW n \in AttemptNo, Claimed(r, j, n)
  PROVE  Claims!Acquire(j, <<j, n>>)
<1>1. /\ attempts[j][n] = "none" /\ attempts'[j][n] = "open"
      /\ \A k \in Job, m \in AttemptNo :
            <<k, m>> # <<j, n>> => attempts'[k][m] = attempts[k][m]
  BY DEF Claimed
<1>2. <<j, n>> \notin AttemptsThatAre({"open", "finished", "failed"})
  BY <1>1 DEF AttemptsThatAre
<1>3. AttemptsThatAre({"open", "finished", "failed"})'
         = AttemptsThatAre({"open", "finished", "failed"}) \cup {<<j, n>>}
  BY <1>1 DEF AttemptsThatAre
<1>4. AttemptsThatAre({"finished", "failed"})' = AttemptsThatAre({"finished", "failed"})
  BY <1>1 DEF AttemptsThatAre
<1>5. /\ ClaimOf(j)' = <<j, n>>
      /\ \A k \in Job : k # j => ClaimOf(k)' = ClaimOf(k)
  BY DEF Claimed, ClaimOf
<1>6. [k \in Job |-> ClaimOf(k)]' = [[k \in Job |-> ClaimOf(k)] EXCEPT ![j] = <<j, n>>]
  BY <1>5
<1> QED
  BY <1>2, <1>3, <1>4, <1>6 DEF Claims!Acquire

\* The outcome of an attempt is recorded for the claim that has the job.
LEMMA SettleDelivers ==
  ASSUME QueueTypeOK, NEW j \in Job, NEW outcome \in {"finished", "failed"},
         Settles(j, outcome)
  PROVE  Claims!Deliver(j)
<1> DEFINE n == jobs[j].attempt_count
<1>1. /\ n \in AttemptNo /\ attempts[j][n] = "open" /\ attempts'[j][n] = outcome
      /\ \A k \in Job, m \in AttemptNo :
            <<k, m>> # <<j, n>> => attempts'[k][m] = attempts[k][m]
  BY DEF Settles
<1>2. ClaimOf(j) = <<j, n>> /\ ClaimOf(j)' = NoClaim
  BY DEF Settles, ClaimOf
<1>3. \A k \in Job : k # j => ClaimOf(k)' = ClaimOf(k)
  BY DEF Settles, ClaimOf
<1> HIDE DEF n
<1>4. <<j, n>> \notin AttemptsThatAre({"finished", "failed"})
  BY <1>1 DEF AttemptsThatAre
<1>5. AttemptsThatAre({"open", "finished", "failed"})'
         = AttemptsThatAre({"open", "finished", "failed"})
  BY <1>1 DEF AttemptsThatAre
<1>6. AttemptsThatAre({"finished", "failed"})'
         = AttemptsThatAre({"finished", "failed"}) \cup {<<j, n>>}
  BY <1>1 DEF AttemptsThatAre
<1>7. <<j, n>> # NoClaim
  BY DEF NoClaim
<1>8. [k \in Job |-> ClaimOf(k)]' = [[k \in Job |-> ClaimOf(k)] EXCEPT ![j] = NoClaim]
  BY <1>2, <1>3
<1>9. [k \in Job |-> ClaimOf(k)][j] = <<j, n>>
  BY <1>2
<1> QED
  BY <1>4, <1>5, <1>6, <1>7, <1>8, <1>9 DEF Claims!Deliver

(* Whatever crashes, outlives its lease or is requeued: every claim of a    *)
(* job is a new attempt, and an outcome is recorded once, for the attempt   *)
(* that has the job (claim_job, complete_job, retry_job).                   *)
THEOREM QueueFencesClaims == QueueSpec => Claims!Spec
<1>1. QueueInit => Claims!Init
  BY DEF QueueInit, Claims!Init, ClaimOf, AttemptsThatAre
<1>2. QueueInv /\ [QueueNext]_queueVars => [Claims!Next]_Claims!vars
  <2> SUFFICES ASSUME QueueInv, [QueueNext]_queueVars PROVE [Claims!Next]_Claims!vars
    OBVIOUS
  <2>1. CASE \E r \in Runner, j \in Job, n \in AttemptNo : Claimed(r, j, n)
    <3>1. PICK r \in Runner, j \in Job, n \in AttemptNo : Claimed(r, j, n)
      BY <2>1
    <3>2. Claims!Acquire(j, <<j, n>>)
      BY <3>1, ClaimAcquires DEF QueueInv
    <3> QED
      BY <3>2 DEF Claims!Next
  <2>2. CASE \E j \in Job, outcome \in {"finished", "failed"} : Settles(j, outcome)
    BY <2>2, SettleDelivers DEF Claims!Next, QueueInv
  <2>3. CASE attempts' = attempts /\ \A j \in Job : ClaimOf(j)' = ClaimOf(j)
    BY <2>3 DEF Claims!vars, AttemptsThatAre
  <2> QED
    BY <2>1, <2>2, <2>3, ClaimSteps
<1> QED
  BY <1>1, <1>2, QueueInvariant, PTL DEF QueueSpec, Claims!Spec
-----------------------------------------------------------------------------
(* The attempts of a job are bounded.                                       *)

\* What a job has used up of its attempts.  A claim that runs out has cost a
\* mishap, and only such a claim is taken over when no attempt is left.
Budget(j) ==
    /\ jobs[j].attempt_count <= MaxAttempts + mishaps
    /\ jobs[j].state = "retry" => jobs[j].attempt_count < MaxAttempts
    /\ jobs[j].state = "running" /\ (j \in lapsed \/ ~Held(j))
          => jobs[j].attempt_count < MaxAttempts + mishaps

\* What a step may do to a job: claim it, end its attempt, make it new, cost a
\* mishap, or leave it alone with the claim that holds it.
BudgetStep(j) ==
    \/ /\ Claimable(j)
       /\ jobs'[j].state = "running" /\ j \notin lapsed' /\ Held(j)'
       /\ jobs'[j].attempt_count = jobs[j].attempt_count + 1
       /\ mishaps' = mishaps
    \/ /\ jobs'[j].attempt_count = jobs[j].attempt_count
       /\ jobs'[j].state \in Settled \cup {"retry"}
       /\ jobs'[j].state = "retry" => jobs[j].attempt_count < MaxAttempts
       /\ mishaps' = mishaps
    \/ /\ jobs'[j].state = "pending" /\ jobs'[j].attempt_count = 0
       /\ mishaps' = mishaps
    \/ jobs'[j] = jobs[j] /\ mishaps' = mishaps + 1
    \/ /\ jobs'[j] = jobs[j] /\ mishaps' = mishaps
       /\ jobs[j].state = "running" =>
             /\ j \in lapsed' => j \in lapsed \/ ~Held(j)
             /\ Held(j) => Held(j)'

\* A loop that stays busy with its job, or was not busy with this one under its
\* lease, leaves the job held.
LEMMA HeldStays ==
  ASSUME NEW j \in Job, jobs'[j] = jobs[j], Held(j),
         \A r \in Runner : runners[r].pc \in Busy /\ runners[r].job = j
                              /\ jobs[j].lease_id = r
                              => runners'[r].pc \in Busy /\ runners'[r].job = j
  PROVE  Held(j)'
  BY DEF Held

\* Every step does one of these to a job.
LEMMA BudgetSteps ==
  ASSUME QueueInv, [QueueNext]_queueVars, NEW j \in Job
  PROVE  BudgetStep(j)
<1> USE DEF QueueInv
<1>1. ASSUME NEW q \in Runner, Claim(q)
      PROVE  BudgetStep(j)
  <2>1. PICK k \in Job, n \in AttemptNo : Claimed(q, k, n)
    BY <1>1, ClaimEffect
  <2>2. /\ n = jobs[k].attempt_count + 1 /\ Claimable(k)
        /\ jobs'[k] = [state |-> "running", attempt_count |-> n, lease_id |-> q]
        /\ \A i \in Job : i # k => jobs'[i] = jobs[i]
        /\ runners'[q] = [pc |-> "work", job |-> k, attempt |-> n]
        /\ \A i \in Runner : i # q => runners'[i] = runners[i]
    BY <2>1 DEF Claimed
  <2>3. mishaps' = mishaps /\ runners[q].pc = "poll"
    BY <1>1 DEF Claim
  <2>4. PICK c \in Job : lapsed' = lapsed \ {c} /\ jobs' = [jobs EXCEPT ![c] =
           [state |-> "running", attempt_count |-> jobs[c].attempt_count + 1, lease_id |-> q]]
           /\ runners' = [runners EXCEPT ![q] = [pc |-> "work", job |-> c,
                                        attempt |-> jobs[c].attempt_count + 1]]
    BY <1>1 DEF Claim
  <2>5. c = k
    BY <2>2, <2>4 DEF QueueTypeOK
  <2>6. CASE j = k
    <3>1. Held(j)'
      BY <2>2, <2>6 DEF Held, Busy
    <3> QED
      BY <2>2, <2>3, <2>4, <2>5, <2>6, <3>1 DEF BudgetStep
  <2>7. CASE j # k
    <3>1. Held(j) => Held(j)'
      BY <2>2, <2>3, <2>7, HeldStays DEF Busy
    <3> QED
      BY <2>2, <2>3, <2>4, <2>5, <2>7, <3>1 DEF BudgetStep
  <2> QED
    BY <2>6, <2>7
<1>2. ASSUME NEW q \in Runner, NEW k \in Job, k = runners[q].job,
             NEW state \in {"completed", "failed", "retry"},
             NEW outcome \in {"finished", "failed"},
             Active(q), Settle(k, state, outcome), mishaps' = mishaps,
             state = "retry" => jobs[k].attempt_count < MaxAttempts,
             \A i \in Runner : i # q => runners'[i] = runners[i]
      PROVE  BudgetStep(j)
  <2>1. /\ jobs'[k].state = state
        /\ jobs'[k].attempt_count = jobs[k].attempt_count
        /\ \A i \in Job : i # k => jobs'[i] = jobs[i]
    BY <1>2, SettleEffect
  <2>2. lapsed' = lapsed \ {k}
    BY <1>2 DEF Settle
  <2>3. CASE j = k
    BY <1>2, <2>1, <2>3 DEF BudgetStep, Settled
  <2>4. CASE j # k
    <3>1. Held(j) => Held(j)'
      BY <1>2, <2>1, <2>4, HeldStays
    <3> QED
      BY <1>2, <2>1, <2>2, <2>4, <3>1 DEF BudgetStep
  <2> QED
    BY <2>3, <2>4
<1>3. ASSUME NEW q \in Runner, Complete(q)
      PROVE  BudgetStep(j)
  <2>1. runners[q].job \in Job
    BY <1>3 DEF Complete, ClaimKept, Busy
  <2>2. CASE Active(q) /\ Settle(runners[q].job, "completed", "finished")
             /\ runners' = [runners EXCEPT ![q] = Idle]
    <3>1. \A i \in Runner : i # q => runners'[i] = runners[i]
      BY <2>2 DEF QueueTypeOK
    <3> QED
      BY <1>2, <1>3, <2>1, <2>2, <3>1 DEF Complete
  <2>3. CASE runners' = At(q, "retry") /\ UNCHANGED rowVars
    <3>1. \A i \in Runner : /\ runners[i].pc \in Busy => runners'[i].pc \in Busy
                            /\ runners'[i].job = runners[i].job
      BY <2>3 DEF At, Busy, QueueTypeOK
    <3>2. jobs' = jobs /\ lapsed' = lapsed
      BY <2>3 DEF rowVars
    <3>3. Held(j) => Held(j)'
      BY <3>1, <3>2, HeldStays
    <3> QED
      BY <1>3, <3>2, <3>3 DEF BudgetStep, Complete
  <2> QED
    BY <1>3, <2>2, <2>3 DEF Complete
<1>4. ASSUME NEW q \in Runner, Retry(q)
      PROVE  BudgetStep(j)
  <2>1. runners[q].job \in Job /\ runners[q].pc \in Busy
    BY <1>4 DEF Retry, ClaimKept, Busy
  <2>2. \A i \in Runner : i # q => runners'[i] = runners[i]
    BY <1>4 DEF Retry, QueueTypeOK
  <2>3. CASE Active(q) /\ Settle(runners[q].job,
                    IF jobs[runners[q].job].attempt_count >= MaxAttempts
                    THEN "failed" ELSE "retry", "failed")
    <3>1. jobs[runners[q].job].attempt_count \in 0 .. MaxTries
      BY <2>1 DEF QueueTypeOK, JobRow
    <3>2. CASE jobs[runners[q].job].attempt_count >= MaxAttempts
      <4>1. Settle(runners[q].job, "failed", "failed")
        BY <2>3, <3>2
      <4> QED
        BY <1>2, <1>4, <2>1, <2>2, <2>3, <4>1 DEF Retry
    <3>3. CASE ~(jobs[runners[q].job].attempt_count >= MaxAttempts)
      <4>1. Settle(runners[q].job, "retry", "failed")
        BY <2>3, <3>3
      <4>2. jobs[runners[q].job].attempt_count < MaxAttempts
        BY <3>1, <3>3
      <4> QED
        BY <1>2, <1>4, <2>1, <2>2, <2>3, <4>1, <4>2 DEF Retry
    <3> QED
      BY <3>2, <3>3
  <2>4. CASE ~Active(q) /\ UNCHANGED rowVars
    <3>1. jobs' = jobs /\ lapsed' = lapsed
      BY <2>4 DEF rowVars
    <3>2. jobs[j].state = "running" /\ Held(j) => Held(j)'
      BY <2>2, <2>4, <3>1, HeldStays DEF Active
    <3> QED
      BY <1>4, <3>1, <3>2 DEF BudgetStep, Retry
  <2> QED
    BY <1>4, <2>3, <2>4 DEF Retry
<1>5. ASSUME NEW q \in Runner, Work(q)
      PROVE  BudgetStep(j)
  <2>1. \A i \in Runner : /\ runners[i].pc \in Busy => runners'[i].pc \in Busy
                          /\ runners'[i].job = runners[i].job
    BY <1>5 DEF Work, At, Busy, QueueTypeOK
  <2>2. jobs' = jobs /\ lapsed' = lapsed /\ mishaps' = mishaps
    BY <1>5 DEF Work, rowVars
  <2>3. Held(j) => Held(j)'
    BY <2>1, <2>2, HeldStays
  <2> QED
    BY <2>2, <2>3 DEF BudgetStep
<1>6. ASSUME NEW q \in Runner, ClaimCollides(q) \/ Restart(q)
      PROVE  BudgetStep(j)
  <2>1. \A i \in Runner : runners[i].pc \in Busy => runners'[i] = runners[i]
    BY <1>6 DEF ClaimCollides, Restart, Busy, QueueTypeOK
  <2>2. jobs' = jobs /\ lapsed' = lapsed /\ mishaps' = mishaps
    BY <1>6 DEF ClaimCollides, Restart, rowVars
  <2>3. Held(j) => Held(j)'
    BY <2>1, <2>2, HeldStays
  <2> QED
    BY <2>2, <2>3 DEF BudgetStep
<1>7. ASSUME NEW q \in Runner, StoreFails(q) \/ Crash(q)
      PROVE  BudgetStep(j)
  BY <1>7 DEF StoreFails, Crash, rowVars, BudgetStep
<1>8. ASSUME NEW k \in Job, Enqueue(k) \/ Requeue(k)
      PROVE  BudgetStep(j)
  <2>1. /\ jobs'[k].state = "pending" /\ jobs'[k].attempt_count = 0
        /\ \A i \in Job : i # k => jobs'[i] = jobs[i]
    BY <1>8, InsertEffect DEF Enqueue, Requeue
  <2>2. lapsed' = lapsed /\ mishaps' = mishaps /\ runners' = runners
    BY <1>8 DEF Enqueue, Requeue, Insert
  <2>3. j # k /\ Held(j) => Held(j)'
    BY <2>1, <2>2, HeldStays
  <2> QED
    BY <2>1, <2>2, <2>3 DEF BudgetStep
<1>9. ASSUME NEW k \in Job, FallDue(k) \/ Lapse(k)
      PROVE  BudgetStep(j)
  <2>1. jobs' = jobs /\ mishaps' = mishaps /\ runners' = runners
    BY <1>9 DEF FallDue, Lapse
  <2>2. j \in lapsed' => j \in lapsed \/ ~Held(j)
    BY <1>9 DEF FallDue, Lapse
  <2>3. Held(j) => Held(j)'
    BY <2>1, HeldStays
  <2> QED
    BY <2>1, <2>2, <2>3 DEF BudgetStep
<1>10. ASSUME NEW k \in Job, Outlive(k)
       PROVE  BudgetStep(j)
  BY <1>10 DEF Outlive, BudgetStep
<1>11. CASE UNCHANGED queueVars
  <2>1. jobs' = jobs /\ mishaps' = mishaps /\ runners' = runners /\ lapsed' = lapsed
    BY <1>11 DEF queueVars
  <2>2. Held(j) => Held(j)'
    BY <2>1, HeldStays
  <2> QED
    BY <2>1, <2>2 DEF BudgetStep
<1> QED
  BY <1>1, <1>3, <1>4, <1>5, <1>6, <1>7, <1>8, <1>9, <1>10, <1>11
     DEF QueueNext, RunnerStep

\* None of these lets the attempts of a job outgrow its budget.
LEMMA StepBudget ==
  ASSUME QueueInv, [QueueNext]_queueVars, NEW j \in Job, Budget(j)
  PROVE  Budget(j)'
<1>1. BudgetStep(j)
  BY BudgetSteps
<1>2. /\ jobs[j].attempt_count \in Nat /\ jobs'[j].attempt_count \in Nat
      /\ mishaps \in Nat /\ MaxAttempts \in Nat \ {0}
  <2>1. QueueTypeOK /\ QueueTypeOK'
    BY StepQueueInv DEF QueueInv
  <2> QED
    BY <2>1 DEF QueueTypeOK, JobRow
<1>3. jobs[j].state = "pending" => jobs[j].attempt_count = 0
  BY DEF QueueInv, RowsInOrder
<1> QED
  BY <1>1, <1>2, <1>3 DEF BudgetStep, Budget, Claimable, Settled

(* claim_job has no limit of its own: it takes over an overdue claim of a   *)
(* job that has used up max_attempts.  Every attempt beyond the limit is    *)
(* paid for by a process that stopped, a lease that was outlived, or an     *)
(* error of the store that ended a loop and left its claim behind; a job    *)
(* whose work only fails is never tried more than max_attempts times.       *)
THEOREM AttemptsAreBounded ==
  QueueSpec => [](\A j \in Job : jobs[j].attempt_count <= MaxAttempts + mishaps)
<1> DEFINE Budgets == \A j \in Job : Budget(j)
<1>1. QueueInit => Budgets
  <2> SUFFICES ASSUME QueueInit, NEW j \in Job PROVE Budget(j)
    OBVIOUS
  <2>1. jobs[j].state = "absent" /\ jobs[j].attempt_count = 0 /\ mishaps = 0
    BY DEF QueueInit
  <2>2. MaxAttempts \in Nat
    OBVIOUS
  <2> QED
    BY <2>1, <2>2 DEF Budget
<1>2. QueueInv /\ Budgets /\ [QueueNext]_queueVars => Budgets'
  BY StepBudget
<1>3. Budgets => \A j \in Job : jobs[j].attempt_count <= MaxAttempts + mishaps
  BY DEF Budget
<1> HIDE DEF Budgets
<1> QED
  BY <1>1, <1>2, <1>3, QueueInvariant, PTL DEF QueueSpec
=============================================================================
