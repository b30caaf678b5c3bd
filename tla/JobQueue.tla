------------------------------ MODULE JobQueue ------------------------------
(***************************************************************************)
(* Background jobs of Astra Agent: the rows background_jobs and             *)
(* job_attempts with the transactions of runtime/sql.py that change them,   *)
(* and the loop run_jobs of the API process (astra_agent/app.py) that       *)
(* claims a job, works on it, and reports the outcome.                      *)
(*                                                                          *)
(* What a job does is left open here: Work ends well or badly, and anybody  *)
(* may enqueue.  MemorySync says what the two kinds of job do.              *)
(*                                                                          *)
(* A Runner is the job loop of one API process.  A loop does one job at a   *)
(* time and draws a fresh lease id for every claim, so a lease id is known  *)
(* by the name of the runner it was drawn by: no loop ever uses the id of   *)
(* an earlier claim again.                                                  *)
(***************************************************************************)
EXTENDS Naturals

CONSTANTS Job,          \* jobs: one for each (tenant, kind, source)
          Runner,       \* API processes
          MaxAttempts,  \* max_attempts of a job
          MaxTries,     \* bound: attempt rows of a job
          MaxMishaps,   \* bound: crashes, outlived leases and errors of the
                        \* store together
          None          \* no runner, no job

ASSUME QueueAssumption ==
    /\ Runner # {}
    /\ MaxAttempts \in Nat \ {0}
    /\ MaxTries \in Nat \ {0}
    /\ MaxMishaps \in Nat
    /\ None \notin Job /\ None \notin Runner

VARIABLES jobs,      \* rows of background_jobs
          attempts,  \* rows of job_attempts, by job and attempt number
          due,       \* the unsettled jobs whose available_at has passed
          ahead,     \* for each due job the due jobs with an earlier one
          lapsed,    \* the running jobs whose lease_expires_at has passed
          runners,   \* the job loop of each process
          mishaps    \* crashes, outlived leases and errors of the store so far

rowVars == <<jobs, attempts, due, ahead, lapsed>>
queueVars == <<jobs, attempts, due, ahead, lapsed, runners, mishaps>>

AttemptNo == 1 .. MaxTries
Settled == {"completed", "failed"}
Busy == {"work", "complete", "retry"}

JobRow == [state : {"absent", "pending", "running", "retry"} \cup Settled,
           attempt_count : 0 .. MaxTries,
           lease_id : Runner \cup {None}]
Over == {"ended", "broken"}   \* by a refusal, by an error of the store

Loop == [pc : {"poll", "down"} \cup Over \cup Busy,
         job : Job \cup {None},
         attempt : 0 .. MaxTries]
Idle == [pc |-> "poll", job |-> None, attempt |-> 0]
Ended == [pc |-> "ended", job |-> None, attempt |-> 0]
Broken == [pc |-> "broken", job |-> None, attempt |-> 0]
Down == [pc |-> "down", job |-> None, attempt |-> 0]

QueueTypeOK ==
    /\ jobs \in [Job -> JobRow]
    /\ attempts \in [Job -> [AttemptNo -> {"none", "open", "finished", "failed"}]]
    /\ due \in SUBSET Job
    /\ ahead \in [Job -> SUBSET Job]
    /\ lapsed \in SUBSET Job
    /\ runners \in [Runner -> Loop]
    /\ mishaps \in Nat

QueueInit ==
    /\ jobs = [j \in Job |-> [state |-> "absent", attempt_count |-> 0,
                              lease_id |-> None]]
    /\ attempts = [j \in Job |-> [n \in AttemptNo |-> "none"]]
    /\ due = {}
    /\ ahead = [j \in Job |-> {}]
    /\ lapsed = {}
    /\ runners = [r \in Runner |-> Idle]
    /\ mishaps = 0
-----------------------------------------------------------------------------
(* Conditions.                                                              *)

\* Faulty: a job that is taken is never taken over.
ClaimableUntaken(j) == j \in due /\ jobs[j].state \in {"pending", "retry"}

\* The WHERE clause of claim_job.
Claimable(j) ==
    /\ j \in due
    /\ \/ jobs[j].state \in {"pending", "retry"}
       \/ jobs[j].state = "running" /\ j \in lapsed

\* ORDER BY available_at: the first row that matches.
NextUp(j) == Claimable(j) /\ \A k \in ahead[j] : ~Claimable(k)

\* Faulty: attempt rows need not be unique.
CollidesNever(j) == FALSE

\* The row the next claim inserts would repeat (job_id, attempt).
Collides(j) ==
    /\ jobs[j].attempt_count < MaxTries
    /\ attempts[j][jobs[j].attempt_count + 1] # "none"

\* A job that no loop can claim any more, and each that tries ends.
Poisoned(j) == jobs[j].state = "pending" /\ Collides(j)

\* Faulty: a lease id that was once given stays good while the job runs.
ActiveAnyLease(r) == jobs[runners[r].job].state = "running"

\* _active_job: the job runs under the lease the loop was given.
Active(r) ==
    /\ jobs[runners[r].job].state = "running"
    /\ jobs[runners[r].job].lease_id = r

\* Somebody still works for the lease a job runs under.
Held(j) == \E r \in Runner : /\ runners[r].pc \in Busy
                             /\ runners[r].job = j
                             /\ jobs[j].lease_id = r
-----------------------------------------------------------------------------
(* Rows.                                                                    *)

\* available_at is set to the present moment: last among the due jobs.
MakeDue(j) ==
    /\ due' = due \cup {j}
    /\ ahead' = [k \in Job |-> IF k = j THEN due \ {j} ELSE ahead[k] \ {j}]

\* available_at lies ahead, or no longer matters.
TakeOut(j) ==
    /\ due' = due \ {j}
    /\ ahead' = [k \in Job |-> IF k = j THEN {} ELSE ahead[k] \ {j}]

\* enqueue_job: one job for each source, whatever became of it.
Insert(j) ==
    /\ jobs' = [jobs EXCEPT ![j] = [state |-> "pending", attempt_count |-> 0,
                                    lease_id |-> None]]
    /\ MakeDue(j)
    /\ UNCHANGED <<attempts, lapsed>>

\* Faulty: the job takes over the state of its attempt.
SettleCopied(j, state, outcome) ==
    /\ jobs' = [jobs EXCEPT ![j] = [state |-> outcome,
                                    attempt_count |-> jobs[j].attempt_count,
                                    lease_id |-> None]]
    /\ attempts' = [attempts EXCEPT ![j][jobs[j].attempt_count] = outcome]
    /\ lapsed' = lapsed \ {j}
    /\ TakeOut(j)

\* Faulty: a job that is tried again counts its attempts from the start.
SettleAfresh(j, state, outcome) ==
    /\ jobs' = [jobs EXCEPT ![j] = [state |-> state, attempt_count |-> 0,
                                    lease_id |-> None]]
    /\ attempts' = [attempts EXCEPT ![j][jobs[j].attempt_count] = outcome]
    /\ lapsed' = lapsed \ {j}
    /\ TakeOut(j)

\* The rows of a job whose current attempt ends with this outcome.
Settle(j, state, outcome) ==
    /\ jobs' = [jobs EXCEPT ![j] = [state |-> state,
                                    attempt_count |-> jobs[j].attempt_count,
                                    lease_id |-> None]]
    /\ attempts' = [attempts EXCEPT ![j][jobs[j].attempt_count] = outcome]
    /\ lapsed' = lapsed \ {j}
    /\ TakeOut(j)
-----------------------------------------------------------------------------
(* The loop run_jobs.  Between two of its awaits anything else may happen.  *)

\* claim_job, and its attempt row is new.
Claim(r) ==
    /\ runners[r].pc = "poll"
    /\ \E j \in Job :
        LET n == jobs[j].attempt_count + 1 IN
        /\ NextUp(j)
        /\ n <= MaxTries
        /\ ~Collides(j)
        /\ jobs' = [jobs EXCEPT ![j] = [state |-> "running", attempt_count |-> n,
                                        lease_id |-> r]]
        /\ attempts' = [attempts EXCEPT ![j][n] = "open"]
        /\ lapsed' = lapsed \ {j}
        /\ runners' = [runners EXCEPT ![r] = [pc |-> "work", job |-> j,
                                              attempt |-> n]]
    /\ UNCHANGED <<due, ahead, mishaps>>

\* claim_job, and uq_job_attempts_job_attempt refuses the attempt row: the
\* transaction is undone, and the error leaves the loop, which has no handler
\* around the claim.
ClaimCollides(r) ==
    /\ runners[r].pc = "poll"
    /\ \E j \in Job : NextUp(j) /\ Collides(j)
    /\ runners' = [runners EXCEPT ![r] = Ended]
    /\ UNCHANGED <<rowVars, mishaps>>

At(r, pc) == [runners EXCEPT ![r] = [pc |-> pc, job |-> runners[r].job,
                                     attempt |-> runners[r].attempt]]

\* The work of the job ends well, or raises.
Work(r) ==
    /\ runners[r].pc = "work"
    /\ \E pc \in {"complete", "retry"} : runners' = At(r, pc)
    /\ UNCHANGED <<rowVars, mishaps>>

\* complete_job.  A refusal, and any other error of it, is an error like any
\* other of the attempt.
Complete(r) ==
    /\ runners[r].pc = "complete"
    /\ \/ /\ Active(r)
          /\ Settle(runners[r].job, "completed", "finished")
          /\ runners' = [runners EXCEPT ![r] = Idle]
       \/ /\ runners' = At(r, "retry")
          /\ UNCHANGED rowVars
    /\ UNCHANGED mishaps

\* retry_job, called by the handler of the error: a refusal leaves the loop.
Retry(r) ==
    /\ runners[r].pc = "retry"
    /\ \/ /\ Active(r)
          /\ Settle(runners[r].job,
                    IF jobs[runners[r].job].attempt_count >= MaxAttempts
                    THEN "failed" ELSE "retry",
                    "failed")
          /\ runners' = [runners EXCEPT ![r] = Idle]
       \/ /\ ~Active(r)
          /\ runners' = [runners EXCEPT ![r] = Ended]
          /\ UNCHANGED rowVars
    /\ UNCHANGED mishaps

\* claim_job raises, or, in the handler of an error, append_event or
\* retry_job: nothing catches it, the loop is over and its claim stays behind.
\* (A commit whose answer is lost comes to the same as a call that is answered
\* and an error of the next one.)
StoreFails(r) ==
    /\ runners[r].pc \in {"poll", "retry"}
    /\ mishaps < MaxMishaps
    /\ mishaps' = mishaps + 1
    /\ runners' = [runners EXCEPT ![r] = Broken]
    /\ UNCHANGED rowVars

\* The process stops, by a crash or a shutdown: its claim stays behind.
Crash(r) ==
    /\ runners[r].pc # "down"
    /\ mishaps < MaxMishaps
    /\ mishaps' = mishaps + 1
    /\ runners' = [runners EXCEPT ![r] = Down]
    /\ UNCHANGED rowVars

\* systemd starts the process again; it does not notice a loop that ended.
Restart(r) ==
    /\ runners[r].pc = "down"
    /\ runners' = [runners EXCEPT ![r] = Idle]
    /\ UNCHANGED <<rowVars, mishaps>>
-----------------------------------------------------------------------------
(* Other callers, and time.                                                 *)

\* enqueue_job for a source that has no job yet; for one that has, whatever
\* its state, it changes nothing.
Enqueue(j) ==
    /\ jobs[j].state = "absent"
    /\ Insert(j)
    /\ UNCHANGED <<runners, mishaps>>

\* requeue_job, by an operator.
Requeue(j) ==
    /\ jobs[j].state = "failed"
    /\ Insert(j)
    /\ UNCHANGED <<runners, mishaps>>

\* The delay of a retry is over.
FallDue(j) ==
    /\ jobs[j].state = "retry" /\ j \notin due
    /\ MakeDue(j)
    /\ UNCHANGED <<jobs, attempts, lapsed, runners, mishaps>>

\* The lease of a claim that nobody works for any more runs out.
Lapse(j) ==
    /\ jobs[j].state = "running" /\ j \notin lapsed
    /\ ~Held(j)
    /\ lapsed' = lapsed \cup {j}
    /\ UNCHANGED <<jobs, attempts, due, ahead, runners, mishaps>>

\* Work takes longer than the five minutes of its lease.
Outlive(j) ==
    /\ jobs[j].state = "running" /\ j \notin lapsed
    /\ Held(j)
    /\ mishaps < MaxMishaps
    /\ mishaps' = mishaps + 1
    /\ lapsed' = lapsed \cup {j}
    /\ UNCHANGED <<jobs, attempts, due, ahead, runners>>

RunnerStep(r) == Claim(r) \/ ClaimCollides(r) \/ Work(r) \/ Complete(r) \/ Retry(r)

QueueNext ==
    \/ \E r \in Runner : RunnerStep(r) \/ StoreFails(r) \/ Crash(r) \/ Restart(r)
    \/ \E j \in Job : Enqueue(j) \/ Requeue(j) \/ FallDue(j) \/ Lapse(j) \/ Outlive(j)

\* A loop goes on, a stopped process is started again, time passes.
QueueFairness ==
    /\ \A r \in Runner : WF_queueVars(RunnerStep(r) \/ Restart(r))
    /\ \A j \in Job : WF_queueVars(FallDue(j) \/ Lapse(j))

QueueSpec == QueueInit /\ [][QueueNext]_queueVars /\ QueueFairness
-----------------------------------------------------------------------------
(* An attempt row is closed only by the loop that was given that attempt,   *)
(* while the job is at it: the late outcome of a loop that was taken over   *)
(* is never recorded for its successor (_active_job in complete_job and     *)
(* retry_job).                                                              *)
OutcomeByItsClaimer ==
    [][\A j \in Job, n \in AttemptNo :
          attempts'[j][n] \in {"finished", "failed"} /\ attempts[j][n] = "open"
              => \E r \in Runner : /\ runners[r].job = j
                                   /\ runners[r].attempt = n
                                   /\ jobs[j].lease_id = r
                                   /\ runners'[r] = Idle]_queueVars

(* The attempt history is immutable: a row stays, and once closed it keeps  *)
(* its outcome, through retries, crashes, take-overs and requeues.          *)
HistoryImmutable ==
    [][\A j \in Job, n \in AttemptNo :
          attempts[j][n] # "none" => attempts'[j][n] # "none"
                                  /\ (attempts[j][n] # "open"
                                        => attempts'[j][n] = attempts[j][n])]_queueVars

(* The queue stops for good in two ways only: an error of the store ends a  *)
(* loop, or a requeued job, whose first attempt row exists, ends each loop  *)
(* that tries to claim it.  Crashes, leases that are outlived and the       *)
(* refusals that follow never end the last loop: whoever was taken over     *)
(* leaves a loop that goes on, or a process that will be started again      *)
(* (run_jobs has no handler around claim_job, append_event and retry_job).  *)
LoopSurvives ==
    (\A r \in Runner : runners[r].pc \in Over)
        => (\E r \in Runner : runners[r].pc = "broken") \/ (\E j \in Job : Poisoned(j))

\* Errors of the store do not leave the queue without a loop for good: not
\* every process meets one, or somebody restarts a process that did.
LoopsGoOn == []<>(\E r \in Runner : runners[r].pc \notin Over)

(* Every job that was enqueued completes or fails for good, whichever       *)
(* processes crash, are taken over or lose their loop to an error, if that  *)
(* comes to an end (MaxMishaps), does not end all loops, and no job was     *)
(* requeued (run_jobs, claim_job).                                          *)
EveryJobSettles ==
    LoopsGoOn /\ [](\A j \in Job : ~Poisoned(j))
        => \A j \in Job : (jobs[j].state = "pending") ~> (jobs[j].state \in Settled)
=============================================================================
