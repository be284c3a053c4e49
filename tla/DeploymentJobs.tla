--------------------------- MODULE DeploymentJobs ---------------------------
(***************************************************************************)
(* The durable queue of strategy-deployment jobs and the threads around    *)
(* it: the API and the scheduler enqueue evaluation jobs, workers claim    *)
(* and run them under a per-deployment lease, the sweeper returns stale    *)
(* RUNNING jobs to the queue, and the operator starts, stops and pauses    *)
(* deployments meanwhile.                                                  *)
(*                                                                         *)
(* One action is one committed database transaction (or the step that      *)
(* rolls one back).  A worker's claim, lease and evaluation are a single   *)
(* transaction for a PAPER deployment; for a LIVE one the candle fetch     *)
(* commits in the middle, and the evaluation is then in flight with its    *)
(* claim visible to everybody.                                             *)
(*                                                                         *)
(* Time is relative: a row keeps the ticks left until run_after or         *)
(* locked_until and the ticks since locked_at, so no clock is bounded.     *)
(***************************************************************************)
EXTENDS Naturals, FiniteSets

CONSTANTS
  Job,            \* dedupe keys of the jobs that may be enqueued
  Deployment,
  DeploymentOf,   \* the deployment of each job
  FlattenJob,     \* the jobs of kind WINDOW / MIS_FLATTEN
  Live,           \* deployments whose evaluation fetches candles
  Worker,         \* worker threads
  WorkerId,       \* the worker_id string each thread passes
  NoId,           \* locked_by IS NULL
  NoJob,
  MaxAttempts,    \* max_attempts (5 in the code)
  BaseBackoff,    \* base_backoff_seconds (2)
  MaxBackoff,     \* max_backoff_seconds (60)
  LockTTL,        \* ttl_seconds of the deployment lease (30)
  RunTTL,         \* running_ttl_seconds of the sweeper (60)
  MaxEval,        \* longest run of one job, in ticks
  CandleConflict, \* whether another process may store the same candles
  MaxFaults       \* bound on crashes, dead threads and lost error reports

ASSUME ConstantsAssumption ==
  /\ DeploymentOf \in [Job -> Deployment]
  /\ FlattenJob \subseteq Job
  /\ Live \subseteq Deployment
  /\ NoJob \notin Job
  /\ \A w \in Worker : WorkerId[w] # NoId
  /\ MaxAttempts \in Nat \ {0}
  /\ {BaseBackoff, MaxBackoff, LockTTL, RunTTL, MaxEval, MaxFaults} \subseteq Nat
  /\ CandleConflict \in BOOLEAN

VARIABLES
  job,     \* strategy_deployment_jobs, one row per dedupe key
  nextId,  \* the table's autoincrement
  lock,    \* strategy_deployment_locks
  dep,     \* enabled and state.status of each deployment
  worker,  \* what each worker thread is doing
  evals,   \* history: committed evaluations of each job
  faults   \* crashes, dead threads and lost error reports so far

vars == <<job, nextId, lock, dep, worker, evals, faults>>

Ids == {WorkerId[w] : w \in Worker}

JobRow == [status : {"ABSENT", "PENDING", "RUNNING", "DONE", "FAILED"},
           id : Nat, attempts : Nat, wait : 0 .. MaxBackoff, age : 0 .. RunTTL + 1]
LockRow == [by : Ids \cup {NoId}, left : 0 .. LockTTL + 1]
DepRow == [enabled : BOOLEAN, status : {"RUNNING", "PAUSED", "STOPPED"}]
WorkerState == [pc : {"idle", "evaluating", "failing", "dead"},
                job : Job \cup {NoJob}, age : 0 .. MaxEval]

NoRow == [status |-> "ABSENT", id |-> 0, attempts |-> 0, wait |-> 0, age |-> 0]
Unlocked == [by |-> NoId, left |-> 0]
Idle == [pc |-> "idle", job |-> NoJob, age |-> 0]
Started == [enabled |-> TRUE, status |-> "RUNNING"]
Stopped == [enabled |-> FALSE, status |-> "STOPPED"]

Init ==
  /\ job = [j \in Job |-> NoRow]
  /\ nextId = 1
  /\ lock = [d \in Deployment |-> Unlocked]
  /\ dep \in [Deployment -> {Started, Stopped}]
  /\ worker = [w \in Worker |-> Idle]
  /\ evals = [j \in Job |-> 0]
  /\ faults = 0

Less(m, n) == IF m > n THEN m - n ELSE 0

-----------------------------------------------------------------------------
(* The rows after one helper of deployment_jobs.py *)

\* The delay before attempt n + 1.
RawBackoff(n) == BaseBackoff * 2 ^ (n - 1)

\* Mutant: the delay is not capped.
UncappedBackoff(n) == RawBackoff(n)

Backoff(n) == IF RawBackoff(n) \in 0 .. MaxBackoff THEN RawBackoff(n) ELSE MaxBackoff

\* Mutant: a failed attempt is not counted.
MarkJobErrorUncounted(row, elapsed) ==
  [row EXCEPT !.status = "PENDING", !.wait = Less(BaseBackoff, elapsed), !.age = 0]

MarkJobError(row, elapsed) ==
  LET n == row.attempts + 1
      last == n >= MaxAttempts
  IN  [row EXCEPT !.attempts = n,
                  !.status = IF last THEN "FAILED" ELSE "PENDING",
                  !.wait = IF last THEN 0 ELSE Less(Backoff(n), elapsed),
                  !.age = 0]

MarkJobDone(row) == [row EXCEPT !.status = "DONE", !.wait = 0, !.age = 0]

\* Mutant: only rows that never failed are returned to the queue.
StaleFirstTry(row) == row.status = "RUNNING" /\ row.age > RunTTL /\ row.attempts = 0

Stale(row) == row.status = "RUNNING" /\ row.age > RunTTL
Requeue(row) == [row EXCEPT !.status = "PENDING", !.wait = 0, !.age = 0]

\* Mutant: a lease in its last tick counts as expired.
LockFreeEarly(d) == lock[d].left <= 1

LockFree(d) == lock[d].left = 0
LeaseTo(w) == [by |-> WorkerId[w], left |-> LockTTL + 1]

\* Mutant: the release does not look at the holder.
ReleaseAnyLock(d, w) == lock' = [lock EXCEPT ![d] = Unlocked]

ReleaseLock(d, w) ==
  lock' = [lock EXCEPT ![d] = IF @.by = WorkerId[w] THEN Unlocked ELSE @]

-----------------------------------------------------------------------------
(* Producers: the scheduler, run-now and enter-on-start *)

MayEnqueue(j) ==
  LET d == dep[DeploymentOf[j]] IN
  IF j \in FlattenJob THEN d.enabled /\ d.status # "STOPPED"
                      ELSE d.status # "PAUSED"

\* A second enqueue of the same dedupe key finds the row and changes nothing.
Insert(j) ==
  /\ job[j].status = "ABSENT"
  /\ job' = [job EXCEPT ![j] = [NoRow EXCEPT !.status = "PENDING", !.id = nextId]]
  /\ nextId' = nextId + 1

EnqueueJob(j) ==
  /\ MayEnqueue(j)
  /\ Insert(j)
  /\ UNCHANGED <<lock, dep, worker, evals, faults>>

-----------------------------------------------------------------------------
(* Workers *)

Runnable(j) == job[j].status = "PENDING" /\ job[j].wait = 0

\* The oldest runnable job is the one a worker tries to claim.
Claimable(w, j) ==
  /\ worker[w].pc = "idle"
  /\ Runnable(j)
  /\ \A k \in Job : Runnable(k) => job[j].id <= job[k].id

Eligible(j) ==
  LET d == dep[DeploymentOf[j]] IN
  /\ d.enabled
  /\ d.status = "RUNNING" \/ (d.status = "PAUSED" /\ j \in FlattenJob)

\* "Deployment is locked.": the claim costs the job one attempt.
ClaimLocked(w, j) ==
  /\ Claimable(w, j)
  /\ ~LockFree(DeploymentOf[j])
  /\ job' = [job EXCEPT ![j] = MarkJobError(@, 0)]
  /\ UNCHANGED <<nextId, lock, dep, worker, evals, faults>>

\* EVAL_SKIPPED: the deployment is disabled or not running; the job is done.
ClaimSkipped(w, j) ==
  /\ Claimable(w, j)
  /\ LockFree(DeploymentOf[j])
  /\ ~Eligible(j)
  /\ job' = [job EXCEPT ![j] = MarkJobDone(@)]
  /\ lock' = [lock EXCEPT ![DeploymentOf[j]] = Unlocked]
  /\ UNCHANGED <<nextId, dep, worker, evals, faults>>

Evaluable(w, j) ==
  Claimable(w, j) /\ LockFree(DeploymentOf[j]) /\ Eligible(j)

\* Claim, evaluation and completion in one transaction.
EvaluateAtOnce(w, j) ==
  /\ Evaluable(w, j)
  /\ job' = [job EXCEPT ![j] = MarkJobDone(@)]
  /\ lock' = [lock EXCEPT ![DeploymentOf[j]] = Unlocked]
  /\ evals' = [evals EXCEPT ![j] = @ + 1]
  /\ UNCHANGED <<nextId, dep, worker, faults>>

Busy(w, pc, j) == worker' = [worker EXCEPT ![w] = [pc |-> pc, job |-> j, age |-> 0]]

\* The evaluation raises before any commit: the claim and the lease roll back.
RaiseAtOnce(w, j) ==
  /\ Evaluable(w, j)
  /\ Busy(w, "failing", j)
  /\ UNCHANGED <<job, nextId, lock, dep, evals, faults>>

\* The candle fetch of a LIVE evaluation commits the claim and the lease.
FetchCandles(w, j) ==
  /\ Evaluable(w, j)
  /\ DeploymentOf[j] \in Live
  /\ job' = [job EXCEPT ![j] = [@ EXCEPT !.status = "RUNNING", !.age = 0]]
  /\ lock' = [lock EXCEPT ![DeploymentOf[j]] = LeaseTo(w)]
  /\ Busy(w, "evaluating", j)
  /\ UNCHANGED <<nextId, dep, evals, faults>>

\* The fetch finds candles another process has just stored: its rollback also
\* drops the claim and the lease, and the evaluation goes on without them.
FetchConflict(w, j) ==
  /\ CandleConflict
  /\ Evaluable(w, j)
  /\ DeploymentOf[j] \in Live
  /\ Busy(w, "evaluating", j)
  /\ UNCHANGED <<job, nextId, lock, dep, evals, faults>>

Rest(w) == worker' = [worker EXCEPT ![w] = Idle]

\* Mutant: the evaluation commits without closing its job.
CommitWithoutDone(w) ==
  LET j == worker[w].job IN
  /\ worker[w].pc = "evaluating"
  /\ ReleaseLock(DeploymentOf[j], w)
  /\ evals' = [evals EXCEPT ![j] = @ + 1]
  /\ Rest(w)
  /\ UNCHANGED <<job, nextId, dep, faults>>

\* Orders, state, DONE and the lock release commit together.
CommitEvaluation(w) ==
  LET j == worker[w].job IN
  /\ worker[w].pc = "evaluating"
  /\ job' = [job EXCEPT ![j] = MarkJobDone(@)]
  /\ ReleaseLock(DeploymentOf[j], w)
  /\ evals' = [evals EXCEPT ![j] = @ + 1]
  /\ Rest(w)
  /\ UNCHANGED <<nextId, dep, faults>>

\* The evaluation raises and its state rolls back.  (Orders a later fetch has
\* committed stay; the retry meets them again by their client ids.)
RaiseInFlight(w) ==
  /\ worker[w].pc = "evaluating"
  /\ worker' = [worker EXCEPT ![w].pc = "failing"]
  /\ UNCHANGED <<job, nextId, lock, dep, evals, faults>>

\* The error handler's own session: whatever the row says by now, it counts
\* an attempt and puts the job back (or gives it up).
ReportError(w) ==
  LET j == worker[w].job IN
  /\ worker[w].pc = "failing"
  /\ job' = [job EXCEPT ![j] = MarkJobError(@, worker[w].age)]
  /\ ReleaseLock(DeploymentOf[j], w)
  /\ Rest(w)
  /\ UNCHANGED <<nextId, dep, evals, faults>>

Fault == faults < MaxFaults /\ faults' = faults + 1

\* The error handler's commit fails too, and is swallowed.
LoseErrorReport(w) ==
  /\ worker[w].pc = "failing"
  /\ Fault
  /\ Rest(w)
  /\ UNCHANGED <<job, nextId, lock, dep, evals>>

\* The process dies and is started again.
Crash(w) ==
  /\ worker[w].pc # "idle"
  /\ Fault
  /\ Rest(w)
  /\ UNCHANGED <<job, nextId, lock, dep, evals>>

\* The claim itself raises (a locked or unreachable database): nothing around
\* it in the worker loop catches, and the thread ends.
ThreadDies(w) ==
  /\ worker[w].pc = "idle"
  /\ Fault
  /\ worker' = [worker EXCEPT ![w].pc = "dead"]
  /\ UNCHANGED <<job, nextId, lock, dep, evals>>

-----------------------------------------------------------------------------
(* Sweeper, operator, time *)

Sweep ==
  /\ job' = [j \in Job |-> IF Stale(job[j]) THEN Requeue(job[j]) ELSE job[j]]
  /\ lock' = [d \in Deployment |-> IF LockFree(d) THEN Unlocked ELSE lock[d]]
  /\ UNCHANGED <<nextId, dep, worker, evals, faults>>

Becomes(d, enabled, status) ==
  dep' = [dep EXCEPT ![d] = [enabled |-> enabled, status |-> status]]

SetDep(d, enabled, status) ==
  /\ Becomes(d, enabled, status)
  /\ UNCHANGED <<job, nextId, lock, worker, evals, faults>>

\* Start or resume; a LIVE deployment whose direction contradicts the broker's
\* position is enabled but left PAUSED.
StartDeployment(d) ==
  \/ SetDep(d, TRUE, "RUNNING")
  \/ d \in Live /\ SetDep(d, TRUE, "PAUSED")

\* enter_immediately_on_start, or a forced flatten before continuing: the start
\* and its job are one transaction.
StartWithJob(d, j) ==
  /\ DeploymentOf[j] = d
  /\ j \notin FlattenJob
  /\ Becomes(d, TRUE, "RUNNING")
  /\ Insert(j)
  /\ UNCHANGED <<lock, worker, evals, faults>>

StopDeployment(d) == SetDep(d, FALSE, "STOPPED")
PauseDeployment(d) == SetDep(d, dep[d].enabled, "PAUSED")

\* A new configuration stops the deployment and leaves it enabled.
UpdateDeployment(d) == SetDep(d, dep[d].enabled, "STOPPED")

Aged(row) ==
  [row EXCEPT !.wait = Less(@, 1),
              !.age = IF row.status = "RUNNING" /\ @ <= RunTTL THEN @ + 1 ELSE @]

InRun(w) == worker[w].pc \in {"evaluating", "failing"}

Tick ==
  /\ \A w \in Worker : InRun(w) => worker[w].age < MaxEval
  /\ job' = [j \in Job |-> Aged(job[j])]
  /\ lock' = [d \in Deployment |-> [lock[d] EXCEPT !.left = Less(@, 1)]]
  /\ worker' = [w \in Worker |-> IF InRun(w) THEN [worker[w] EXCEPT !.age = @ + 1]
                                             ELSE worker[w]]
  /\ UNCHANGED <<nextId, dep, evals, faults>>

-----------------------------------------------------------------------------
Claim(w, j) ==
  \/ ClaimLocked(w, j)
  \/ ClaimSkipped(w, j)
  \/ EvaluateAtOnce(w, j)
  \/ RaiseAtOnce(w, j)
  \/ FetchCandles(w, j)
  \/ FetchConflict(w, j)

Finish(w) == CommitEvaluation(w) \/ RaiseInFlight(w) \/ ReportError(w)

Break(w) == LoseErrorReport(w) \/ Crash(w) \/ ThreadDies(w)

Operate(d) ==
  \/ StartDeployment(d)
  \/ \E j \in Job : StartWithJob(d, j)
  \/ StopDeployment(d)
  \/ PauseDeployment(d)
  \/ UpdateDeployment(d)

Next ==
  \/ \E j \in Job : EnqueueJob(j)
  \/ \E w \in Worker, j \in Job : Claim(w, j)
  \/ \E w \in Worker : Finish(w)
  \/ \E w \in Worker : Break(w)
  \/ Sweep
  \/ \E d \in Deployment : Operate(d)
  \/ Tick

Spec == Init /\ [][Next]_vars

\* Every loop keeps polling, a run that has begun ends, and time passes.
Fairness ==
  /\ \A w \in Worker : WF_vars(\E j \in Job : Claim(w, j))
  /\ \A w \in Worker : WF_vars(Finish(w))
  /\ WF_vars(Sweep)
  /\ WF_vars(Tick)

FairSpec == Spec /\ Fairness

-----------------------------------------------------------------------------
(* Properties *)

\* Every row, lease and thread holds a value the code can write, and a thread
\* inside a run always knows its job.
TypeOK ==
  /\ job \in [Job -> JobRow]
  /\ nextId \in Nat
  /\ lock \in [Deployment -> LockRow]
  /\ dep \in [Deployment -> DepRow]
  /\ worker \in [Worker -> WorkerState]
  /\ \A w \in Worker : InRun(w) => worker[w].job \in Job
  /\ evals \in [Job -> Nat]
  /\ faults \in 0 .. MaxFaults

Evaluating(w, d) == worker[w].pc = "evaluating" /\ DeploymentOf[worker[w].job] = d

\* A deployment is evaluated by one worker at a time: the lease taken with the
\* claim outlasts the run it covers (acquire_deployment_lock, execute_job_once).
OneWorkerPerDeployment ==
  \A v, w \in Worker, d \in Deployment :
    Evaluating(v, d) /\ Evaluating(w, d) => v = w

\* The lease of a running evaluation is still the evaluator's own, with the
\* ticks of its run deducted: what the mutual exclusion rests on.
LeaseCoversRun ==
  \A w \in Worker, d \in Deployment :
    Evaluating(w, d) =>
      /\ lock[d].by = WorkerId[w]
      /\ lock[d].left + worker[w].age = LockTTL + 1

\* Every committed evaluation of a job beyond the first was paid for by an
\* attempt, so a job is never evaluated over and over for nothing
\* (mark_job_error, mark_job_done).
AttemptsPayForEvaluations ==
  \A j \in Job :
    evals[j] <= job[j].attempts + (IF job[j].status = "DONE" THEN 1 ELSE 0)

\* A finished job stays finished: DONE is never taken back and nothing is
\* evaluated for it again (the lifecycle QUEUED -> RUNNING -> DONE / FAILED).
DoneIsFinal ==
  [][\A j \in Job : job[j].status = "DONE" => job'[j].status = "DONE"]_vars

\* While a deployment is paused nothing but its flatten window is evaluated.
NothingEvaluatedWhilePaused ==
  [][\A j \in Job \ FlattenJob :
       dep[DeploymentOf[j]].status = "PAUSED" => evals'[j] = evals[j]]_vars

Finished(j) == job[j].status \in {"DONE", "FAILED"}
AllDead == \A w \in Worker : worker[w].pc = "dead"

\* Whatever crashes, raises or blocks, a queued or running job is some day done
\* or given up, as long as a worker thread is alive (sweep_once, the backoff,
\* max_attempts).
EveryJobFinishes ==
  \A j \in Job :
    job[j].status \in {"PENDING", "RUNNING"} ~> (Finished(j) \/ AllDead)

\* What the queue promises: each job is evaluated at most once, and never after
\* it was skipped or given up.
Phase(j) == IF job[j].status = "RUNNING" THEN "PENDING" ELSE job[j].status

Ledger == INSTANCE JobLedger WITH phase <- [j \in Job |-> Phase(j)], evaluated <- evals
KeepsLedger == Ledger!Spec
=============================================================================
