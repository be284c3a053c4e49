------------------------ MODULE DeploymentJobsProofs ------------------------
(* Theorems about DeploymentJobs, for every value of its constants. *)
EXTENDS DeploymentJobs, TLAPS

USE DEF Ids

-----------------------------------------------------------------------------
(* What the row helpers return *)

\* The natural subtraction of the model stays within its first argument.
LEMMA LessType ==
  ASSUME NEW B \in Nat, NEW m \in 0 .. B, NEW n \in Nat
  PROVE  Less(m, n) \in 0 .. B
BY DEF Less

\* The ranges of the row's clocks contain what the helpers write.
LEMMA Ranges ==
  /\ RunTTL \in Nat /\ MaxBackoff \in Nat /\ MaxAttempts \in Nat
  /\ LockTTL \in Nat /\ MaxEval \in Nat /\ MaxFaults \in Nat
  /\ 0 \in 0 .. MaxBackoff
  /\ 0 \in 0 .. RunTTL + 1
  /\ 0 \in 0 .. LockTTL + 1 /\ LockTTL + 1 \in 0 .. LockTTL + 1
  /\ 0 \in 0 .. MaxEval
  /\ 0 \in 0 .. MaxFaults
BY ConstantsAssumption

\* Every helper of deployment_jobs.py writes a well-formed row.
LEMMA RowType ==
  ASSUME NEW row \in JobRow, NEW e \in Nat
  PROVE  /\ MarkJobError(row, e) \in JobRow
         /\ MarkJobDone(row) \in JobRow
         /\ Requeue(row) \in JobRow
         /\ Aged(row) \in JobRow
<1>1. /\ RunTTL \in Nat /\ MaxBackoff \in Nat
      /\ 0 \in 0 .. MaxBackoff /\ 0 \in 0 .. RunTTL + 1
  BY Ranges
<1>2. MarkJobError(row, e) \in JobRow
  <2>1. Backoff(row.attempts + 1) \in 0 .. MaxBackoff
    BY <1>1 DEF Backoff
  <2>2. Less(Backoff(row.attempts + 1), e) \in 0 .. MaxBackoff
    BY <1>1, <2>1, LessType
  <2>3. /\ row.attempts + 1 \in Nat
        /\ row = [status |-> row.status, id |-> row.id, attempts |-> row.attempts,
                  wait |-> row.wait, age |-> row.age]
    BY DEF JobRow
  <2> QED BY <1>1, <2>2, <2>3 DEF MarkJobError, JobRow
<1>3. MarkJobDone(row) \in JobRow
  BY <1>1 DEF MarkJobDone, JobRow
<1>4. Requeue(row) \in JobRow
  BY <1>1 DEF Requeue, JobRow
<1>5. Aged(row) \in JobRow
  <2>1. Less(row.wait, 1) \in 0 .. MaxBackoff
    BY <1>1, LessType DEF JobRow
  <2>2. /\ row.age \in 0 .. RunTTL + 1
        /\ row.age <= RunTTL => row.age + 1 \in 0 .. RunTTL + 1
    BY <1>1 DEF JobRow
  <2> QED BY <2>1, <2>2 DEF Aged, JobRow
<1> QED BY <1>2, <1>3, <1>4, <1>5

\* The first value of every variable.
LEMMA InitType == Init => TypeOK
<1> SUFFICES ASSUME Init PROVE TypeOK
  OBVIOUS
<1>1. NoRow \in JobRow /\ Unlocked \in LockRow /\ Idle \in WorkerState
  BY Ranges DEF NoRow, JobRow, Unlocked, LockRow, Idle, WorkerState
<1>2. {Started, Stopped} \subseteq DepRow
  BY DEF Started, Stopped, DepRow
<1>3. \A w \in Worker : ~InRun(w)
  BY DEF Init, InRun, Idle
<1> QED BY <1>1, <1>2, <1>3, Ranges DEF Init, TypeOK

\* Inserting a job's row, as every producer does.
LEMMA InsertType ==
  ASSUME TypeOK, NEW j \in Job, Insert(j)
  PROVE  job' \in [Job -> JobRow] /\ nextId' \in Nat
<1>1. [NoRow EXCEPT !.status = "PENDING", !.id = nextId] \in JobRow
  BY Ranges DEF TypeOK, NoRow, JobRow
<1> QED BY <1>1 DEF TypeOK, Insert

\* A worker that turns to (or away from) a job.
LEMMA WorkerType ==
  ASSUME TypeOK, NEW w \in Worker, NEW s \in WorkerState,
         s.pc \in {"evaluating", "failing"} => s.job \in Job,
         worker' = [worker EXCEPT ![w] = s]
  PROVE  /\ worker' \in [Worker -> WorkerState]
         /\ \A v \in Worker : InRun(v)' => worker'[v].job \in Job
BY DEF TypeOK, InRun

LEMMA LockType ==
  ASSUME TypeOK, NEW d \in Deployment, NEW w \in Worker
  PROVE  /\ LeaseTo(w) \in LockRow
         /\ Unlocked \in LockRow
         /\ ReleaseLock(d, w) => lock' \in [Deployment -> LockRow]
BY Ranges DEF TypeOK, LeaseTo, Unlocked, LockRow, ReleaseLock

-----------------------------------------------------------------------------
(* Type correctness *)

LEMMA TypeStep == TypeOK /\ [Next]_vars => TypeOK'
<1> SUFFICES ASSUME TypeOK, [Next]_vars PROVE TypeOK'
  OBVIOUS
<1> USE ConstantsAssumption
<1>1. ASSUME NEW j \in Job, EnqueueJob(j) PROVE TypeOK'
  BY <1>1, InsertType DEF TypeOK, EnqueueJob, InRun
<1>2. ASSUME NEW w \in Worker, NEW j \in Job, Claim(w, j) PROVE TypeOK'
  <2> DEFINE d == DeploymentOf[j]
  <2>0. d \in Deployment /\ job[j] \in JobRow /\ worker[w] \in WorkerState
    BY DEF TypeOK
  <2>1. CASE ClaimLocked(w, j)
    <3>1. MarkJobError(job[j], 0) \in JobRow
      BY <2>0, RowType
    <3> QED BY <2>1, <3>1 DEF ClaimLocked, TypeOK, InRun
  <2>2. CASE ClaimSkipped(w, j)
    BY <2>0, <2>2, RowType, LockType DEF ClaimSkipped, TypeOK, InRun
  <2>3. CASE EvaluateAtOnce(w, j)
    BY <2>0, <2>3, RowType, LockType DEF EvaluateAtOnce, TypeOK, InRun
  <2>4. ASSUME NEW pc \in {"evaluating", "failing"}, Busy(w, pc, j)
        PROVE  /\ worker' \in [Worker -> WorkerState]
               /\ \A v \in Worker : InRun(v)' => worker'[v].job \in Job
    BY <2>4, Ranges, WorkerType DEF Busy, WorkerState
  <2>5. CASE RaiseAtOnce(w, j)
    BY <2>4, <2>5 DEF RaiseAtOnce, TypeOK
  <2>6. CASE FetchCandles(w, j)
    <3>1. [job[j] EXCEPT !.status = "RUNNING", !.age = 0] \in JobRow
      BY <2>0, Ranges DEF JobRow
    <3> QED BY <2>0, <2>4, <2>6, <3>1, LockType DEF FetchCandles, TypeOK
  <2>7. CASE FetchConflict(w, j)
    BY <2>4, <2>7 DEF FetchConflict, TypeOK
  <2> QED BY <1>2, <2>1, <2>2, <2>3, <2>5, <2>6, <2>7 DEF Claim
<1>3. ASSUME NEW w \in Worker, Rest(w)
      PROVE  /\ worker' \in [Worker -> WorkerState]
             /\ \A v \in Worker : InRun(v)' => worker'[v].job \in Job
  <2>1. Idle \in WorkerState
    BY Ranges DEF Idle, WorkerState
  <2> QED BY <1>3, <2>1, WorkerType DEF Rest, Idle
<1>4. ASSUME NEW w \in Worker, Finish(w) PROVE TypeOK'
  <2> DEFINE j == worker[w].job
  <2>0. InRun(w) /\ j \in Job /\ DeploymentOf[j] \in Deployment /\ worker[w].age \in Nat
    BY <1>4 DEF Finish, CommitEvaluation, RaiseInFlight, ReportError, TypeOK, InRun,
                WorkerState
  <2>1. CASE CommitEvaluation(w)
    <3>1. MarkJobDone(job[j]) \in JobRow
      BY <2>0, RowType DEF TypeOK
    <3> QED BY <1>3, <2>0, <2>1, <3>1, LockType DEF CommitEvaluation, TypeOK
  <2>2. CASE RaiseInFlight(w)
    BY <2>0, <2>2 DEF RaiseInFlight, TypeOK, WorkerState, InRun
  <2>3. CASE ReportError(w)
    <3>1. MarkJobError(job[j], worker[w].age) \in JobRow
      BY <2>0, RowType DEF TypeOK
    <3> QED BY <1>3, <2>0, <2>3, <3>1, LockType DEF ReportError, TypeOK
  <2> QED BY <1>4, <2>1, <2>2, <2>3 DEF Finish
<1>5. ASSUME NEW w \in Worker, Break(w) PROVE TypeOK'
  <2>1. faults' \in 0 .. MaxFaults
    BY <1>5 DEF Break, LoseErrorReport, Crash, ThreadDies, Fault, TypeOK
  <2>2. CASE LoseErrorReport(w) \/ Crash(w)
    BY <1>3, <2>1, <2>2 DEF LoseErrorReport, Crash, TypeOK
  <2>3. CASE ThreadDies(w)
    BY <2>1, <2>3 DEF ThreadDies, TypeOK, WorkerState, InRun
  <2> QED BY <1>5, <2>2, <2>3 DEF Break
<1>6. CASE Sweep
  <2>1. \A j \in Job : Requeue(job[j]) \in JobRow
    BY RowType DEF TypeOK
  <2>2. Unlocked \in LockRow
    BY Ranges DEF Unlocked, LockRow
  <2> QED BY <1>6, <2>1, <2>2 DEF Sweep, TypeOK, InRun
<1>7. ASSUME NEW d \in Deployment, Operate(d) PROVE TypeOK'
  <2>1. ASSUME NEW e \in BOOLEAN, NEW s \in {"RUNNING", "PAUSED", "STOPPED"},
               Becomes(d, e, s)
        PROVE  dep' \in [Deployment -> DepRow]
    BY <2>1 DEF Becomes, DepRow, TypeOK
  <2>2. dep[d].enabled \in BOOLEAN
    BY DEF TypeOK, DepRow
  <2>3. ASSUME NEW j \in Job, StartWithJob(d, j) PROVE TypeOK'
    BY <2>1, <2>3, InsertType DEF StartWithJob, TypeOK, InRun
  <2>4. CASE StartDeployment(d)
    BY <2>1, <2>4 DEF StartDeployment, SetDep, TypeOK, InRun
  <2>5. CASE StopDeployment(d)
    BY <2>1, <2>5 DEF StopDeployment, SetDep, TypeOK, InRun
  <2>6. CASE PauseDeployment(d)
    BY <2>1, <2>2, <2>6 DEF PauseDeployment, SetDep, TypeOK, InRun
  <2>7. CASE UpdateDeployment(d)
    BY <2>1, <2>2, <2>7 DEF UpdateDeployment, SetDep, TypeOK, InRun
  <2> QED BY <1>7, <2>3, <2>4, <2>5, <2>6, <2>7 DEF Operate
<1>8. CASE Tick
  <2>1. job' \in [Job -> JobRow]
    <3>1. \A j \in Job : Aged(job[j]) \in JobRow
      BY RowType DEF TypeOK
    <3> QED BY <1>8, <3>1 DEF Tick
  <2>2. lock' \in [Deployment -> LockRow]
    <3>1. ASSUME NEW d \in Deployment PROVE Less(lock[d].left, 1) \in 0 .. LockTTL + 1
      <4>1. lock[d].left \in 0 .. LockTTL + 1 /\ LockTTL + 1 \in Nat
        BY Ranges DEF TypeOK, LockRow
      <4> QED BY <4>1, LessType
    <3>2. \A d \in Deployment : [lock[d] EXCEPT !.left = Less(@, 1)] \in LockRow
      BY <3>1 DEF TypeOK, LockRow
    <3> QED BY <1>8, <3>2 DEF Tick
  <2>3. /\ worker' \in [Worker -> WorkerState]
        /\ \A v \in Worker : InRun(v)' => worker'[v].job \in Job
    BY <1>8 DEF Tick, TypeOK, InRun, WorkerState
  <2> QED BY <1>8, <2>1, <2>2, <2>3 DEF Tick, TypeOK
<1>9. CASE UNCHANGED vars
  BY <1>9 DEF vars, TypeOK, InRun
<1> QED BY <1>1, <1>2, <1>4, <1>5, <1>6, <1>7, <1>8, <1>9 DEF Next

\* Every reachable row, lease and thread state is one the code can write.
THEOREM TypeCorrect == Spec => []TypeOK
<1>1. Init => TypeOK
  BY InitType
<1>2. TypeOK /\ [Next]_vars => TypeOK'
  BY TypeStep
<1> QED BY <1>1, <1>2, PTL DEF Spec

-----------------------------------------------------------------------------
(* Mutual exclusion of evaluations, when every thread has an id of its own, no *)
(* run outlasts its lease, and no other process stores the same candles.       *)

OwnLease ==
  /\ \A v, w \in Worker : WorkerId[v] = WorkerId[w] => v = w
  /\ MaxEval <= LockTTL
  /\ CandleConflict = FALSE

LEMMA LeaseImpliesExclusion ==
  ASSUME OwnLease, LeaseCoversRun PROVE OneWorkerPerDeployment
BY DEF OwnLease, LeaseCoversRun, OneWorkerPerDeployment, Evaluating

\* A run covered by its lease keeps every other claim out of its deployment.
LEMMA CoveredIsLocked ==
  ASSUME OwnLease, TypeOK, LeaseCoversRun, NEW w \in Worker, NEW d \in Deployment,
         Evaluating(w, d)
  PROVE  ~LockFree(d)
<1>1. worker[w].age \in 0 .. MaxEval /\ lock[d].left + worker[w].age = LockTTL + 1
  BY DEF TypeOK, WorkerState, LeaseCoversRun
<1>2. lock[d].left \in Nat
  BY Ranges DEF TypeOK, LockRow
<1> QED BY <1>1, <1>2, Ranges DEF OwnLease, LockFree

\* A step that moves no thread into an evaluation and touches only leases nobody
\* evaluates under keeps the leases in force.
LEMMA LeaseFrame ==
  ASSUME LeaseCoversRun,
         \A w \in Worker : worker'[w].pc = "evaluating" => worker'[w] = worker[w],
         \A w \in Worker, d \in Deployment :
           Evaluating(w, d) /\ worker'[w] = worker[w] => lock'[d] = lock[d]
  PROVE  LeaseCoversRun'
BY DEF LeaseCoversRun, Evaluating

LEMMA LeaseStep ==
  ASSUME OwnLease PROVE TypeOK /\ LeaseCoversRun /\ [Next]_vars => LeaseCoversRun'
<1> SUFFICES ASSUME TypeOK, LeaseCoversRun, [Next]_vars PROVE LeaseCoversRun'
  OBVIOUS
<1>1. ASSUME UNCHANGED <<lock, worker>> PROVE LeaseCoversRun'
  BY <1>1 DEF LeaseCoversRun, Evaluating
<1>2. ASSUME NEW w \in Worker, NEW j \in Job, Claim(w, j) PROVE LeaseCoversRun'
  <2> DEFINE d == DeploymentOf[j]
  <2>1. d \in Deployment /\ worker[w].pc = "idle"
    BY <1>2, ConstantsAssumption
    DEF Claim, ClaimLocked, ClaimSkipped, EvaluateAtOnce, RaiseAtOnce, FetchCandles,
        FetchConflict, Evaluable, Claimable
  <2>2. ASSUME LockFree(d), NEW l, lock' = [lock EXCEPT ![d] = l]
        PROVE  \A v \in Worker, e \in Deployment : Evaluating(v, e) => lock'[e] = lock[e]
    BY <2>1, <2>2, CoveredIsLocked DEF TypeOK
  <2>3. CASE ClaimLocked(w, j)
    BY <1>1, <2>3 DEF ClaimLocked
  <2>4. CASE ClaimSkipped(w, j)
    <3>1. LockFree(d) /\ lock' = [lock EXCEPT ![d] = Unlocked] /\ worker' = worker
      BY <2>4 DEF ClaimSkipped
    <3> QED BY <2>2, <3>1, LeaseFrame
  <2>5. CASE EvaluateAtOnce(w, j)
    <3>1. LockFree(d) /\ lock' = [lock EXCEPT ![d] = Unlocked] /\ worker' = worker
      BY <2>5 DEF EvaluateAtOnce, Evaluable
    <3> QED BY <2>2, <3>1, LeaseFrame
  <2>6. CASE RaiseAtOnce(w, j)
    BY <2>6, LeaseFrame DEF RaiseAtOnce, Busy, TypeOK
  <2>7. CASE FetchCandles(w, j)
    <3>1. LockFree(d) /\ lock' = [lock EXCEPT ![d] = LeaseTo(w)]
      BY <2>7 DEF FetchCandles, Evaluable
    <3>2. worker' = [worker EXCEPT ![w] = [pc |-> "evaluating", job |-> j, age |-> 0]]
      BY <2>7 DEF FetchCandles, Busy
    <3> SUFFICES ASSUME NEW v \in Worker, NEW e \in Deployment, Evaluating(v, e)'
                 PROVE  /\ lock'[e].by = WorkerId[v]
                        /\ lock'[e].left + worker'[v].age = LockTTL + 1
      BY DEF LeaseCoversRun
    <3>3. CASE v = w
      <4>1. worker'[v] = [pc |-> "evaluating", job |-> j, age |-> 0] /\ e = d
        BY <3>2, <3>3 DEF Evaluating, TypeOK
      <4>2. lock'[e] = [by |-> WorkerId[v], left |-> LockTTL + 1]
        BY <2>1, <3>1, <3>3, <4>1 DEF LeaseTo, TypeOK
      <4>3. /\ worker'[v].age = 0
            /\ lock'[e].by = WorkerId[v] /\ lock'[e].left = LockTTL + 1
        BY <4>1, <4>2
      <4>4. LockTTL + 1 + 0 = LockTTL + 1
        BY Ranges
      <4> QED BY <4>3, <4>4
    <3>4. CASE v # w
      <4>1. worker'[v] = worker[v] /\ Evaluating(v, e)
        BY <3>2, <3>4 DEF Evaluating, TypeOK
      <4>2. lock'[e] = lock[e]
        BY <2>2, <3>1, <4>1
      <4> QED BY <4>1, <4>2 DEF LeaseCoversRun
    <3> QED BY <3>3, <3>4
  <2>8. CASE FetchConflict(w, j)
    BY <2>8 DEF FetchConflict, OwnLease
  <2> QED BY <1>2, <2>3, <2>4, <2>5, <2>6, <2>7, <2>8 DEF Claim
<1>3. ASSUME NEW w \in Worker, NEW d \in Deployment, NEW s, s.pc # "evaluating",
             ReleaseLock(d, w), worker' = [worker EXCEPT ![w] = s]
      PROVE  LeaseCoversRun'
  <2>1. ASSUME NEW v \in Worker, NEW e \in Deployment, Evaluating(v, e), v # w
        PROVE  lock'[e] = lock[e]
    <3>1. lock[e].by = WorkerId[v] /\ WorkerId[v] # WorkerId[w]
      BY <2>1 DEF LeaseCoversRun, OwnLease
    <3> QED BY <1>3, <3>1 DEF ReleaseLock, TypeOK
  <2>2. \A v \in Worker : v # w => worker'[v] = worker[v]
    BY <1>3 DEF TypeOK
  <2>3. worker'[w].pc # "evaluating"
    BY <1>3 DEF TypeOK
  <2> QED BY <2>1, <2>2, <2>3 DEF LeaseCoversRun, Evaluating
<1>4. ASSUME NEW w \in Worker, Finish(w) PROVE LeaseCoversRun'
  <2> DEFINE j == worker[w].job
  <2>0. DeploymentOf[j] \in Deployment
    BY <1>4, ConstantsAssumption
    DEF Finish, CommitEvaluation, RaiseInFlight, ReportError, TypeOK, InRun
  <2>1. CASE CommitEvaluation(w) \/ ReportError(w)
    BY <1>3, <2>0, <2>1 DEF CommitEvaluation, ReportError, Rest, Idle
  <2>2. CASE RaiseInFlight(w)
    BY <2>2, LeaseFrame DEF RaiseInFlight, TypeOK
  <2> QED BY <1>4, <2>1, <2>2 DEF Finish
<1>5. ASSUME NEW w \in Worker, Break(w) PROVE LeaseCoversRun'
  <2>1. lock' = lock
    BY <1>5 DEF Break, LoseErrorReport, Crash, ThreadDies
  <2>2. PICK s : s.pc # "evaluating" /\ worker' = [worker EXCEPT ![w] = s]
    <3>1. CASE LoseErrorReport(w) \/ Crash(w)
      BY <3>1 DEF LoseErrorReport, Crash, Rest, Idle
    <3>2. CASE ThreadDies(w)
      <4>1. worker' = [worker EXCEPT ![w] = [worker[w] EXCEPT !.pc = "dead"]]
        BY <3>2 DEF ThreadDies
      <4>2. [worker[w] EXCEPT !.pc = "dead"].pc = "dead"
        BY DEF TypeOK, WorkerState
      <4> QED BY <4>1, <4>2
    <3> QED BY <1>5, <3>1, <3>2 DEF Break
  <2> QED BY <2>1, <2>2, LeaseFrame DEF TypeOK
<1>6. CASE Sweep
  <2>1. \A w \in Worker, d \in Deployment : Evaluating(w, d) => lock'[d] = lock[d]
    BY <1>6, CoveredIsLocked DEF Sweep
  <2> QED BY <1>6, <2>1, LeaseFrame DEF Sweep
<1>7. CASE Tick
  <2> SUFFICES ASSUME NEW w \in Worker, NEW d \in Deployment, Evaluating(w, d)'
               PROVE  /\ lock'[d].by = WorkerId[w]
                      /\ lock'[d].left + worker'[w].age = LockTTL + 1
    BY DEF LeaseCoversRun
  <2>1. Evaluating(w, d) /\ worker'[w] = [worker[w] EXCEPT !.age = @ + 1]
    BY <1>7 DEF Tick, TypeOK, Evaluating, InRun
  <2>2. lock'[d] = [lock[d] EXCEPT !.left = Less(@, 1)]
    BY <1>7 DEF Tick
  <2>3. lock[d].left \in Nat /\ lock[d].left # 0 /\ worker[w].age \in Nat
    BY <2>1, CoveredIsLocked, Ranges DEF TypeOK, LockRow, WorkerState, LockFree
  <2>4. Less(lock[d].left, 1) = lock[d].left - 1
    BY <2>3 DEF Less
  <2>5. lock[d].by = WorkerId[w] /\ lock[d].left + worker[w].age = LockTTL + 1
    BY <2>1 DEF LeaseCoversRun
  <2>6. lock[d] \in LockRow /\ worker[w] \in WorkerState
    BY DEF TypeOK
  <2> QED BY <2>1, <2>2, <2>3, <2>4, <2>5, <2>6, Ranges DEF LockRow, WorkerState
<1>8. CASE \/ \E j \in Job : EnqueueJob(j)
           \/ \E d \in Deployment : Operate(d)
           \/ UNCHANGED vars
  BY <1>1, <1>8
  DEF EnqueueJob, Operate, StartDeployment, StartWithJob, StopDeployment,
      PauseDeployment, UpdateDeployment, SetDep, vars
<1> QED BY <1>2, <1>4, <1>5, <1>6, <1>7, <1>8 DEF Next

\* The lease of a deployment is in the hands of whoever evaluates it, less the ticks
\* the run has taken, whatever crashes or raises.
THEOREM LeaseInForce ==
  ASSUME OwnLease PROVE Spec => []LeaseCoversRun
<1>1. Init => LeaseCoversRun
  BY DEF Init, LeaseCoversRun, Evaluating, Idle
<1>2. TypeOK /\ LeaseCoversRun /\ [Next]_vars => LeaseCoversRun'
  BY LeaseStep
<1> QED BY <1>1, <1>2, TypeCorrect, PTL DEF Spec

\* One worker at a time evaluates a deployment, whatever crashes or raises.
THEOREM MutualExclusion ==
  ASSUME OwnLease PROVE Spec => []OneWorkerPerDeployment
<1>1. LeaseCoversRun => OneWorkerPerDeployment
  BY LeaseImpliesExclusion
<1> QED BY <1>1, LeaseInForce, PTL

-----------------------------------------------------------------------------
(* Re-evaluation is paid for by attempts, under the same assumptions *)

\* A job in evaluation has so far been evaluated no more often than it has
\* spent attempts: its commit is the one evaluation still to be accounted for.
Accounted ==
  /\ AttemptsPayForEvaluations
  /\ \A w \in Worker : worker[w].pc = "evaluating" =>
       evals[worker[w].job] <= job[worker[w].job].attempts
  /\ \A j \in Job : job[j].status = "ABSENT" => evals[j] = 0

\* Attempts only grow.
LEMMA AttemptsGrow ==
  ASSUME NEW row \in JobRow, NEW e \in Nat
  PROVE  /\ MarkJobError(row, e).attempts = row.attempts + 1
         /\ MarkJobError(row, e).status # "ABSENT"
         /\ MarkJobDone(row).attempts = row.attempts
         /\ MarkJobDone(row).status = "DONE"
         /\ Requeue(row).attempts = row.attempts
         /\ Requeue(row).status # "ABSENT"
         /\ Aged(row).attempts = row.attempts
         /\ Aged(row).status = row.status
BY DEF JobRow, MarkJobError, MarkJobDone, Requeue, Aged

\* A step that evaluates nothing, begins nothing and leaves every job as finished
\* as it was, or with one attempt more, keeps the account.
LEMMA AccountFrame ==
  ASSUME TypeOK, TypeOK', Accounted, evals' = evals,
         \A j \in Job :
           \/ job'[j].attempts = job[j].attempts + 1
           \/ /\ job'[j].attempts = job[j].attempts
              /\ job[j].status = "DONE" => job'[j].status = "DONE",
         \A j \in Job : job'[j].status = "ABSENT" => job[j].status = "ABSENT",
         \A w \in Worker : worker'[w].pc = "evaluating" =>
           worker[w].pc = "evaluating" /\ worker'[w].job = worker[w].job
  PROVE  Accounted'
<1>1. \A j \in Job : /\ job[j].attempts \in Nat /\ job'[j].attempts \in Nat
                     /\ evals[j] \in Nat
  BY DEF TypeOK, JobRow
<1>2. AttemptsPayForEvaluations'
  <2> SUFFICES ASSUME NEW j \in Job
               PROVE  evals[j] <= job'[j].attempts + (IF job'[j].status = "DONE" THEN 1 ELSE 0)
    BY DEF AttemptsPayForEvaluations
  <2>1. evals[j] <= job[j].attempts + (IF job[j].status = "DONE" THEN 1 ELSE 0)
    BY DEF Accounted, AttemptsPayForEvaluations
  <2>2. CASE job'[j].attempts = job[j].attempts + 1
    BY <1>1, <2>1, <2>2
  <2>3. CASE /\ job'[j].attempts = job[j].attempts
             /\ job[j].status = "DONE" => job'[j].status = "DONE"
    BY <1>1, <2>1, <2>3
  <2> QED BY <2>2, <2>3
<1>3. \A w \in Worker : worker'[w].pc = "evaluating" => worker[w].job \in Job
  BY DEF TypeOK, InRun
<1>4. ASSUME NEW w \in Worker, worker'[w].pc = "evaluating"
      PROVE  evals[worker'[w].job] <= job'[worker'[w].job].attempts
  <2> DEFINE j == worker[w].job
  <2>1. j \in Job /\ worker'[w].job = j /\ evals[j] <= job[j].attempts
    BY <1>3, <1>4 DEF Accounted
  <2>2. job'[j].attempts = job[j].attempts \/ job'[j].attempts = job[j].attempts + 1
    BY <2>1
  <2> QED BY <1>1, <2>1, <2>2
<1> QED BY <1>2, <1>4 DEF Accounted

\* The transaction that evaluates job j and closes it keeps the account, if no
\* thread is left evaluating j.
LEMMA AccountEvaluation ==
  ASSUME TypeOK, Accounted, NEW j \in Job, evals[j] <= job[j].attempts,
         evals' = [evals EXCEPT ![j] = @ + 1],
         job' = [job EXCEPT ![j] = MarkJobDone(@)],
         \A w \in Worker : worker'[w].pc = "evaluating" =>
           /\ worker[w].pc = "evaluating" /\ worker'[w].job = worker[w].job
           /\ worker[w].job \in Job \ {j}
  PROVE  Accounted'
<1>1. /\ job'[j].attempts = job[j].attempts /\ job'[j].status = "DONE"
      /\ evals'[j] = evals[j] + 1
  BY AttemptsGrow DEF TypeOK
<1>2. \A k \in Job \ {j} : job'[k] = job[k] /\ evals'[k] = evals[k]
  BY DEF TypeOK
<1>3. \A k \in Job : job[k].attempts \in Nat /\ evals[k] \in Nat
  BY DEF TypeOK, JobRow
<1> QED BY <1>1, <1>2, <1>3 DEF Accounted, AttemptsPayForEvaluations

LEMMA AccountStep ==
  ASSUME OwnLease
  PROVE  TypeOK /\ LeaseCoversRun /\ Accounted /\ [Next]_vars => Accounted'
<1> SUFFICES ASSUME TypeOK, LeaseCoversRun, Accounted, [Next]_vars PROVE Accounted'
  OBVIOUS
<1>0. TypeOK'
  BY TypeStep
<1>1. ASSUME UNCHANGED <<job, worker, evals>> PROVE Accounted'
  BY <1>1 DEF Accounted, AttemptsPayForEvaluations
<1>2. ASSUME NEW j \in Job, Insert(j), UNCHANGED <<worker, evals>> PROVE Accounted'
  <2>1. /\ job'[j].attempts = 0 /\ job'[j].status = "PENDING"
        /\ \A k \in Job \ {j} : job'[k] = job[k]
    BY <1>2 DEF Insert, NoRow, TypeOK
  <2>2. evals[j] = 0
    BY <1>2 DEF Insert, Accounted
  <2>3. \A w \in Worker : worker[w].pc = "evaluating" => worker[w].job \in Job
    BY DEF TypeOK, InRun
  <2> QED BY <1>2, <2>1, <2>2, <2>3 DEF Accounted, AttemptsPayForEvaluations
<1>3. ASSUME NEW w \in Worker, NEW j \in Job, Claim(w, j) PROVE Accounted'
  <2>1. job[j] \in JobRow /\ evals[j] \in Nat /\ job[j].attempts \in Nat
    BY DEF TypeOK, JobRow
  <2>2. job[j].status = "PENDING" /\ evals[j] <= job[j].attempts
    <3>1. job[j].status = "PENDING"
      BY <1>3 DEF Claim, ClaimLocked, ClaimSkipped, EvaluateAtOnce, RaiseAtOnce,
                  FetchCandles, FetchConflict, Evaluable, Claimable, Runnable
    <3> QED BY <2>1, <3>1 DEF Accounted, AttemptsPayForEvaluations
  <2>3. CASE ClaimLocked(w, j)
    <3>1. /\ job'[j].attempts = job[j].attempts + 1
          /\ job'[j].status # "ABSENT"
          /\ \A k \in Job \ {j} : job'[k] = job[k]
      BY <2>1, <2>3, AttemptsGrow DEF ClaimLocked, TypeOK
    <3> QED BY <1>0, <2>3, <3>1, AccountFrame DEF ClaimLocked
  <2>4. CASE ClaimSkipped(w, j)
    <3>1. /\ job'[j].attempts = job[j].attempts /\ job'[j].status = "DONE"
          /\ \A k \in Job \ {j} : job'[k] = job[k]
      BY <2>1, <2>4, AttemptsGrow DEF ClaimSkipped, TypeOK
    <3> QED BY <1>0, <2>4, <3>1, AccountFrame DEF ClaimSkipped
  <2>5. CASE EvaluateAtOnce(w, j)
    <3>1. ASSUME NEW v \in Worker, worker[v].pc = "evaluating"
          PROVE  worker[v].job \in Job \ {j}
      <4>1. worker[v].job \in Job /\ DeploymentOf[worker[v].job] \in Deployment
        BY <3>1, ConstantsAssumption DEF TypeOK, InRun
      <4>2. ~LockFree(DeploymentOf[worker[v].job])
        BY <3>1, <4>1, CoveredIsLocked DEF Evaluating
      <4>3. LockFree(DeploymentOf[j])
        BY <2>5 DEF EvaluateAtOnce, Evaluable
      <4> QED BY <4>1, <4>2, <4>3
    <3>2. /\ evals' = [evals EXCEPT ![j] = @ + 1] /\ worker' = worker
          /\ job' = [job EXCEPT ![j] = MarkJobDone(@)]
      BY <2>5 DEF EvaluateAtOnce
    <3> QED BY <2>2, <3>1, <3>2, AccountEvaluation
  <2>6. CASE RaiseAtOnce(w, j)
    <3>1. \A v \in Worker : worker'[v].pc = "evaluating" => worker'[v] = worker[v]
      BY <2>6 DEF RaiseAtOnce, Busy, TypeOK
    <3> QED BY <1>0, <2>6, <3>1, AccountFrame DEF RaiseAtOnce
  <2>7. CASE FetchCandles(w, j)
    <3>1. /\ job'[j].attempts = job[j].attempts /\ job'[j].status = "RUNNING"
          /\ \A k \in Job \ {j} : job'[k] = job[k]
      BY <2>1, <2>7 DEF FetchCandles, TypeOK, JobRow
    <3>2. /\ worker'[w].job = j
          /\ \A v \in Worker \ {w} : worker'[v] = worker[v]
      BY <2>7 DEF FetchCandles, Busy, TypeOK
    <3>3. AttemptsPayForEvaluations'
      BY <2>1, <2>2, <2>7, <3>1 DEF FetchCandles, Accounted, AttemptsPayForEvaluations
    <3>4. \A v \in Worker \ {w} : worker[v].pc = "evaluating" => worker[v].job \in Job
      BY DEF TypeOK, InRun
    <3> QED BY <2>2, <2>7, <3>1, <3>2, <3>3, <3>4 DEF FetchCandles, Accounted
  <2>8. CASE FetchConflict(w, j)
    BY <2>8 DEF FetchConflict, OwnLease
  <2> QED BY <1>3, <2>3, <2>4, <2>5, <2>6, <2>7, <2>8 DEF Claim
<1>4. ASSUME NEW w \in Worker, Rest(w)
      PROVE  /\ \A v \in Worker \ {w} : worker'[v] = worker[v]
             /\ worker'[w].pc # "evaluating"
  BY <1>4 DEF Rest, Idle, TypeOK
<1>5. ASSUME NEW w \in Worker, Finish(w) PROVE Accounted'
  <2> DEFINE j == worker[w].job
  <2>1. j \in Job /\ job[j] \in JobRow /\ worker[w].age \in Nat
    BY <1>5 DEF Finish, CommitEvaluation, RaiseInFlight, ReportError, TypeOK, InRun,
                WorkerState
  <2>2. CASE CommitEvaluation(w)
    <3>1. ASSUME NEW v \in Worker, v # w, worker[v].pc = "evaluating"
          PROVE  worker[v].job \in Job \ {j}
      <4>1. worker[v].job \in Job /\ DeploymentOf[worker[v].job] \in Deployment
        BY <3>1, ConstantsAssumption DEF TypeOK, InRun
      <4>2. OneWorkerPerDeployment
        BY LeaseImpliesExclusion
      <4> QED BY <2>1, <2>2, <3>1, <4>1, <4>2
           DEF OneWorkerPerDeployment, Evaluating, CommitEvaluation
    <3>2. /\ worker[w].pc = "evaluating" /\ Rest(w)
          /\ evals' = [evals EXCEPT ![j] = @ + 1]
          /\ job' = [job EXCEPT ![j] = MarkJobDone(@)]
      BY <2>2 DEF CommitEvaluation
    <3>3. evals[j] <= job[j].attempts
      BY <3>2 DEF Accounted
    <3> QED BY <1>4, <2>1, <3>1, <3>2, <3>3, AccountEvaluation
  <2>3. CASE RaiseInFlight(w)
    <3>1. \A v \in Worker : worker'[v].pc = "evaluating" => worker'[v] = worker[v]
      BY <2>3 DEF RaiseInFlight, TypeOK
    <3> QED BY <1>0, <2>3, <3>1, AccountFrame DEF RaiseInFlight
  <2>4. CASE ReportError(w)
    <3>1. /\ job'[j].attempts = job[j].attempts + 1
          /\ job'[j].status # "ABSENT"
          /\ \A k \in Job \ {j} : job'[k] = job[k]
      BY <2>1, <2>4, AttemptsGrow DEF ReportError, TypeOK
    <3> QED BY <1>0, <1>4, <2>4, <3>1, AccountFrame DEF ReportError
  <2> QED BY <1>5, <2>2, <2>3, <2>4 DEF Finish
<1>6. ASSUME NEW w \in Worker, Break(w) PROVE Accounted'
  <2>1. job' = job /\ evals' = evals
    BY <1>6 DEF Break, LoseErrorReport, Crash, ThreadDies
  <2>2. \A v \in Worker : worker'[v].pc = "evaluating" => worker'[v] = worker[v]
    <3>1. CASE Rest(w)
      BY <1>4, <3>1
    <3>2. CASE ThreadDies(w)
      BY <3>2 DEF ThreadDies, TypeOK, WorkerState
    <3> QED BY <1>6, <3>1, <3>2 DEF Break, LoseErrorReport, Crash
  <2> QED BY <1>0, <2>1, <2>2, AccountFrame
<1>7. CASE Sweep
  <2>1. ASSUME NEW j \in Job
        PROVE  /\ job'[j].attempts = job[j].attempts
               /\ job'[j].status = "ABSENT" => job[j].status = "ABSENT"
               /\ job[j].status = "DONE" => job'[j].status = "DONE"
    BY <1>7, AttemptsGrow DEF Sweep, Stale, TypeOK
  <2> QED BY <1>0, <1>7, <2>1, AccountFrame DEF Sweep
<1>8. CASE Tick
  <2>1. ASSUME NEW j \in Job
        PROVE  job'[j].attempts = job[j].attempts /\ job'[j].status = job[j].status
    BY <1>8, AttemptsGrow DEF Tick, TypeOK
  <2>2. ASSUME NEW w \in Worker
        PROVE  worker'[w].pc = worker[w].pc /\ worker'[w].job = worker[w].job
    BY <1>8 DEF Tick, TypeOK, WorkerState
  <2> QED BY <1>0, <1>8, <2>1, <2>2, AccountFrame DEF Tick
<1>9. CASE \/ \E j \in Job : EnqueueJob(j)
           \/ \E d \in Deployment : Operate(d)
           \/ UNCHANGED vars
  BY <1>1, <1>2, <1>9
  DEF EnqueueJob, Operate, StartDeployment, StartWithJob, StopDeployment,
      PauseDeployment, UpdateDeployment, SetDep, vars
<1> QED BY <1>3, <1>5, <1>6, <1>7, <1>8, <1>9 DEF Next

\* A job is evaluated more than once only by spending attempts.
THEOREM EvaluationsArePaid ==
  ASSUME OwnLease PROVE Spec => []AttemptsPayForEvaluations
<1>1. Init => LeaseCoversRun /\ Accounted
  BY DEF Init, LeaseCoversRun, Evaluating, Accounted, AttemptsPayForEvaluations, Idle,
         NoRow
<1>2. TypeOK /\ LeaseCoversRun /\ [Next]_vars => LeaseCoversRun'
  BY LeaseStep
<1>3. TypeOK /\ LeaseCoversRun /\ Accounted /\ [Next]_vars => Accounted'
  BY AccountStep
<1>4. Accounted => AttemptsPayForEvaluations
  BY DEF Accounted
<1> QED BY <1>1, <1>2, <1>3, <1>4, TypeCorrect, PTL DEF Spec

-----------------------------------------------------------------------------
(* One worker keeps the ledger: each job is evaluated at most once, however long *)
(* a run takes, whatever the sweeper requeues and whoever stores the candles.    *)

OneWorker == \A v, w \in Worker : v = w

\* The only thread works on a job that is still open, and no open job has been
\* evaluated yet.
SoleRun ==
  /\ \A w \in Worker : InRun(w) => Phase(worker[w].job) = "PENDING"
  /\ \A j \in Job : Phase(j) \in {"ABSENT", "PENDING"} => evals[j] = 0

Phases == [j \in Job |-> Phase(j)]

\* How one row's step shows in the ledger.
LEMMA PhaseOfRow ==
  ASSUME TypeOK, NEW j \in Job, NEW r, job' = [job EXCEPT ![j] = r]
  PROVE  /\ Phases' = [Phases EXCEPT ![j] = IF r.status = "RUNNING" THEN "PENDING"
                                                                     ELSE r.status]
         /\ \A k \in Job \ {j} : Phase(k)' = Phase(k)
BY DEF TypeOK, Phases, Phase

\* The phases the helpers lead to.
LEMMA PhaseOfHelpers ==
  ASSUME NEW row \in JobRow, NEW e \in Nat
  PROVE  /\ MarkJobError(row, e).status \in {"PENDING", "FAILED"}
         /\ MarkJobDone(row).status = "DONE"
         /\ Requeue(row).status = "PENDING"
         /\ Aged(row).status = row.status
BY DEF JobRow, MarkJobError, MarkJobDone, Requeue, Aged

\* Moves of the ledger, as the queue makes them.
LEMMA LedgerMoves ==
  ASSUME NEW j \in Job
  PROVE  /\ /\ Phase(j) = "ABSENT" /\ Phases' = [Phases EXCEPT ![j] = "PENDING"]
            /\ evals' = evals
            => Ledger!Next
         /\ /\ Phase(j) = "PENDING" /\ Phases' = [Phases EXCEPT ![j] = "DONE"]
            /\ evals' = evals \/ (evals[j] = 0 /\ evals' = [evals EXCEPT ![j] = 1])
            => Ledger!Next
         /\ /\ Phase(j) = "PENDING" /\ Phases' = [Phases EXCEPT ![j] = "FAILED"]
            /\ evals' = evals
            => Ledger!Next
BY DEF Ledger!Next, Ledger!Accept, Ledger!Skip, Ledger!GiveUp, Ledger!Evaluate,
       Ledger!Move, Phases

LedgerStep == SoleRun' /\ [Ledger!Next]_<<Phases, evals>>

\* A step of the thread, or of a producer, that writes one row.
LEMMA RowStep ==
  ASSUME TypeOK, SoleRun, NEW j \in Job, NEW r, job' = [job EXCEPT ![j] = r],
         \A w \in Worker : ~InRun(w)' \/ (worker' = worker /\ Phase(j) = "ABSENT"),
         \/ Phase(j) = "ABSENT" /\ r.status = "PENDING" /\ evals' = evals
         \/ /\ Phase(j) = "PENDING" /\ r.status \in {"PENDING", "DONE", "FAILED"}
            /\ evals' = evals
         \/ /\ Phase(j) = "PENDING" /\ r.status = "DONE"
            /\ evals' = [evals EXCEPT ![j] = @ + 1]
  PROVE  LedgerStep
<1> DEFINE p == IF r.status = "RUNNING" THEN "PENDING" ELSE r.status
<1>1. /\ Phases' = [Phases EXCEPT ![j] = p]
      /\ \A k \in Job \ {j} : Phase(k)' = Phase(k)
  BY PhaseOfRow
<1>2. Phase(j)' = p /\ p = r.status
  BY DEF Phase, TypeOK
<1>3. /\ evals[j] = 0
      /\ \A k \in Job \ {j} : evals'[k] = evals[k]
      /\ evals' = evals \/ (r.status = "DONE" /\ evals' = [evals EXCEPT ![j] = 1])
  BY DEF SoleRun, TypeOK
<1>4. SoleRun'
  <2>1. ASSUME NEW w \in Worker, InRun(w)' PROVE (Phase(worker[w].job))' = "PENDING"
    <3>1. worker' = worker /\ InRun(w) /\ Phase(worker[w].job) = "PENDING"
      BY <2>1 DEF SoleRun, InRun
    <3>2. worker[w].job \in Job \ {j}
      BY <2>1, <3>1 DEF TypeOK
    <3> QED BY <1>1, <3>1, <3>2
  <2>2. ASSUME NEW k \in Job, Phase(k)' \in {"ABSENT", "PENDING"} PROVE evals'[k] = 0
    BY <1>1, <1>2, <1>3, <2>2 DEF SoleRun
  <2> QED BY <2>1, <2>2 DEF SoleRun
<1>5. [Ledger!Next]_<<Phases, evals>>
  <2>1. CASE p = "PENDING" /\ Phase(j) = "PENDING"
    BY <1>1, <1>2, <1>3, <2>1 DEF Phases
  <2>2. CASE ~(p = "PENDING" /\ Phase(j) = "PENDING")
    BY <1>1, <1>2, <1>3, <2>2, LedgerMoves
  <2> QED BY <2>1, <2>2
<1> QED BY <1>4, <1>5 DEF LedgerStep

\* A step that leaves every phase and every evaluation alone.
LEMMA QuietStep ==
  ASSUME SoleRun, TypeOK, evals' = evals, \A j \in Job : Phase(j)' = Phase(j),
         \A w \in Worker : InRun(w)' =>
           Phase(worker'[w].job) = "PENDING" /\ worker'[w].job \in Job
  PROVE  LedgerStep
<1>1. Phases' = Phases
  BY DEF Phases
<1>2. SoleRun'
  BY DEF SoleRun
<1> QED BY <1>1, <1>2 DEF LedgerStep

LEMMA SoleStep ==
  ASSUME OneWorker PROVE TypeOK /\ SoleRun /\ [Next]_vars => LedgerStep
<1> SUFFICES ASSUME TypeOK, SoleRun, [Next]_vars PROVE LedgerStep
  OBVIOUS
<1>1. ASSUME UNCHANGED <<job, worker, evals>> PROVE LedgerStep
  BY <1>1, QuietStep DEF Phase, InRun, SoleRun, TypeOK
<1>2. ASSUME NEW j \in Job, Insert(j), UNCHANGED <<worker, evals>> PROVE LedgerStep
  <2> DEFINE r == [NoRow EXCEPT !.status = "PENDING", !.id = nextId]
  <2>1. /\ job' = [job EXCEPT ![j] = r] /\ r.status = "PENDING" /\ Phase(j) = "ABSENT"
    BY <1>2 DEF Insert, NoRow, Phase
  <2> HIDE DEF r
  <2> QED BY <1>2, <2>1, RowStep
<1>3. ASSUME NEW w \in Worker, Rest(w) PROVE \A v \in Worker : ~InRun(v)'
  BY <1>3 DEF OneWorker, Rest, Idle, InRun, TypeOK
<1>4. ASSUME NEW w \in Worker, NEW j \in Job, Claim(w, j) PROVE LedgerStep
  <2>1. job[j].status = "PENDING" /\ worker[w].pc = "idle"
    BY <1>4 DEF Claim, ClaimLocked, ClaimSkipped, EvaluateAtOnce, RaiseAtOnce,
                FetchCandles, FetchConflict, Evaluable, Claimable, Runnable
  <2>2. /\ job[j] \in JobRow /\ Phase(j) = "PENDING"
        /\ \A v \in Worker : ~InRun(v)
    BY <2>1 DEF OneWorker, Phase, InRun, TypeOK
  <2>3. /\ MarkJobError(job[j], 0).status \in {"PENDING", "FAILED"}
        /\ MarkJobDone(job[j]).status = "DONE"
    BY <2>2, PhaseOfHelpers
  <2>4. ASSUME worker' = worker PROVE \A v \in Worker : ~InRun(v)'
    BY <2>2, <2>4 DEF InRun
  <2>5. CASE ClaimLocked(w, j)
    BY <2>2, <2>3, <2>4, <2>5, RowStep DEF ClaimLocked
  <2>6. CASE ClaimSkipped(w, j)
    BY <2>2, <2>3, <2>4, <2>6, RowStep DEF ClaimSkipped
  <2>7. CASE EvaluateAtOnce(w, j)
    BY <2>2, <2>3, <2>4, <2>7, RowStep DEF EvaluateAtOnce
  <2>8. ASSUME NEW pc, Busy(w, pc, j) PROVE \A v \in Worker : worker'[v].job = j
    BY <2>8 DEF OneWorker, Busy, TypeOK
  <2>9. CASE RaiseAtOnce(w, j)
    BY <2>2, <2>8, <2>9, QuietStep DEF RaiseAtOnce, Phase
  <2>10. CASE FetchConflict(w, j)
    BY <2>2, <2>8, <2>10, QuietStep DEF FetchConflict, Phase
  <2>11. CASE FetchCandles(w, j)
    <3>1. /\ job'[j].status = "RUNNING"
          /\ \A k \in Job \ {j} : job'[k] = job[k]
      BY <2>2, <2>11 DEF FetchCandles, TypeOK, JobRow
    <3>2. \A k \in Job : Phase(k)' = Phase(k)
      BY <2>2, <3>1 DEF Phase
    <3> QED BY <2>2, <2>8, <2>11, <3>2, QuietStep DEF FetchCandles
  <2> QED BY <1>4, <2>5, <2>6, <2>7, <2>9, <2>10, <2>11 DEF Claim
<1>5. ASSUME NEW w \in Worker, Finish(w) PROVE LedgerStep
  <2> DEFINE j == worker[w].job
  <2>1. /\ j \in Job /\ job[j] \in JobRow /\ Phase(j) = "PENDING"
        /\ worker[w].age \in Nat
    BY <1>5 DEF Finish, CommitEvaluation, RaiseInFlight, ReportError, TypeOK, InRun,
                SoleRun, WorkerState
  <2>2. /\ MarkJobDone(job[j]).status = "DONE"
        /\ MarkJobError(job[j], worker[w].age).status \in {"PENDING", "FAILED"}
    BY <2>1, PhaseOfHelpers
  <2>3. CASE CommitEvaluation(w)
    BY <1>3, <2>1, <2>2, <2>3, RowStep DEF CommitEvaluation
  <2>4. CASE ReportError(w)
    BY <1>3, <2>1, <2>2, <2>4, RowStep DEF ReportError
  <2>5. CASE RaiseInFlight(w)
    <3>1. \A v \in Worker : worker'[v].job = j
      BY <2>5 DEF OneWorker, RaiseInFlight, TypeOK, WorkerState
    <3> QED BY <2>1, <2>5, <3>1, QuietStep DEF RaiseInFlight, Phase
  <2> QED BY <1>5, <2>3, <2>4, <2>5 DEF Finish
<1>6. ASSUME NEW w \in Worker, Break(w) PROVE LedgerStep
  <2>1. job' = job /\ evals' = evals
    BY <1>6 DEF Break, LoseErrorReport, Crash, ThreadDies
  <2>2. \A v \in Worker : ~InRun(v)'
    <3>1. CASE ThreadDies(w)
      BY <3>1 DEF OneWorker, ThreadDies, InRun, TypeOK, WorkerState
    <3>2. CASE Rest(w)
      BY <1>3, <3>2
    <3> QED BY <1>6, <3>1, <3>2 DEF Break, LoseErrorReport, Crash
  <2> QED BY <2>1, <2>2, QuietStep DEF Phase
<1>7. CASE Sweep
  <2>1. ASSUME NEW j \in Job PROVE Phase(j)' = Phase(j)
    BY <1>7, PhaseOfHelpers DEF Sweep, Stale, Phase, TypeOK
  <2> QED BY <1>7, <2>1, QuietStep DEF Sweep, InRun, SoleRun, TypeOK
<1>8. CASE Tick
  <2>1. ASSUME NEW j \in Job PROVE Phase(j)' = Phase(j)
    BY <1>8, PhaseOfHelpers DEF Tick, Phase, TypeOK
  <2>2. ASSUME NEW w \in Worker PROVE worker'[w].job = worker[w].job /\ InRun(w)' = InRun(w)
    BY <1>8 DEF Tick, TypeOK, WorkerState, InRun
  <2> QED BY <1>8, <2>1, <2>2, QuietStep DEF Tick, SoleRun, TypeOK
<1>9. CASE \/ \E j \in Job : EnqueueJob(j)
           \/ \E d \in Deployment : Operate(d)
           \/ UNCHANGED vars
  BY <1>1, <1>2, <1>9
  DEF EnqueueJob, Operate, StartDeployment, StartWithJob, StopDeployment,
      PauseDeployment, UpdateDeployment, SetDep, vars
<1> QED BY <1>4, <1>5, <1>6, <1>7, <1>8, <1>9 DEF Next

\* With one worker thread the queue implements its ledger: accepted once, then
\* evaluated once, skipped or given up, for good.
THEOREM SingleWorkerKeepsLedger ==
  ASSUME OneWorker PROVE Spec => KeepsLedger
<1>1. Init => SoleRun /\ Ledger!Init
  BY DEF Init, SoleRun, InRun, Idle, Phase, NoRow, Ledger!Init
<1>2. TypeOK /\ SoleRun /\ [Next]_vars => SoleRun' /\ [Ledger!Next]_<<Phases, evals>>
  BY SoleStep DEF LedgerStep
<1> QED BY <1>1, <1>2, TypeCorrect, PTL DEF Spec, KeepsLedger, Ledger!Spec, Phases
=============================================================================
