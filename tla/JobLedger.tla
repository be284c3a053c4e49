------------------------------ MODULE JobLedger ------------------------------
(***************************************************************************)
(* What the deployment queue promises about each job, whatever happens to  *)
(* workers, leases and time: a job is accepted once, then it is either     *)
(* evaluated exactly once and done, closed without an evaluation (its      *)
(* deployment is not running), or given up; none of the three is undone.   *)
(***************************************************************************)
EXTENDS Naturals

CONSTANT Job
VARIABLES phase, evaluated

Init ==
  /\ phase = [j \in Job |-> "ABSENT"]
  /\ evaluated = [j \in Job |-> 0]

Move(j, from, to) == phase[j] = from /\ phase' = [phase EXCEPT ![j] = to]

Accept(j) == Move(j, "ABSENT", "PENDING") /\ UNCHANGED evaluated
Skip(j) == Move(j, "PENDING", "DONE") /\ UNCHANGED evaluated
GiveUp(j) == Move(j, "PENDING", "FAILED") /\ UNCHANGED evaluated

Evaluate(j) ==
  /\ Move(j, "PENDING", "DONE")
  /\ evaluated[j] = 0
  /\ evaluated' = [evaluated EXCEPT ![j] = 1]

Next == \E j \in Job : Accept(j) \/ Skip(j) \/ GiveUp(j) \/ Evaluate(j)

Spec == Init /\ [][Next]_<<phase, evaluated>>
=============================================================================
