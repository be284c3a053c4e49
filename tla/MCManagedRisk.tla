---------------------------- MODULE MCManagedRisk ----------------------------
(* Small instances of ManagedRisk: entries of one intraday symbol. *)
EXTENDS ManagedRisk, TLC

CONSTANT short

MCSideOf == [e \in Entry |-> IF e = short THEN "SELL" ELSE "BUY"]
MCQtyOf == [e \in Entry |-> 1]
MCBook == {0, 2}
MCPrice == {2, 4}

\* The entries' stop trails from the start; an edit makes it trail after a move.
Trailing == [stop |-> 2, trail |-> 2, act |-> 0, tp |-> 2]
Delayed  == [stop |-> 2, trail |-> 1, act |-> 2, tp |-> 0]
MCPlan == {Delayed}
MCPlanOf == [e \in Entry |-> Trailing]
=============================================================================
