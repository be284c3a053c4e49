--------------------------- MODULE MCOrderExecution ---------------------------
(* Small instances of OrderExecution.  Orders of the local broker share one    *)
(* symbol, the Zerodha orders another.                                         *)
EXTENDS OrderExecution, TLC

CONSTANTS local, zerodha

MCSymbolOf == [o \in Order |-> IF o \in Local THEN local ELSE zerodha]

\* One strategy trades a symbol.
MCScopeOf == MCSymbolOf

\* Every order comes from a strategy of its own.
MCOwnScope == [o \in Order |-> o]

Symmetry == Permutations(Request)
=============================================================================
