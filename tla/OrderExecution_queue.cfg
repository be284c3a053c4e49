SPECIFICATION Spec
CONSTANTS
  local = local
  zerodha = zerodha
  NoOrder = NoOrder
  Gtt = Gtt
  Order = {a, b}
  Local = {}
  Exit = {}
  Scope = {zerodha}
  ScopeOf <- MCScopeOf
  SymbolOf <- MCSymbolOf
  MaxTrades = 1
  MaxTickets = 3
  Request = {r1, r2}
  Syncer = {y1}
  MaxTwice = 0
  MaxFaults = 1
SYMMETRY Symmetry
INVARIANTS
  TypeOK
  OneInFlightPerScope
  CapHoldsInOneScope
CHECK_DEADLOCK FALSE
