SPECIFICATION Spec
CONSTANTS
  local = local
  zerodha = zerodha
  NoOrder = NoOrder
  Gtt = Gtt
  Order = {a, b}
  Local = {}
  Exit = {}
  Scope = {a, b}
  ScopeOf <- MCOwnScope
  SymbolOf <- MCSymbolOf
  MaxTrades = 1
  MaxTickets = 2
  Request = {r1, r2}
  Syncer = {}
  MaxTwice = 0
  MaxFaults = 0
INVARIANT CapHoldsAlways
CHECK_DEADLOCK FALSE
