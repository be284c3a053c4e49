SPECIFICATION FairSpec
CONSTANTS
  local = local
  zerodha = zerodha
  NoOrder = NoOrder
  Gtt = Gtt
  Order = {a}
  Local = {a}
  Exit = {}
  Scope = {local}
  ScopeOf <- MCScopeOf
  SymbolOf <- MCSymbolOf
  MaxTrades = 3
  MaxTickets = 3
  Request = {r1, r2}
  Syncer = {y1}
  MaxTwice = 0
  MaxFaults = 2
INVARIANTS
  OneTicketPerOrder
  FillsHaveTickets
PROPERTIES
  ScopeFreed
  TriggerResolves
CHECK_DEADLOCK FALSE
