SPECIFICATION FairSpec
CONSTANTS
  local = local
  zerodha = zerodha
  NoOrder = NoOrder
  Gtt = Gtt
  Order = {a}
  Local = {a}
  Exit = {}
  Scope = {local}
  ScopeOf <- MCScopeOf
  SymbolOf <- MCSymbolOf
  MaxTrades = 1
  MaxTickets = 2
  Request = {}
  Syncer = {}
  MaxTwice = 0
  MaxFaults = 1
PROPERTY TriggerSurvives
CHECK_DEADLOCK FALSE
