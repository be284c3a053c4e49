SPECIFICATION AutomationSpec
CONSTANTS
  Live = {"a", "b"}
  Paper = {"p"}
  Planned = {"a", "p"}
  Over = {{"b"}, {"p"}}
  Sync = {"sync"}
  Post = {"post"}
  Poll = {"poll"}
  MaxReports = 2
  MaxFaults = 1
  Sub = {"s1", "s2"}
  User = {"u1"}
  NoUser = "nobody"
  Owner <- MCOwner
  Terms <- MCTerms
  Stock = 2
  MaxTickets = 2
  MaxCalls = 3
  MaxAborts = 1
  Playbook = {"p"}
  Caller = {"c1", "c2"}
  Ticker = "tick"
  Scrip = {"x", "y"}
  Tradeplans <- MCTradeplans
  Approval = {1, 2}
  LastWindow = 2
  MaxEdits = 2
  MaxBreaks = 1
  Alert = {"a1"}
  AlertTypes <- MCAlertTypes
  Listing = {"x"}
  BarSpan = 2
  Horizon = 4
  MaxToggles = 1
  MaxLosses = 1
  Signal = {"s1"}
  Setups <- MCSetups
  Handler = {"h1", "h2"}
  MaxDeliveries = 3
  MaxDowns = 2
  Message = {"m1"}
  Chat = {"t1", "t2"}
  ChatSetups <- MCChatSetups
  Query = {"q"}
  Extra = {1, 2}
  MaxTurns = 4
  MaxTalks = 3
  MaxPlans = 1
  MaxApprovals = 2
  MaxFlips = 1
  MaxDeaths = 1
INVARIANTS
  AutomationTypeOK
  BookingsAreTrue
  FillsReachTheBooks
  GrantsGiveTickets
  PlansExecuteOnce
  AlertsKeepToMode
  SignalsAreHandled
  ChatKeepsToGrants
PROPERTIES
  StatusConverges
  TicketsSettle
CHECK_DEADLOCK FALSE
