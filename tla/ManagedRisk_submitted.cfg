SPECIFICATION FairSpec
CONSTANTS
  e1 = e1
  r1 = r1
  Entry = {e1}
  short = NoEntry
  Request = {r1}
  SideOf <- MCSideOf
  QtyOf <- MCQtyOf
  Price <- MCPrice
  Plan <- MCPlan
  Book <- MCBook
  PlanOf <- MCPlanOf
  Intraday = TRUE
  NoPrice = NoPrice
  NoEntry = NoEntry
  NoBook = NoBook
  MaxAsked = 0
  MaxFaults = 1
PROPERTY ExitsSubmitted
CHECK_DEADLOCK FALSE
