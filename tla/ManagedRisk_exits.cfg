SPECIFICATION FairSpec
CONSTANTS
  e1 = e1
  e2 = e2
  r1 = r1
  Entry = {e1, e2}
  short = e2
  Request = {r1}
  SideOf <- MCSideOf
  QtyOf <- MCQtyOf
  Price <- MCPrice
  Plan <- MCPlan
  Book <- MCBook
  PlanOf <- MCPlanOf
  Intraday = TRUE
  NoPrice = NoPrice
  NoEntry = NoEntry
  NoBook = NoBook
  MaxAsked = 1
  MaxFaults = 1
INVARIANTS TypeOK LoopExitsOnce
PROPERTIES ClosedStaysClosed TrailRatchets LoopSettles
CHECK_DEADLOCK FALSE
