SPECIFICATION StrategiesSpec
CONSTANTS
  Sym = {"x"}
  Plans <- MCPlans
  Bar = 2
  Open = 1
  Proxy = 5
  Close = 6
  Last = 7
  Days = 2
  MaxBackfill = 2
  MaxOps = 1
  MaxGlitches = 2
  Symbols <- MCSymbols
  Policies <- MCPolicies
  Markets <- MCMarkets
  Prices = {1, 2}
  Capital = 4
  MaxBars = 2
  MaxEvals = 3
  MaxDrops = 1
  Share = {"x", "y"}
  Whole = 4
  Desks <- MCDesks
  RunKey = {"k"}
  Clerk = {"c1", "c2"}
  MaxRequests = 3
  MaxLapses = 1
  RiskSettings <- MCRiskSettings
  Instrument = {"x", "y"}
  Product = {"MIS", "CNC"}
  Baseline = 1000
  BarsADay = 2
  Tickers <- MCTickers
  Tests <- MCTests
  Cash0 = 200
  LastBar = 7
  SessionBars = 4
  Reader = {"r"}
  Syncer = "sync"
  Feeds <- MCFeeds
  Spans <- MCSpans
  Keep = 10
  TailGap = 4
  FirstNow = 8
  LastNow = 12
  MaxOutages = 1
INVARIANTS
  StrategiesTypeOK
  BarsAreComplete
  BooksMatch
  
  KeyKeepsPlan
  RecordsAddUp
  PositionsWithinCap
  TwinsAgree
  ReportIsPossible
  GapsAreKnown
PROPERTIES
  EntriesAreGuarded
  EntriesStopAfterLosses
CHECK_DEADLOCK FALSE
