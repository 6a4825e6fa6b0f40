SPECIFICATION DaySpec
CONSTANTS
  Snapshots = 5
  Gaps = {0, 2, 3}
  Signals <- MCSignals
  Mids = {300}
  FillDelay = 2
  RateWindow = 3
  MaxNotional = 3
  MaxPosition = 3
  MaxOrderRate = 3
  MaxInFlight = 2
  MaxLot = 2
  SessionStart = 2
  MinuteLength = 4
  Minutes = 3
INVARIANTS EveryOrderSettles BooksFollowFills RateNeverExceeded OvershootBounded MetricsAgree BurstBoundsRate
PROPERTY ImplementsPortfolio
CHECK_DEADLOCK FALSE
