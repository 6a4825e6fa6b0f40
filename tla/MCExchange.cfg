SPECIFICATION FairSpec
CONSTANTS
  Days <- MCDays
  Checker = {"missing", "present"}
  MaxSessions = 2
  MaxDisturbances = 1
  None = None
INVARIANTS ConsistentMeansComplete MismatchMeansDisturbed BacktestReadsTheDay FormatsAgree
PROPERTY SessionEnds
CHECK_DEADLOCK FALSE
