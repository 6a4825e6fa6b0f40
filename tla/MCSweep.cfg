SPECIFICATION DaySpec
CONSTANTS
  RingSize <- MCRingSize
  Ceiling <- MCCeiling
  Settings <- MCSettings
  Outcomes <- MCOutcomes
  None = None
  Markets <- MCMarkets
  SweptMarkets <- MCSweptMarkets
  NaN = NaN
  Partial <- MCPartial
  Volatility <- MCVolatility
  LongWindow = 2
  ShortWindow = 1
  CalibrationWindow = 2
  EvaluationDays = 2
  Unknown = Unknown
INVARIANTS WinnerIsFirstBest GridIsLexicographic RefusedOnlyWhenStale CandidateIsDeliverable LabelIsRank
CHECK_DEADLOCK FALSE
