SPECIFICATION RegimeSpec
CONSTANTS
  Markets <- MCMarkets
  NaN = NaN
  Partial <- MCPartial
  Volatility <- MCVolatility
  LongWindow = 2
  ShortWindow = 1
  CalibrationWindow = 2
  EvaluationDays = 4
  Unknown = Unknown
INVARIANT NotOneLabel
CHECK_DEADLOCK FALSE
