SPECIFICATION RegimeSpec
CONSTANTS
  Markets <- MCAllMarkets
  NaN = NaN
  Partial <- MCPartial
  Volatility <- MCVolatility
  LongWindow = 2
  ShortWindow = 1
  CalibrationWindow = 2
  EvaluationDays = 4
  Unknown = Unknown
INVARIANT CalibratedBefore
CHECK_DEADLOCK FALSE
