SPECIFICATION Spec
CONSTANTS
  TableSize = 3
  FillDelay = 3
  TickGap = 1
  MaxTicks = 4
  MaxDelay = 2
  MaxPosition = 2
  MaxNotional = 3
  Decisions <- MCDecisions
INVARIANTS TypeOK ExposureBounded SettledBounded TotalsAgree NoOrderLost FillsFollowSubmission
PROPERTIES TickCompletes ImplementsPortfolio
CHECK_DEADLOCK FALSE
