SPECIFICATION SessionSpec
CONSTANTS
  TableSize = 2
  FillDelay = 3
  TickGap = 1
  MaxTicks = 6
  MaxDelay = 1
  MaxPosition = 3
  MaxNotional = 2
  RingSize = 3
  LookbackTicks = 2
  EntryThresh <- MCFifth
  Window = 2
  DevThresh <- MCFifth
  SpreadFloor = 20
  BaseLot = 2
  PosScalar <- MCOne
  Quotes <- MCQuotes
INVARIANTS LiveFollowsHistory HealthAgrees SendsWhatBacktestSignals
CHECK_DEADLOCK FALSE
