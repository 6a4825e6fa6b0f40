SPECIFICATION LoaderSpec
CONSTANTS
  RingSize <- MCRingSize
  Ceiling <- MCCeiling
  Configs <- MCTwoDays
  None = None
  OtherTexts <- MCNoText
  Shifts <- MCInStep
  MaxTears = 1
INVARIANT OnlyApprovedIsLoaded
CHECK_DEADLOCK FALSE
