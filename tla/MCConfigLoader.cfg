SPECIFICATION LoaderSpec
CONSTANTS
  RingSize <- MCRingSize
  Ceiling <- MCCeiling
  Configs <- MCConfigs
  None = None
  OtherTexts <- MCOtherTexts
  Shifts <- MCShifts
  MaxTears = 1
INVARIANTS TradesAsApproved WithinCeilings ApprovedIsAccepted
CHECK_DEADLOCK FALSE
