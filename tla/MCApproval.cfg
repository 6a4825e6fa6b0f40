SPECIFICATION Spec
CONSTANTS
  Sessions = {s1, s2}
  RunIds = {1, 2}
  Results <- MCPairResults
  MaxRewrites = 1
  Phrases <- MCPairPhrases
  SenderOptions = {TRUE, FALSE}
  None = None
  Torn = Torn
  s1 = s1
  s2 = s2
INVARIANTS SentWasApproved FilesAgree RunIsOneStory LatestTruthful
SYMMETRY SessionSymmetry
CHECK_DEADLOCK FALSE
