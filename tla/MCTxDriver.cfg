SPECIFICATION FairDriverSpec
CONSTANTS
  Fields = {"qty", "id"}
  Data = {0, 1}
  None = None
  Layout <- MCLayout
  Policies <- MCSafePolicies
INVARIANTS NoOrderDropped LatchesWholeOrder
PROPERTY EveryOrderDelivered
