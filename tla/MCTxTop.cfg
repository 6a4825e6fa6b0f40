SPECIFICATION Spec
CONSTANTS
  Fields = {"qty", "id"}
  Data = {0, 1}
  None = None
  Layout <- MCLayout

PROPERTIES WritesTakeEffectOnce ImplementsOrderEgress
