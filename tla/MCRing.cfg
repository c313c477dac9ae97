CONSTANTS
  Value = {v1, v2, v3}
  None = None
  Capacity = 3
SPECIFICATION Spec
INVARIANT TypeOK
PROPERTY ImplementsFifo
