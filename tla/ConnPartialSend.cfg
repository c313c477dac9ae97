CONSTANTS
  HelloUnits = 1
  HeaderUnits = 1
  PayloadUnits = 1
  NetCap = 1
  InCap = 4
  OutCap = 4
  QueueIn = 2
  QueueOut = 2
  MaxConns = 1
  MaxData = 2
  MaxHealth <- FromNone
  MaxLost = 0
SPECIFICATION Spec
INVARIANT NothingDropped
CHECK_DEADLOCK FALSE
