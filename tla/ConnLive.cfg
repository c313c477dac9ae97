CONSTANTS
  HelloUnits = 2
  HeaderUnits = 2
  PayloadUnits = 1
  NetCap = 12
  InCap = 6
  OutCap = 6
  QueueIn = 2
  QueueOut = 2
  MaxConns = 1
  MaxData = 1
  MaxHealth <- FromBoth
  MaxLost = 0
SPECIFICATION FairSpec
PROPERTY HandshakeCompletes
PROPERTY Delivered
PROPERTY UpdateReturns
CHECK_DEADLOCK FALSE
