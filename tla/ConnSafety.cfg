CONSTANTS
  HelloUnits = 2
  HeaderUnits = 1
  PayloadUnits = 1
  NetCap = 2
  InCap = 2
  OutCap = 3
  QueueIn = 1
  QueueOut = 2
  MaxConns = 2
  MaxData = 2
  MaxHealth <- FromServer
  MaxLost = 1
SPECIFICATION Spec
INVARIANT TypeOK
INVARIANT ExactlyOnceInOrder
INVARIANT NoProtocolError
INVARIANT HandshakeAgreement
INVARIANT NeverReordered
CHECK_DEADLOCK FALSE
PROPERTY ImplementsChannel
