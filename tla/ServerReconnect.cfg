CONSTANTS
  t1 = t1
  t2 = t2
  s1 = s1
  s2 = s2
  x0 = x0
  x1 = x1
  untold = untold
  null = null
  Thread <- OneThread
  ReverseCallers <- NoCallers
  GameState <- TwoStates
  Default = s1
  Extra <- EmptyOnly
  EmptyObject = x0
  Clashing <- NoneClashing
  NoObject = null
  AppStatus <- Statuses
  Untold = untold
  InCap = 2
  OutCap = 2
  MaxClients = 2
  MaxMessages = 1
  MaxSets = 1
SPECIFICATION Spec
INVARIANT LiveStateScheduled
CHECK_DEADLOCK FALSE
