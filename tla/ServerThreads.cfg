CONSTANTS
  t1 = t1
  t2 = t2
  s1 = s1
  s2 = s2
  x0 = x0
  x1 = x1
  untold = untold
  null = null
  Thread <- TwoThreads
  ReverseCallers <- OneThread
  GameState <- TwoStates
  Default = s1
  Extra <- TwoExtras
  EmptyObject = x0
  Clashing <- OneClashing
  NoObject = null
  AppStatus <- Statuses
  Untold = untold
  InCap = 2
  OutCap = 2
  MaxClients = 2
  MaxMessages = 2
  MaxSets = 2
SPECIFICATION Spec
INVARIANT TypeOK
INVARIANT StatusTruthful
INVARIANT StatusScheduled
INVARIANT ChangesScheduled
CHECK_DEADLOCK FALSE
