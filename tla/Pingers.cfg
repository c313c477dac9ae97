CONSTANTS
  Sites = 2
  Elapsed <- Forward
  HistorySize = 2
  MaxUint = 3
  MaxPings <- ManyAndNone
  MaxLost = 1
  MaxDoubled = 1
  MaxAbandoned = 1
  MaxAsks <- OneAndNone
SPECIFICATION FairSpec
INVARIANT TypeOK
INVARIANT StatisticsMatch
INVARIANT MeasuredOnce
INVARIANT NoForeignReply
INVARIANT ReadsFit
PROPERTY AllUpdated
PROPERTY AnsweredUnlessLost
CHECK_DEADLOCK FALSE
