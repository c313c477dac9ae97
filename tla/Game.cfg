SPECIFICATION FairSpec
CONSTANTS
  notGiven = notGiven
  NotGiven = notGiven
  InitialMax = 1
  Allocations <- MCAllocations
  Counts <- MCCounts
  Arguments <- MCArguments
  PlayerFloor <- Debt
  PlayerCap = 3
  MaxMessages = 2
  MaxSets = 1
  MaxDrops = 1
  MaxStarts = 2
INVARIANT TypeOK
INVARIANT MatchIsAllocated
PROPERTY MatchEnds
PROPERTY LiveStateFollows
PROPERTY StopsWhenTold
CHECK_DEADLOCK FALSE
