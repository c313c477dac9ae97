SPECIFICATION FairSpec
CONSTANTS
  LockedSend <- MCLockedSend
  Command <- MCCommand
  Incoming <- MCIncoming
  Malformed <- MCMalformed
  OutCap = 2
  MaxDrops = 3
  MaxSends = 4
  MaxIncoming = 2
  MaxBroken = 1
  MaxStarts = 2
INVARIANT TypeOK
INVARIANT StartsClean
INVARIANT AnnouncedOnce
PROPERTY AttemptWaits
PROPERTY Reconnects
CHECK_DEADLOCK FALSE
