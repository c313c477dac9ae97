SPECIFICATION FairSpec
CONSTANTS
  bad = bad
  noPingers = noPingers
  Site <- MCSite
  Bad = bad
  Payload <- MCPayload
  NoPingers = noPingers
INVARIANT TypeOK
INVARIANT WaitsForAnswer
INVARIANT PingerHasItsSite
PROPERTY GetsReady
CHECK_DEADLOCK FALSE
