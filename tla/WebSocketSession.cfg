SPECIFICATION FairSpec
CONSTANTS
  MaxSends = 3
  Relock = {"blocks", "proceeds"}
  StaleBuffer = {"intact", "garbled"}
INVARIANTS
  TypeOK
  NothingLostOrDoubled
  WriteServesQueue
PROPERTIES
  ChannelSpec
  PongBeatsTimeout
  SilentClientIsLost
  EveryMessageArrives
CHECK_DEADLOCK FALSE
