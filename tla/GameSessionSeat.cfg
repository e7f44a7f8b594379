SPECIFICATION FairSpec
CONSTANTS
  Players = {p1, p2}
  Sessions = {s1}
  NoPlayer = NoPlayer
  NoSession = NoSession
  Freed = Freed
  NoHand = NoHand
  Amounts <- AmountsSent
  StartingStack = 3
  TargetStack = 3
  TopUpThreshold = 2
  BigBlind = 2
  MaxHands = 1
  MaxBank = 8
PROPERTY AwayFreesSeat
CHECK_DEADLOCK FALSE
