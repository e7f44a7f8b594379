SPECIFICATION FairBSpec
CONSTANTS
  Players = {p1, p2}
  Sessions = {b, c}
  Bots = {b, c}
  NoPlayer = NoPlayer
  NoSession = NoSession
  Freed = Freed
  NoHand = NoHand
  Amounts <- AmountsSent
  StartingStack = 3
  TargetStack = 3
  TopUpThreshold = 2
  BigBlind = 2
  MaxHands = 1
  MaxBank = 8
  MaxInbox = 3
  MaxUnwritten = 2
  MaxLosses = 0
VIEW BotView
PROPERTY RunningHandAsks
CHECK_DEADLOCK FALSE
