SPECIFICATION FairBSpec
CONSTANTS
  Players = {p1, p2, p3}
  Sessions = {b, c}
  Bots = {b}
  NoPlayer = NoPlayer
  NoSession = NoSession
  Freed = Freed
  NoHand = NoHand
  Amounts <- AmountsSent
  StartingStack = 3
  TargetStack = 3
  TopUpThreshold = 2
  BigBlind = 2
  MaxHands = 1
  MaxBank = 8
  MaxInbox = 3
  MaxUnwritten = 2
  MaxLosses = 1
VIEW BotView
ACTION_CONSTRAINT OneFreshId
INVARIANTS
  BTypeOK
  RequestStillTrue
PROPERTY AskedBotActs
CHECK_DEADLOCK FALSE
