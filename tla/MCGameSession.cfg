SPECIFICATION Spec
CONSTANTS
  Players = {p1, p2, p3}
  Sessions = {s1, s2}
  NoPlayer = NoPlayer
  NoSession = NoSession
  Freed = Freed
  NoHand = NoHand
  Amounts <- AmountsSent
  StartingStack = 3
  TargetStack = 3
  TopUpThreshold = 2
  BigBlind = 2
  MaxHands = 1
  MaxBank = 8
VIEW ServerState
SYMMETRY ServerSymmetry
INVARIANTS
  TypeOK
  MapsInverse
  AwayHasNoSession
  TableSound
  HandIsOpen
PROPERTIES
  EveryMessageAnswered
  Connections
  Ledger
CHECK_DEADLOCK FALSE
