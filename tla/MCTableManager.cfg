SPECIFICATION Spec
CONSTANTS
  Players = {p1, p2}
  NoPlayer = NoPlayer
  Freed = Freed
  NoHand = NoHand
  Amounts <- AmountsSent
  StartingStack = 3
  TargetStack = 3
  TopUpThreshold = 2
  BigBlind = 2
  MaxHands = 2
  MaxBank = 9
SYMMETRY PlayerSymmetry
INVARIANTS
  TypeOK
  ChipsConserved
  SeatsMatchRoster
  PotMatchesBets
  HandPlayersLive
PROPERTIES
  OpenerAlternates
  OnlyTurnPays
  PotGoesToTheUnfolded
  LedgerSpec
CHECK_DEADLOCK FALSE
