SPECIFICATION Spec
CONSTANTS
  Players = {p1, p2}
  Decks <- AllDecks
  StartingStack <- Stacks
  BigBlind = 2
  Amounts <- AmountsPaid
  MaxHands = 2
  MaxActions = 2
  MaxChips = 12
CONSTRAINT DealOrBet
INVARIANTS
  CTypeOK
  DealtOnce
  WinnerIsBest
  CompareFollowsRules
PROPERTIES
  SidePotsRepeatThePot
  PayoutsExact
CHECK_DEADLOCK FALSE
