SPECIFICATION Spec
CONSTANTS
  MaxSends = 3
  Relock = {"blocks", "proceeds"}
  StaleBuffer = {"intact"}
INVARIANT NeverBlocked
CHECK_DEADLOCK FALSE
