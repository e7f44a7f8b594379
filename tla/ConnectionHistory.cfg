SPECIFICATION FairHSpec
CONSTANT Players = {p1, p2}
INVARIANTS
  HTypeOK
  AwayIsTimed
  NoTimerNoWait
  SitOutIsTimed
  CleanReturn
PROPERTIES
  LifecycleUnlessRaced
  AwayIsAnnounced
