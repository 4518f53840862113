SPECIFICATION FairSpec
CONSTANTS
  Settings <- MCSettings
  MaxBuys = 2
  MaxInitials = 2
INVARIANTS
  TypeOK
  OrderMatchesPosition
  SingleBuy
  PositionAgrees
  ArmedWithPosition
  TakeInitialsOnce
PROPERTIES
  TerminateEnds
CHECK_DEADLOCK FALSE
