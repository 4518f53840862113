SPECIFICATION FairSpec
CONSTANTS
  Settings <- MCBuyable
  MaxBuys = 2
  MaxInitials = 2
PROPERTIES
  SignalsAreReceived
CHECK_DEADLOCK FALSE
