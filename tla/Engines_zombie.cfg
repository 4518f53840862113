SPECIFICATION Spec
CONSTANTS
  u1 = u1
  u2 = u2
  Users <- MCUsers
  Messages <- MCCreateTwice
  Cap = 2
  TraderCap = 1
  Faults = {}
INVARIANTS
  HandleIsServed
CHECK_DEADLOCK FALSE
