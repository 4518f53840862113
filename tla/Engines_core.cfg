SPECIFICATION FairSpec
CONSTANTS
  u1 = u1
  u2 = u2
  Users <- MCUsers
  Messages <- MCMessages
  Cap = 1
  TraderCap = 1
  Faults <- MCFaults
INVARIANTS
  TypeOK
  OneSimulator
PROPERTIES
  SimulatorsGoWithTraders
  CreateIsAnswered
CHECK_DEADLOCK FALSE
