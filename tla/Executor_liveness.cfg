SPECIFICATION FairSpec
CONSTANTS
  o1 = o1
  o2 = o2
  t1 = t1
  t2 = t2
  normal = normal
  target_tx = target_tx
  Orders <- MCOrders
  Tasks <- MCTasks
  Keys <- MCKeys
  Forms <- MCTimes
  MaxBlock = 4
  Horizon = 2
  OrderCap = 1
PROPERTIES
  QueuedIsDrained
  WaitingIsResolved
CHECK_DEADLOCK FALSE
