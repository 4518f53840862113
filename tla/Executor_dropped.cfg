SPECIFICATION Spec
CONSTANTS
  o1 = o1
  o2 = o2
  t1 = t1
  t2 = t2
  normal = normal
  target_tx = target_tx
  Orders <- MCOrders
  Tasks <- MCTasks
  Keys <- MCKeys
  Forms <- MCTimes
  MaxBlock = 3
  Horizon = 1
  OrderCap = 1
INVARIANTS
  DroppedMeansNotIncluded
CHECK_DEADLOCK FALSE
