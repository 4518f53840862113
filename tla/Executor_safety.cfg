SPECIFICATION Spec
CONSTANTS
  o1 = o1
  o2 = o2
  t1 = t1
  t2 = t2
  normal = normal
  target_tx = target_tx
  Orders <- MCOrders
  Tasks <- MCTasks
  Keys <- MCKeys
  Forms <- MCForms
  MaxBlock = 3
  Horizon = 2
  OrderCap = 1
SYMMETRY MCSymmetry
INVARIANTS
  TypeOK
  NeverBundledTwice
  NotBeforeTarget
  AnsweredIsLanded
  GoneIsGone
PROPERTIES
  ImplementsOrderService
CHECK_DEADLOCK FALSE
