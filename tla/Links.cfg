SPECIFICATION Spec
CONSTANTS
  l1 = l1
  l2 = l2
  n1 = n1
  n2 = n2
  NULL = NULL
  FREED = FREED
  WILD = WILD
  LinkId = {l1, l2}
  EID = {n1, n2}
  Networks <- AnyNetwork
  QueueBound = 2
  MaxLosses = 1
INVARIANTS
  TypeOK
  LinkOfNode
  NodeOfLink
  InSync
  EndsOnlyUninformed
CHECK_DEADLOCK FALSE
