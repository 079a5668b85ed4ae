SPECIFICATION FairSpec
CONSTANTS
  b1 = b1
  b2 = b2
  b3 = b3
  b4 = b4
  k1 = k1
  k2 = k2
  k3 = k3
  NONE = NONE
  EMPTY = EMPTY
  Garbled = Garbled
  LocalId = {b1, b2, b3, b4}
  Gbof = {k1, k2, k3}
  Kind <- TransitKind
  GbofOf <- TransitGbof
  SV <- TransitSV
  SV1 = {b3, b4}
  Fragment = {}
  MayExpire = {b1, b2}
  maxBufferCapacity = 2
  statMessagesNumber = 2
  Configured <- NotOptimized
  QueueBound = 3
  MaxLosses = 0
  MaxRestarts = 0
  LinkMayBeGone = FALSE
PROPERTIES
  RetiredLeaves
  VectorsServed
CHECK_DEADLOCK FALSE
