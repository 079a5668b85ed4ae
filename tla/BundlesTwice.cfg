SPECIFICATION Spec
CONSTANTS
  b1 = b1
  b2 = b2
  b3 = b3
  b4 = b4
  k1 = k1
  k2 = k2
  k3 = k3
  NONE = NONE
  EMPTY = EMPTY
  Garbled = Garbled
  LocalId = {b1, b2, b3, b4}
  Gbof = {k1, k2, k3}
  Kind <- TwiceKind
  GbofOf <- TwiceGbof
  SV <- NoVectors
  SV1 = {}
  Fragment = {b3, b4}
  MayExpire = {b1, b2, b3, b4}
  maxBufferCapacity = 2
  statMessagesNumber = 2
  Configured <- Optimized
  QueueBound = 3
  MaxLosses = 1
  MaxRestarts = 1
  LinkMayBeGone = TRUE
INVARIANTS
  SummaryVectorExact
  OneIdPerStored
  LeakNeedsLocalDelivery
CHECK_DEADLOCK FALSE
