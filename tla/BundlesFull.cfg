SPECIFICATION Spec
CONSTANTS
  b1 = b1
  b2 = b2
  b3 = b3
  b4 = b4
  k1 = k1
  k2 = k2
  k3 = k3
  NONE = NONE
  EMPTY = EMPTY
  Garbled = Garbled
  LocalId = {b1, b2, b3, b4}
  Gbof = {k1, k2, k3}
  Kind <- MixedKind
  GbofOf <- MixedGbof
  SV <- MixedSV
  SV1 = {b4}
  Fragment = {}
  MayExpire = {}
  maxBufferCapacity = 1
  statMessagesNumber = 2
  Configured <- NotOptimized
  QueueBound = 2
  MaxLosses = 0
  MaxRestarts = 0
  LinkMayBeGone = FALSE
INVARIANT
  DropPolicyDecides
CHECK_DEADLOCK FALSE
