SPECIFICATION Spec
CONSTANTS
  x = x
  y = y
  Smaller = Smaller
  Greater = Greater
  Elsewhere = Elsewhere
  Garbled = Garbled
  Bundle = {x, y}
  Origin <- MCOrigin
  Dest <- MCDest
  MayExpire = {y}
  QueueBound = 2
  MaxBreaks = 2
INVARIANTS
  TypeOK
  InStep
  HaltsForCause
PROPERTIES
  EpidemicSpec
  Spreads
CHECK_DEADLOCK FALSE
