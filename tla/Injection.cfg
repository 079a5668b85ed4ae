SPECIFICATION Spec
CONSTANTS
  l1 = l1
  l2 = l2
  NONE = NONE
  LinkId = {l1, l2}
  MaxInjections = 3
  MaxLosses = 1
SYMMETRY LinkSymmetry
INVARIANTS
  TypeOK
  ForwardedOverItsLink
  MainFindsItsRecord
  EndsOnlyOverSharedId
  NoRecordWithoutCause
  HolderRuns
CHECK_DEADLOCK FALSE
