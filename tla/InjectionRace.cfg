SPECIFICATION Spec
CONSTANTS
  l1 = l1
  l2 = l2
  NONE = NONE
  LinkId = {l1, l2}
  MaxInjections = 1
  MaxLosses = 0
INVARIANT
  InjectedIsForwarded
CHECK_DEADLOCK FALSE
