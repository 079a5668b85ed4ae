SPECIFICATION FairSpec
CONSTANTS
  l1 = l1
  l2 = l2
  NONE = NONE
  LinkId = {l1, l2}
  MaxInjections = 2
  MaxLosses = 1
PROPERTIES
  InjectionsEnd
CHECK_DEADLOCK FALSE
