SPECIFICATION Spec
CONSTANTS
  b1 = b1
  b2 = b2
  b3 = b3
  Bundle = {b1, b2, b3}
  Fragment = {b3}
  Creation <- SomeTimes
  ttl = 4
  axeLength = 2
  axeSubdivision = 2
  Configured <- AnyConfigured
  MaxTime = 5
SYMMETRY BundleSymmetry
INVARIANTS
  TypeOK
  ReportIsCurrent
  SeenSinceStart
  EndsOverOutlived
  FewSent
CHECK_DEADLOCK FALSE
