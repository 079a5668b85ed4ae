SPECIFICATION Spec
CONSTANTS
  l1 = l1
  l2 = l2
  n1 = n1
  Self = Self
  NONE = NONE
  LinkId = {l1, l2}
  EID = {n1}
  Greater = {n1}
  PeerOf <- OnePeer
  Configured <- AnyConf
  MayCarry <- NoGateway
  QueueBound = 2
  MaxRequests = 2
  MaxSockets = 1
SYMMETRY LinkSymmetry
INVARIANTS
  TypeOK
  OpenPeersKnown
  
  RefusedOnceNamed
PROPERTY
  DirectorySpec
CHECK_DEADLOCK FALSE
