SPECIFICATION Spec
CONSTANTS
  f1 = f1  f2 = f2  tmp = tmp
  c1 = c1  c2 = c2  p1 = p1  p2 = p2
  NoFile = NoFile
  NoPort = NoPort
  Files <- TwoFiles
  Protected <- TwoFiles
  Excluded <- NoFiles
  LongName <- NoFiles
  Callbacks <- TwoCallbacks
  Ports <- OnePort
  Policies <- BothPolicies
  RBF_QUEUE_MAX = 1
  MaxRequests = 3
  MaxFaults = 0
INVARIANTS NoOrphan
\* An unloaded driver does nothing more.
CHECK_DEADLOCK FALSE
