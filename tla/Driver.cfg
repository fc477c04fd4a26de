SPECIFICATION Spec
CONSTANTS
  f1 = f1  f2 = f2  tmp = tmp
  c1 = c1  c2 = c2  p1 = p1  p2 = p2
  NoFile = NoFile
  NoPort = NoPort
  Files <- AllFiles
  Protected <- AllFiles
  Excluded <- JustTmp
  LongName <- OneFile
  Callbacks <- TwoCallbacks
  Ports <- TwoPorts
  Policies <- BothPolicies
  RBF_QUEUE_MAX = 2
  MaxRequests = 2
  MaxFaults = 1
SYMMETRY CallbackSymmetry
INVARIANTS TypeOK NoReleasedPort SlotsBalanced RenamesAccounted
PROPERTIES ProtectedFileKept StrippedFileKept ImplementsGate
\* An unloaded driver does nothing more.
CHECK_DEADLOCK FALSE
