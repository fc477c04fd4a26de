SPECIFICATION Spec
CONSTANTS
  a = a  b = b
  NoData = NoData
  Paths <- TwoPaths
  MaxData = 2
  MaxItems = 2
  MaxOps = 1
  OldData <- FirstOld
  StagedBatch = 2
  MaxClock = 1
  MaxFaults = 1
  MaxCrashes = 1
  Limits <- MixedLimits
SYMMETRY PathSymmetry
INVARIANTS TypeOK LiveRowHasFile ClosedRowHasNoFile PairsComplete
PROPERTIES ReconcileSparesLanded RecycledDataKept DoneIsDone ImplementsLedger
