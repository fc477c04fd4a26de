SPECIFICATION Spec
CONSTANTS
  a = a  b = b
  NoData = NoData
  Paths <- OnePath
  MaxData = 2
  MaxItems = 1
  MaxOps = 1
  OldData <- NoneOld
  StagedBatch = 1
  MaxClock = 0
  MaxFaults = 0
  MaxCrashes = 0
  Limits <- FullLimits
PROPERTIES NoClobber
