SPECIFICATION FairSpec
CONSTANTS
  a = a  b = b
  NoData = NoData
  Paths <- OnePath
  MaxData = 1
  MaxItems = 1
  MaxOps = 0
  OldData <- NoneOld
  StagedBatch = 1
  MaxClock = 0
  MaxFaults = 0
  MaxCrashes = 1
  Limits <- FullLimits
PROPERTIES PassEnds
