SPECIFICATION Spec
CONSTANTS
  a = a  b = b
  NoData = NoData
  Paths <- OnePath
  MaxData = 1
  MaxItems = 1
  MaxOps = 0
  OldData <- FirstOld
  StagedBatch = 1
  MaxClock = 0
  MaxFaults = 0
  MaxCrashes = 0
  Limits <- FullLimits
PROPERTIES InFlightKept
