SPECIFICATION FairSpec
CONSTANTS
  a = a  b = b
  NoData = NoData
  Paths <- OnePath
  MaxData = 2
  MaxItems = 2
  MaxOps = 1
  OldData <- FirstOld
  StagedBatch = 1
  MaxClock = 1
  MaxFaults = 1
  MaxCrashes = 1
  Limits <- TwoLimits
PROPERTIES OpsAnswered ExpiredPurged BacklogDrains
