SPECIFICATION PartsSpec
CONSTANTS
  a = a  b = b  w1 = w1  w2 = w2
  RB_SCHEMA_VERSION = 1
  OtherVersion = 2
  Cmds <- TwoCmds
  MaxTries = 2
  MaxBreaks = 2
  Handles <- ThreeHandles
  Workers <- TwoWorkers
  MaxMsgs = 2
  MaxQuiet = 2
  MaxUnloads = 1
  MaxLeaks = 1
  StagedBatch = 2
  MaxStaged = 2
  MaxTimeouts = 3
  Tokens <- SomeTokens
  Volumes <- TwoVolumes
  Shares <- ShareS
  Files <- SomeFiles
  Trees <- SomeTrees
  RBSVC_MAX_TREE_RESTORE = 3
  Catalog <- SomeItems
  StoreDrive = "C:"
  PathLists <- TwoLists
  Quotas <- OneQuota
  POLICY_QUOTA_MAX_PER_SID = 2
  POLICY_WATERMARK_MAX_PASS = 1
  MaxShort = 1
  MaxReloads = 1
INVARIANTS
  PartsTypeOK RowsKept StrandedHasCause HandledOnce LostHasCause BesideHasCause
  RestoresHome  ReloadSafe
PROPERTIES
  StampIsLast DbHeals LiveConnectionKept Reconnects StopCompletes
  QuotaExact
\* A part that is at rest, a stopped service and a reader that has left do
\* nothing more.
CHECK_DEADLOCK FALSE
