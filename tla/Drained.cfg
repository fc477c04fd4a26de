SPECIFICATION ServiceSpec
CONSTANTS
  StagedBatch = 1
  MaxStaged = 1
  MaxTimeouts = 0
INVARIANTS DrainedBeforeClose
\* A stopped service does nothing more.
CHECK_DEADLOCK FALSE
