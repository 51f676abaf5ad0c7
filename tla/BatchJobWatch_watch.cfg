\* Two Pods, a request that fails, a restart or a cancelled run, and log collection that
\* may be given up.
SPECIFICATION FairSpec
CONSTANTS
  BackoffLimit = 1
  MaxLines = 1
  MaxFaults = 1
INVARIANTS RecordInOrder
PROPERTIES WatchEnds
CHECK_DEADLOCK FALSE
