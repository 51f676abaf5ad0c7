\* One Pod whose last line comes late.
SPECIFICATION Spec
CONSTANTS
  BackoffLimit = 0
  MaxLines = 2
  MaxFaults = 0
INVARIANTS CompleteLogs
CHECK_DEADLOCK FALSE
