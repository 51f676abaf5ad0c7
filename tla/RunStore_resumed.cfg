\* The temporary file of an interrupted save is taken for a run.
SPECIFICATION Spec
CONSTANTS
  None = None
  Partial = Partial
  Runs = {r1}
  Last = 3
  MaxCrashes = 2
  MaxWriteErrors = 0
PROPERTIES FinishedIsNotResumed
CHECK_DEADLOCK FALSE
