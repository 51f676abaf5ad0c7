\* Two runs and a crash; one run, fair, with a crash, an API error and a failed save;
\* one run whose Pods fail once; two saves with a crash and a failed write.
SPECIFICATION RunnerSpec
CONSTANTS
  None = None
  Partial = Partial
  r1 = r1  r2 = r2
  Runs <- TwoRuns
  Tasks <- OneTask
  NStages = 1
  StageOf <- OneStage
  MaxActive = 2
  ContinueOnFailure = TRUE
  AllowConcurrentRuns = FALSE
  BackoffLimit = 0
  Faults <- OneCrash
INVARIANTS OneRunAtATime
PROPERTIES  CancelIsRecorded SavesAreSafe
CHECK_DEADLOCK FALSE
