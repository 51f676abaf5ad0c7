\* Two parallel tasks and a third after them, with a crash; or two stages with all faults.
SPECIFICATION FaultsSpec
CONSTANTS
  r1 = r1  r2 = r2
  Runs <- OneRun
  Tasks <- ThreeTasks
  NStages = 2
  StageOf <- TwoThenOne
  MaxActive = 2
  ContinueOnFailure = TRUE
  AllowConcurrentRuns = FALSE
  BackoffLimit = 0
  Faults <- OneCrash
INVARIANTS TypeOK JobCreatedOnce StageBarrier VerdictIsReal EndedRunIsQuiet 
PROPERTIES DurableSpec
CHECK_DEADLOCK FALSE
