------------------------------- MODULE MCRunner -------------------------------
(* The batch runner in one of four ways: two runs that compete to start, which is BatchRunner as extended *)
(* here; one run, scheduled fairly, with every kind of fault; one run without faults, whose Pods are     *)
(* replaced once; and the run files alone.  What is not at work stays as it is.                             *)
EXTENDS MCBatchRunner

CONSTANTS None, Partial

VARIABLES
  part,  \* what is at work
  liveUp, liveActive, liveCanceled, liveRpc, liveStage, liveTodo, liveFailed, livePc, liveMem,
  liveDisk, liveJob, liveGone, liveRetries, livePdb, liveCreated, liveBudget,
  storeUp, storeMutex, storeSaving, storeMemory, storeFile, storeTemps, storeCrashes, storeErrors

NoFaults == [k \in FaultKinds |-> 0]

liveVars == <<liveUp, liveActive, liveCanceled, liveRpc, liveStage, liveTodo, liveFailed, livePc,
  liveMem, liveDisk, liveJob, liveGone, liveRetries, livePdb, liveCreated, liveBudget>>
Live == INSTANCE BatchRunner WITH up <- liveUp, active <- liveActive, canceled <- liveCanceled,
  rpc <- liveRpc, stage <- liveStage, todo <- liveTodo, failed <- liveFailed, pc <- livePc,
  mem <- liveMem, disk <- liveDisk, job <- liveJob, gone <- liveGone, retries <- liveRetries,
  pdb <- livePdb, created <- liveCreated, budget <- liveBudget, Runs <- OneRun, Tasks <- TwoTasks,
  NStages <- 2, StageOf <- OneThenOne, ContinueOnFailure <- FALSE, Faults <- AllFaults

Retry == INSTANCE BatchRunner WITH up <- liveUp, active <- liveActive, canceled <- liveCanceled,
  rpc <- liveRpc, stage <- liveStage, todo <- liveTodo, failed <- liveFailed, pc <- livePc,
  mem <- liveMem, disk <- liveDisk, job <- liveJob, gone <- liveGone, retries <- liveRetries,
  pdb <- livePdb, created <- liveCreated, budget <- liveBudget, Runs <- OneRun, Tasks <- TwoTasks,
  NStages <- 2, StageOf <- OneThenOne, ContinueOnFailure <- FALSE, Faults <- NoFaults,
  BackoffLimit <- 1

storeVars == <<storeUp, storeMutex, storeSaving, storeMemory, storeFile, storeTemps, storeCrashes,
  storeErrors>>
Store == INSTANCE RunStore WITH up <- storeUp, mutex <- storeMutex, saving <- storeSaving,
  memory <- storeMemory, file <- storeFile, temps <- storeTemps, crashes <- storeCrashes,
  errors <- storeErrors, Last <- 3, MaxCrashes <- 1, MaxWriteErrors <- 1

RunnerInit ==
  \/ part = "two" /\ Init /\ Live!Init /\ Store!Init
  \/ part = "live" /\ Live!Init /\ Store!Init /\ Init
  \/ part = "retry" /\ Retry!Init /\ Store!Init /\ Init
  \/ part = "store" /\ Store!Init /\ Live!Init /\ Init

RunnerNext ==
  \/ part = "two" /\ Next /\ UNCHANGED <<part, liveVars, storeVars>>
  \/ part = "live" /\ Live!Next /\ UNCHANGED <<part, vars, storeVars>>
  \/ part = "retry" /\ Retry!Next /\ UNCHANGED <<part, vars, storeVars>>
  \/ part = "store" /\ Store!Next /\ UNCHANGED <<part, vars, liveVars>>

ASSUME RunnerPartsAssumption ==
  /\ Live!RunnerAssumption
  /\ Retry!RunnerAssumption
  /\ Store!StoreAssumption

runnerVars == <<part, vars, liveVars, storeVars>>

RunnerSpec ==
  /\ RunnerInit /\ [][RunnerNext]_runnerVars
  /\ WF_liveVars(part = "live" /\ Live!Restart)
  /\ \A r \in OneRun : WF_liveVars(part = "live" /\ Live!RunStep(r))
  /\ \A r \in OneRun, t \in TwoTasks :
       WF_liveVars(part = "live" /\ Live!TaskStep(r, t)) /\ WF_liveVars(part = "live" /\ Live!JobProgress(r, t))

-----------------------------------------------------------------------------
\* Every accepted run gets a verdict, through crashes and failed requests and saves, and no later
\* save, restart or cancellation changes it (BatchRunner!RunsFinish, FinalStaysFinal).
VerdictsStand == Live!RunsFinish /\ Live!FinalStaysFinal

\* A run that is cancelled while its tasks go on is recorded as cancelled in the end
\* (BatchRunner!CancelTakesEffect).
CancelIsRecorded == Live!CancelTakesEffect

\* A crash inside a save loses no progress and no run: files only advance, the list reads clean
\* ones, and a run resumes from its file (RunStore!SavesAreSafe).
SavesAreSafe == Store!SavesAreSafe
=============================================================================
