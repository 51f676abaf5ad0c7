---------------------------- MODULE MCRunnerFaults ----------------------------
(* One run of the batch runner, in one of two ways: parallel tasks and one after them with a crash, which is *)
(* BatchRunner as extended here; or two stages with every kind of fault, a Pod that is replaced once and a    *)
(* plan that stops at the first failure.  What is not at work stays as it is.                                 *)
EXTENDS MCBatchRunner

VARIABLES
  part,  \* what is at work
  faultyUp, faultyActive, faultyCanceled, faultyRpc, faultyStage, faultyTodo, faultyFailed, faultyPc,
  faultyMem, faultyDisk, faultyJob, faultyGone, faultyRetries, faultyPdb, faultyCreated, faultyBudget

faultyVars == <<faultyUp, faultyActive, faultyCanceled, faultyRpc, faultyStage, faultyTodo,
  faultyFailed, faultyPc, faultyMem, faultyDisk, faultyJob, faultyGone, faultyRetries, faultyPdb,
  faultyCreated, faultyBudget>>
Faulty == INSTANCE BatchRunner WITH up <- faultyUp, active <- faultyActive,
  canceled <- faultyCanceled, rpc <- faultyRpc, stage <- faultyStage, todo <- faultyTodo,
  failed <- faultyFailed, pc <- faultyPc, mem <- faultyMem, disk <- faultyDisk, job <- faultyJob,
  gone <- faultyGone, retries <- faultyRetries, pdb <- faultyPdb, created <- faultyCreated,
  budget <- faultyBudget, Tasks <- TwoTasks, StageOf <- OneThenOne, ContinueOnFailure <- FALSE,
  Faults <- AllFaults, BackoffLimit <- 1

ASSUME FaultyAssumption == Faulty!RunnerAssumption

FaultsInit == part \in {"crash", "faulty"} /\ Init /\ Faulty!Init

FaultsNext ==
  \/ part = "crash" /\ Next /\ UNCHANGED <<part, faultyVars>>
  \/ part = "faulty" /\ Faulty!Next /\ UNCHANGED <<part, vars>>

FaultsSpec == FaultsInit /\ [][FaultsNext]_<<part, vars, faultyVars>>

-----------------------------------------------------------------------------
\* The same with every kind of fault, with tasks that are skipped and with a Pod that is replaced: no
\* Job twice unless a save failed, stages in order, verdicts that are real and nothing left executing.
FaultyRunsHold ==
  /\ Faulty!JobCreatedOnce /\ Faulty!StageBarrier
  /\ Faulty!VerdictIsReal /\ Faulty!EndedRunIsQuiet
=============================================================================
