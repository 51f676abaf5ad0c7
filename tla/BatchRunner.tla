----------------------------- MODULE BatchRunner -----------------------------
(***************************************************************************)
(* The batch runner of pkg/batchrunner: an HTTP service that starts, cancels*)
(* and resumes runs.  A run executes its tasks stage by stage, each task as *)
(* one Kubernetes Job, and records its progress in a file that survives the *)
(* process.  The Jobs survive it too.                                       *)
(*                                                                          *)
(* One action per critical section, Kubernetes request or channel operation *)
(* of the code.  `mem` is the Run a goroutine holds, `disk` the file         *)
(* SaveRun last renamed into place.  What a task's Pods report while the Job *)
(* runs is in BatchJobWatch, the temporary files of SaveRun in RunStore.  The *)
(* plan the stages come from is a parameter.                                 *)
(***************************************************************************)
EXTENDS Naturals, FiniteSets

CONSTANTS
  Runs,                 \* run identifiers
  Tasks,                \* task indexes of a run, in plan order
  NStages, StageOf,     \* buildStages: the stage of each task
  MaxActive,            \* RunOptions.MaxActiveTasks after defaultRunOptions
  ContinueOnFailure,    \* RunOptions.ContinueOnFailure
  AllowConcurrentRuns,  \* Config.AllowConcurrentRuns
  BackoffLimit,         \* Config.JobBackoffLimit
  Faults                \* bounds of the crashes, API errors and failed saves

FaultKinds == {"crash", "api", "save"}

ASSUME RunnerAssumption ==
  /\ Tasks \subseteq Nat
  /\ IsFiniteSet(Tasks)
  /\ NStages \in Nat
  /\ StageOf \in [Tasks -> 1..NStages]
  /\ MaxActive \in Nat \ {0}
  /\ ContinueOnFailure \in BOOLEAN
  /\ AllowConcurrentRuns \in BOOLEAN
  /\ BackoffLimit \in Nat
  /\ Faults \in [FaultKinds -> Nat]

VARIABLES
  up,        \* the process is running
  active,    \* Runner.active: "none", "nil" (reserved) or "cancel" (a CancelFunc)
  canceled,  \* ctx.Err() # nil for the run's context
  rpc,       \* where StartRun or executeRun of the run is
  stage,     \* the stage executeRun is at
  todo,      \* the indexes the feeder of executeStage has not taken yet
  failed,    \* executeRun's `failed`, the current stage's included
  pc,        \* where the worker that holds the task is in executeTask/RunTask
  mem,       \* the Run the goroutines share under runMu
  disk,      \* the run file
  job,       \* phase of the task's Kubernetes Job
  gone,      \* tasks whose Job object was deleted or has expired
  retries,   \* Pods of the Job that failed and were replaced
  pdb,       \* tasks whose PodDisruptionBudget exists
  created,   \* how often a Job was created for the task
  budget     \* faults left

runVars  == <<active, canceled, rpc, stage, todo, failed>>
kubeVars == <<job, gone, retries, pdb, created>>
vars == <<up, active, canceled, rpc, stage, todo, failed, pc, mem, disk,
          job, gone, retries, pdb, created, budget>>

-----------------------------------------------------------------------------
\* A definition named Bug... is a plausible slip in the definition that follows
\* it; the specification never uses one.  The README says which property each
\* of them breaks.
TaskDone   == {"succeeded", "failed", "skipped", "cancelled"}
TaskStatus == {"pending", "running"} \cup TaskDone
RunDone    == {"succeeded", "failed", "cancelled"}
RunStatus  == {"none", "pending", "running"} \cup RunDone
RunRecord  == [status: RunStatus, tasks: [Tasks -> TaskStatus]]

RunPC  == {"idle", "prepare", "install", "begin", "next", "feed", "join",
           "finish", "leave"}
TaskPC == {"idle", "got", "pdb", "get", "create", "recover", "findpod", "rpdb",
           "wait", "waitedOk", "waitedErr", "reread", "delete",
           "cleanOk", "cleanErr", "doneOk", "doneErr"}

NewRun     == [status |-> "none", tasks |-> [t \in Tasks |-> "pending"]]
PendingRun == [status |-> "pending", tasks |-> [t \in Tasks |-> "pending"]]

StageTasks(s) == {t \in Tasks : StageOf[t] = s}
Unfinished(r) == disk[r].status \in {"pending", "running"}
Busy(r)       == {t \in Tasks : pc[r][t] # "idle"}
Present(r, t) == job[r][t] # "none" /\ t \notin gone[r]
LiveJob(r, t) == Present(r, t) /\ job[r][t] \in {"pending", "running"}

\* executeStage starts one worker for a stage of one task.
Workers(s) == IF Cardinality(StageTasks(s)) = 1 THEN 1 ELSE MaxActive

SpendFault(k) ==
  /\ budget[k] > 0
  /\ budget' = [budget EXCEPT ![k] = @ - 1]

\* SaveRun under runMu: the shared Run changes, the file follows unless the
\* save fails, and the runner ignores that it did.
Save(r, record) ==
  /\ mem' = [mem EXCEPT ![r] = record]
  /\ \/ disk' = [disk EXCEPT ![r] = record] /\ UNCHANGED budget
     \/ SpendFault("save") /\ UNCHANGED disk

SetTask(r, t, status) == [mem[r] EXCEPT !.tasks[t] = status]

\* doJSON repeats network errors, 429 and 5xx until its context is done: a
\* request ends in an error because the run was cancelled or because the API
\* answered with another status.
RequestFails(r) == \/ canceled[r] /\ UNCHANGED budget
                   \/ SpendFault("api")
RequestAnswered(r) == ~canceled[r] /\ UNCHANGED budget

Goto(r, t, p) == pc' = [pc EXCEPT ![r][t] = p]

-----------------------------------------------------------------------------
Init ==
  /\ up = TRUE
  /\ active = [r \in Runs |-> "none"]
  /\ canceled = [r \in Runs |-> FALSE]
  /\ rpc = [r \in Runs |-> "idle"]
  /\ stage = [r \in Runs |-> 0]
  /\ todo = [r \in Runs |-> {}]
  /\ failed = [r \in Runs |-> FALSE]
  /\ pc = [r \in Runs |-> [t \in Tasks |-> "idle"]]
  /\ mem = [r \in Runs |-> NewRun]
  /\ disk = [r \in Runs |-> NewRun]
  /\ job = [r \in Runs |-> [t \in Tasks |-> "none"]]
  /\ gone = [r \in Runs |-> {}]
  /\ retries = [r \in Runs |-> [t \in Tasks |-> 0]]
  /\ pdb = [r \in Runs |-> {}]
  /\ created = [r \in Runs |-> [t \in Tasks |-> 0]]
  /\ budget = Faults

(***************************************************************************)
(* StartRun, CancelRun and the process.                                    *)
(***************************************************************************)
ReserveRun(r) ==
  /\ up /\ rpc[r] = "idle" /\ active[r] = "none" /\ disk[r].status = "none"
  /\ AllowConcurrentRuns \/ \A q \in Runs : active[q] = "none"
  /\ active' = [active EXCEPT ![r] = "nil"]
  /\ rpc' = [rpc EXCEPT ![r] = "prepare"]
  /\ UNCHANGED <<up, canceled, stage, todo, failed, pc, mem, disk, kubeVars, budget>>

\* The logs are prepared and the Pending run saved.  A failure, or a selection
\* without tasks, gives the reservation back.
PrepareRun(r) ==
  /\ rpc[r] = "prepare"
  /\ \/ /\ Tasks # {}
        /\ disk' = [disk EXCEPT ![r] = PendingRun]
        /\ mem' = [mem EXCEPT ![r] = PendingRun]
        /\ rpc' = [rpc EXCEPT ![r] = "install"]
        /\ UNCHANGED <<active, budget>>
     \/ /\ SpendFault("save") \/ (Tasks = {} /\ UNCHANGED budget)
        /\ active' = [active EXCEPT ![r] = "none"]
        /\ rpc' = [rpc EXCEPT ![r] = "idle"]
        /\ UNCHANGED <<disk, mem>>
  /\ UNCHANGED <<up, canceled, stage, todo, failed, pc, kubeVars>>

InstallCancel(r) ==
  /\ rpc[r] = "install"
  /\ active' = [active EXCEPT ![r] = "cancel"]
  /\ rpc' = [rpc EXCEPT ![r] = "begin"]
  /\ UNCHANGED <<up, canceled, stage, todo, failed, pc, mem, disk, kubeVars, budget>>

\* CancelRun of a run with a CancelFunc.  While the entry is nil CancelRun
\* returns without an effect, so the model has no action for it.
CancelActive(r) ==
  /\ up /\ active[r] = "cancel" /\ ~canceled[r]
  /\ canceled' = [canceled EXCEPT ![r] = TRUE]
  /\ UNCHANGED <<up, active, rpc, stage, todo, failed, pc, mem, disk, kubeVars, budget>>

\* CancelRun of a run that is not active but unfinished in its file: the last
\* save of the run was lost.
CancelRecorded(r) ==
  /\ up /\ active[r] = "none" /\ Unfinished(r)
  /\ disk' = [disk EXCEPT ![r].status = "cancelled"]
  /\ UNCHANGED <<up, runVars, pc, mem, kubeVars, budget>>

Crash ==
  /\ up
  /\ SpendFault("crash")
  /\ up' = FALSE
  /\ active' = [r \in Runs |-> "none"]
  /\ canceled' = [r \in Runs |-> FALSE]
  /\ rpc' = [r \in Runs |-> "idle"]
  /\ stage' = [r \in Runs |-> 0]
  /\ todo' = [r \in Runs |-> {}]
  /\ failed' = [r \in Runs |-> FALSE]
  /\ pc' = [r \in Runs |-> [t \in Tasks |-> "idle"]]
  /\ mem' = [r \in Runs |-> NewRun]
  /\ UNCHANGED <<disk, kubeVars>>

\* Resumed runs are not entered in active.
BugRestartUnlisted ==
  /\ ~up
  /\ up' = TRUE
  /\ rpc' = [r \in Runs |-> IF Unfinished(r) THEN "begin" ELSE "idle"]
  /\ mem' = [r \in Runs |-> IF Unfinished(r) THEN disk[r] ELSE NewRun]
  /\ UNCHANGED <<active, canceled, stage, todo, failed, pc, disk, kubeVars, budget>>

\* A run that was only Pending is not resumed.
BugRestartRunning ==
  /\ ~up
  /\ up' = TRUE
  /\ active' = [r \in Runs |-> IF disk[r].status = "running" THEN "cancel" ELSE "none"]
  /\ rpc' = [r \in Runs |-> IF disk[r].status = "running" THEN "begin" ELSE "idle"]
  /\ mem' = [r \in Runs |-> IF disk[r].status = "running" THEN disk[r] ELSE NewRun]
  /\ UNCHANGED <<canceled, stage, todo, failed, pc, disk, kubeVars, budget>>

\* ResumeRuns, before the HTTP server listens.
Restart ==
  /\ ~up
  /\ up' = TRUE
  /\ active' = [r \in Runs |-> IF Unfinished(r) THEN "cancel" ELSE "none"]
  /\ rpc' = [r \in Runs |-> IF Unfinished(r) THEN "begin" ELSE "idle"]
  /\ mem' = [r \in Runs |-> IF Unfinished(r) THEN disk[r] ELSE NewRun]
  /\ UNCHANGED <<canceled, stage, todo, failed, pc, disk, kubeVars, budget>>

(***************************************************************************)
(* executeRun and the feeder of executeStage.                              *)
(***************************************************************************)
BeginRun(r) ==
  /\ rpc[r] = "begin"
  /\ Save(r, [mem[r] EXCEPT !.status = "running"])
  /\ rpc' = [rpc EXCEPT ![r] = "next"]
  /\ stage' = [stage EXCEPT ![r] = 1]
  /\ UNCHANGED <<up, active, canceled, todo, failed, pc, kubeVars>>

EndStages(r) ==
  /\ rpc[r] = "next"
  /\ canceled[r] \/ stage[r] > NStages
  /\ rpc' = [rpc EXCEPT ![r] = "finish"]
  /\ UNCHANGED <<up, active, canceled, stage, todo, failed, pc, mem, disk, kubeVars, budget>>

SkipStage(r) ==
  /\ rpc[r] = "next" /\ ~canceled[r] /\ stage[r] <= NStages
  /\ failed[r] /\ ~ContinueOnFailure
  /\ Save(r, [mem[r] EXCEPT !.tasks =
       [t \in Tasks |-> IF StageOf[t] = stage[r] /\ @[t] = "pending"
                          THEN "skipped" ELSE @[t]]])
  /\ stage' = [stage EXCEPT ![r] = @ + 1]
  /\ UNCHANGED <<up, active, canceled, rpc, todo, failed, pc, kubeVars>>

EnterStage(r) ==
  /\ rpc[r] = "next" /\ ~canceled[r] /\ stage[r] <= NStages
  /\ ~failed[r] \/ ContinueOnFailure
  /\ todo' = [todo EXCEPT ![r] = StageTasks(stage[r])]
  /\ rpc' = [rpc EXCEPT ![r] = "feed"]
  /\ UNCHANGED <<up, active, canceled, stage, failed, pc, mem, disk, kubeVars, budget>>

NextToFeed(r, t) ==
  /\ rpc[r] = "feed" /\ t \in todo[r]
  /\ \A u \in todo[r] : t <= u

\* A resumed run skips what is settled; a failed task fails the stage.
FeedSettled(r, t) ==
  /\ NextToFeed(r, t) /\ mem[r].tasks[t] \in TaskDone
  /\ failed' = [failed EXCEPT ![r] = @ \/ mem[r].tasks[t] = "failed"]
  /\ todo' = [todo EXCEPT ![r] = @ \ {t}]
  /\ UNCHANGED <<up, active, canceled, rpc, stage, pc, mem, disk, kubeVars, budget>>

FeedCancelled(r, t) ==
  /\ NextToFeed(r, t) /\ mem[r].tasks[t] \notin TaskDone /\ canceled[r]
  /\ Save(r, SetTask(r, t, "cancelled"))
  /\ todo' = [todo EXCEPT ![r] = @ \ {t}]
  /\ UNCHANGED <<up, active, canceled, rpc, stage, failed, pc, kubeVars>>

\* The unbuffered send: it needs a worker that is free to receive.
FeedSend(r, t) ==
  /\ NextToFeed(r, t) /\ mem[r].tasks[t] \notin TaskDone /\ ~canceled[r]
  /\ Cardinality(Busy(r) \cap StageTasks(stage[r])) < Workers(stage[r])
  /\ todo' = [todo EXCEPT ![r] = @ \ {t}]
  /\ Goto(r, t, "got")
  /\ UNCHANGED <<up, active, canceled, rpc, stage, failed, mem, disk, kubeVars, budget>>

CloseFeed(r) ==
  /\ rpc[r] = "feed" /\ todo[r] = {}
  /\ rpc' = [rpc EXCEPT ![r] = "join"]
  /\ UNCHANGED <<up, active, canceled, stage, todo, failed, pc, mem, disk, kubeVars, budget>>

BugJoinStage(r) ==
  /\ rpc[r] = "join"
  /\ rpc' = [rpc EXCEPT ![r] = "next"]
  /\ stage' = [stage EXCEPT ![r] = @ + 1]
  /\ UNCHANGED <<up, active, canceled, todo, failed, pc, mem, disk, kubeVars, budget>>

JoinStage(r) ==
  /\ rpc[r] = "join" /\ Busy(r) = {}
  /\ rpc' = [rpc EXCEPT ![r] = "next"]
  /\ stage' = [stage EXCEPT ![r] = @ + 1]
  /\ UNCHANGED <<up, active, canceled, todo, failed, pc, mem, disk, kubeVars, budget>>

\* Tasks without a result are cancelled with the run; results stand.
CancelledRecord(record) ==
  [status |-> "cancelled",
   tasks  |-> [t \in Tasks |-> IF record.tasks[t] \in TaskDone
                                 THEN record.tasks[t] ELSE "cancelled"]]

BugFinishRun(r) ==
  /\ rpc[r] = "finish"
  /\ \/ failed[r] /\ Save(r, [mem[r] EXCEPT !.status = "failed"])
     \/ ~failed[r] /\ canceled[r] /\ Save(r, CancelledRecord(mem[r]))
     \/ ~failed[r] /\ ~canceled[r] /\ Save(r, [mem[r] EXCEPT !.status = "succeeded"])
  /\ rpc' = [rpc EXCEPT ![r] = "leave"]
  /\ UNCHANGED <<up, active, canceled, stage, todo, failed, pc, kubeVars>>

FinishRun(r) ==
  /\ rpc[r] = "finish"
  /\ \/ canceled[r] /\ Save(r, CancelledRecord(mem[r]))
     \/ ~canceled[r] /\ failed[r] /\ Save(r, [mem[r] EXCEPT !.status = "failed"])
     \/ ~canceled[r] /\ ~failed[r] /\ Save(r, [mem[r] EXCEPT !.status = "succeeded"])
  /\ rpc' = [rpc EXCEPT ![r] = "leave"]
  /\ UNCHANGED <<up, active, canceled, stage, todo, failed, pc, kubeVars>>

LeaveRun(r) ==
  /\ rpc[r] = "leave"
  /\ active' = [active EXCEPT ![r] = "none"]
  /\ rpc' = [rpc EXCEPT ![r] = "idle"]
  /\ UNCHANGED <<up, canceled, stage, todo, failed, pc, mem, disk, kubeVars, budget>>

(***************************************************************************)
(* A worker: executeTask and KubernetesExecutor.RunTask.                   *)
(***************************************************************************)
WorkerCancelled(r, t) ==
  /\ pc[r][t] = "got" /\ canceled[r]
  /\ Save(r, SetTask(r, t, "cancelled"))
  /\ Goto(r, t, "idle")
  /\ UNCHANGED <<up, runVars, kubeVars>>

\* `recovering` is ignored.
BugStartTaskAnew(r, t) ==
  /\ pc[r][t] = "got"
  /\ Save(r, SetTask(r, t, "running"))
  /\ Goto(r, t, "pdb")
  /\ UNCHANGED <<up, runVars, kubeVars>>

\* The running status is not saved before the Job is created.
BugStartTaskUnsaved(r, t) ==
  /\ pc[r][t] = "got"
  /\ mem' = [mem EXCEPT ![r] = SetTask(r, t, "running")]
  /\ Goto(r, t, IF mem[r].tasks[t] = "running" THEN "recover" ELSE "pdb")
  /\ UNCHANGED <<up, runVars, disk, budget, kubeVars>>

\* The worker looked at the context before it took runMu: the run may have
\* been cancelled since.
StartTask(r, t) ==
  /\ pc[r][t] = "got"
  /\ Save(r, SetTask(r, t, "running"))
  /\ Goto(r, t, IF mem[r].tasks[t] = "running" THEN "recover" ELSE "pdb")
  /\ UNCHANGED <<up, runVars, kubeVars>>

\* A POST that fails with the context may have reached the API server.
EnsurePDB(r, t) ==
  /\ pc[r][t] \in {"pdb", "rpdb"}
  /\ \/ /\ RequestAnswered(r)
        /\ pdb' = [pdb EXCEPT ![r] = @ \cup {t}]
        /\ Goto(r, t, IF pc[r][t] = "pdb" THEN "get" ELSE "wait")
     \/ /\ RequestFails(r)
        /\ \/ UNCHANGED pdb
           \/ canceled[r] /\ pdb' = [pdb EXCEPT ![r] = @ \cup {t}]
        /\ Goto(r, t, "doneErr")
  /\ UNCHANGED <<up, runVars, mem, disk, job, gone, retries, created>>

GetJob(r, t) ==
  /\ pc[r][t] = "get"
  /\ \/ RequestAnswered(r) /\ Goto(r, t, IF Present(r, t) THEN "wait" ELSE "create")
     \/ RequestFails(r) /\ Goto(r, t, "cleanErr")
  /\ UNCHANGED <<up, runVars, mem, disk, kubeVars>>

NewJob(r, t) ==
  /\ job' = [job EXCEPT ![r][t] = "pending"]
  /\ gone' = [gone EXCEPT ![r] = @ \ {t}]
  /\ retries' = [retries EXCEPT ![r][t] = 0]
  /\ created' = [created EXCEPT ![r][t] = @ + 1]

\* The POST of createJob.  Its answer may be lost and the request repeated, the
\* repeated one then meets its own Job and the Conflict counts as success.
CreateJob(r, t) ==
  /\ pc[r][t] = "create"
  /\ \/ /\ RequestAnswered(r) /\ ~Present(r, t)
        /\ NewJob(r, t)
        /\ Goto(r, t, "wait") \/ UNCHANGED pc
     \/ /\ RequestAnswered(r) /\ Present(r, t)
        /\ Goto(r, t, "wait")
        /\ UNCHANGED <<job, gone, retries, created>>
     \/ /\ RequestFails(r)
        /\ \/ UNCHANGED <<job, gone, retries, created>>
           \/ canceled[r] /\ ~Present(r, t) /\ NewJob(r, t)
        /\ Goto(r, t, "cleanErr")
  /\ UNCHANGED <<up, runVars, mem, disk, pdb>>

\* Recovery looks at the Job first.
RecoverJob(r, t) ==
  /\ pc[r][t] = "recover"
  /\ \/ RequestFails(r) /\ Goto(r, t, "doneErr")
     \/ /\ RequestAnswered(r)
        /\ Goto(r, t, IF ~Present(r, t) \/ job[r][t] = "failed" THEN "doneErr"
                      ELSE IF job[r][t] = "succeeded" THEN "doneOk" ELSE "findpod")
  /\ UNCHANGED <<up, runVars, mem, disk, kubeVars>>

\* findRunningJobPod, a second request: only a Running Pod is reattached to.
FindRunningPod(r, t) ==
  /\ pc[r][t] = "findpod"
  /\ \/ RequestFails(r) /\ Goto(r, t, "doneErr")
     \/ /\ RequestAnswered(r)
        /\ Goto(r, t, IF Present(r, t) /\ job[r][t] = "running" THEN "rpdb" ELSE "doneErr")
  /\ UNCHANGED <<up, runVars, mem, disk, kubeVars>>

BugWaitJob(r, t) ==
  /\ pc[r][t] = "wait"
  /\ \/ RequestFails(r) /\ Goto(r, t, "waitedErr")
     \/ /\ RequestAnswered(r) /\ ~LiveJob(r, t)
        /\ Goto(r, t, IF Present(r, t) /\ job[r][t] = "failed"
                        THEN "waitedErr" ELSE "waitedOk")
  /\ UNCHANGED <<up, runVars, mem, disk, kubeVars>>

\* waitForJobCompletion returns; a Job that disappeared is an error.
WaitJob(r, t) ==
  /\ pc[r][t] = "wait"
  /\ \/ RequestFails(r) /\ Goto(r, t, "waitedErr")
     \/ /\ RequestAnswered(r) /\ ~LiveJob(r, t)
        /\ Goto(r, t, IF Present(r, t) /\ job[r][t] = "succeeded"
                        THEN "waitedOk" ELSE "waitedErr")
  /\ UNCHANGED <<up, runVars, mem, disk, kubeVars>>

\* The deferred cleanup of the budget is missing.
BugAfterWait(r, t) ==
  /\ \/ pc[r][t] \in {"waitedOk", "waitedErr"} /\ canceled[r] /\ Goto(r, t, "delete")
     \/ pc[r][t] = "waitedOk" /\ ~canceled[r] /\ Goto(r, t, "doneOk")
     \/ pc[r][t] = "waitedErr" /\ ~canceled[r] /\ Goto(r, t, "reread")
  /\ UNCHANGED <<up, runVars, mem, disk, kubeVars, budget>>

\* The decision after the log goroutine ended or ten seconds passed.
AfterWait(r, t) ==
  /\ \/ pc[r][t] \in {"waitedOk", "waitedErr"} /\ canceled[r] /\ Goto(r, t, "delete")
     \/ pc[r][t] = "waitedOk" /\ ~canceled[r] /\ Goto(r, t, "cleanOk")
     \/ pc[r][t] = "waitedErr" /\ ~canceled[r] /\ Goto(r, t, "reread")
  /\ UNCHANGED <<up, runVars, mem, disk, kubeVars, budget>>

\* A failed wait reads the outcome of the Job once more.
ReReadJob(r, t) ==
  /\ pc[r][t] = "reread"
  /\ \/ RequestFails(r) /\ Goto(r, t, "cleanErr")
     \/ /\ RequestAnswered(r)
        /\ Goto(r, t, IF Present(r, t) /\ job[r][t] = "succeeded"
                        THEN "cleanOk" ELSE "cleanErr")
  /\ UNCHANGED <<up, runVars, mem, disk, kubeVars>>

\* DeleteJob with a context of its own; its error is dropped.
DeleteJob(r, t) ==
  /\ pc[r][t] = "delete"
  /\ \/ gone' = [gone EXCEPT ![r] = @ \cup {t}] /\ UNCHANGED budget
     \/ SpendFault("api") /\ UNCHANGED gone
  /\ Goto(r, t, "cleanErr")
  /\ UNCHANGED <<up, runVars, mem, disk, job, retries, pdb, created>>

CleanupPDB(r, t) ==
  /\ pc[r][t] \in {"cleanOk", "cleanErr"}
  /\ \/ pdb' = [pdb EXCEPT ![r] = @ \ {t}] /\ UNCHANGED budget
     \/ SpendFault("api") /\ UNCHANGED pdb
  /\ Goto(r, t, IF pc[r][t] = "cleanOk" THEN "doneOk" ELSE "doneErr")
  /\ UNCHANGED <<up, runVars, mem, disk, job, gone, retries, created>>

BugOutcome(r, t) == IF canceled[r] THEN "terminating"
                    ELSE IF pc[r][t] = "doneErr" THEN "failed" ELSE "succeeded"

Outcome(r, t) == IF canceled[r] THEN "cancelled"
                 ELSE IF pc[r][t] = "doneErr" THEN "failed" ELSE "succeeded"

RecordTask(r, t) ==
  /\ pc[r][t] \in {"doneOk", "doneErr"}
  /\ Save(r, SetTask(r, t, Outcome(r, t)))
  /\ failed' = [failed EXCEPT ![r] = @ \/ pc[r][t] = "doneErr"]
  /\ Goto(r, t, "idle")
  /\ UNCHANGED <<up, active, canceled, rpc, stage, todo, kubeVars>>

(***************************************************************************)
(* Kubernetes: a Job's Pod starts, fails and is replaced at most           *)
(* BackoffLimit times, the Job ends, and expires some time after it ended.  *)
(***************************************************************************)
JobStarts(r, t) ==
  /\ LiveJob(r, t) /\ job[r][t] = "pending"
  /\ job' = [job EXCEPT ![r][t] = "running"]
  /\ UNCHANGED <<up, runVars, pc, mem, disk, gone, retries, pdb, created, budget>>

JobRetries(r, t) ==
  /\ LiveJob(r, t) /\ job[r][t] = "running" /\ retries[r][t] < BackoffLimit
  /\ job' = [job EXCEPT ![r][t] = "pending"]
  /\ retries' = [retries EXCEPT ![r][t] = @ + 1]
  /\ UNCHANGED <<up, runVars, pc, mem, disk, gone, pdb, created, budget>>

JobEnds(r, t) ==
  /\ LiveJob(r, t) /\ job[r][t] = "running"
  /\ \E phase \in {"succeeded", "failed"} : job' = [job EXCEPT ![r][t] = phase]
  /\ UNCHANGED <<up, runVars, pc, mem, disk, gone, retries, pdb, created, budget>>

\* ttlSecondsAfterFinished (an hour by default) outlasts the retries of one POST.
JobExpires(r, t) ==
  /\ Present(r, t) /\ job[r][t] \in {"succeeded", "failed"} /\ pc[r][t] # "create"
  /\ gone' = [gone EXCEPT ![r] = @ \cup {t}]
  /\ UNCHANGED <<up, runVars, pc, mem, disk, job, retries, pdb, created, budget>>

-----------------------------------------------------------------------------
Requests(r) == ReserveRun(r) \/ CancelActive(r) \/ CancelRecorded(r)

RunStep(r) ==
  \/ PrepareRun(r) \/ InstallCancel(r) \/ BeginRun(r) \/ EndStages(r)
  \/ SkipStage(r) \/ EnterStage(r) \/ CloseFeed(r) \/ JoinStage(r)
  \/ FinishRun(r) \/ LeaveRun(r)
  \/ \E t \in Tasks : FeedSettled(r, t) \/ FeedCancelled(r, t) \/ FeedSend(r, t)

TaskStep(r, t) ==
  \/ WorkerCancelled(r, t) \/ StartTask(r, t) \/ EnsurePDB(r, t)
  \/ GetJob(r, t) \/ CreateJob(r, t) \/ RecoverJob(r, t) \/ FindRunningPod(r, t)
  \/ WaitJob(r, t) \/ AfterWait(r, t) \/ ReReadJob(r, t) \/ DeleteJob(r, t)
  \/ CleanupPDB(r, t) \/ RecordTask(r, t)

JobProgress(r, t) == JobStarts(r, t) \/ JobEnds(r, t)

JobStep(r, t) == JobProgress(r, t) \/ JobRetries(r, t) \/ JobExpires(r, t)

Next ==
  \/ Crash \/ Restart
  \/ \E r \in Runs : Requests(r) \/ RunStep(r)
  \/ \E r \in Runs, t \in Tasks : TaskStep(r, t) \/ JobStep(r, t)

Spec == Init /\ [][Next]_vars

\* Goroutines are scheduled, requests are answered, Pods are started and end,
\* and Kubernetes restarts the process.  No request has to be made.
Fairness ==
  /\ WF_vars(Restart)
  /\ \A r \in Runs : WF_vars(RunStep(r))
  /\ \A r \in Runs, t \in Tasks : WF_vars(TaskStep(r, t)) /\ WF_vars(JobProgress(r, t))

FairSpec == Spec /\ Fairness
-----------------------------------------------------------------------------
(***************************************************************************)
(* Properties.                                                             *)
(***************************************************************************)

\* Every variable has its type, and no more faults happen than allowed.
TypeOK ==
  /\ up \in BOOLEAN
  /\ active \in [Runs -> {"none", "nil", "cancel"}]
  /\ canceled \in [Runs -> BOOLEAN]
  /\ rpc \in [Runs -> RunPC]
  /\ stage \in [Runs -> 0..(NStages + 1)]
  /\ todo \in [Runs -> SUBSET Tasks]
  /\ failed \in [Runs -> BOOLEAN]
  /\ pc \in [Runs -> [Tasks -> TaskPC]]
  /\ mem \in [Runs -> RunRecord]
  /\ disk \in [Runs -> RunRecord]
  /\ job \in [Runs -> [Tasks -> {"none", "pending", "running", "succeeded", "failed"}]]
  /\ gone \in [Runs -> SUBSET Tasks]
  /\ retries \in [Runs -> [Tasks -> 0..BackoffLimit]]
  /\ pdb \in [Runs -> SUBSET Tasks]
  /\ created \in [Runs -> [Tasks -> Nat]]
  /\ budget \in [FaultKinds -> Nat]

\* Two runs are never unfinished at once when Config.AllowConcurrentRuns is
\* off, neither in Runner.active nor in the files, restarts included: StartRun
\* looks at active alone, so active must cover the files (runner.go:33-39,
\* 92-100).  It takes a save that fails to break this.
OneRunAtATime ==
  (~AllowConcurrentRuns /\ Faults["save"] = 0) =>
    \A r, q \in Runs :
      (active[r] # "none" \/ Unfinished(r)) /\ (active[q] # "none" \/ Unfinished(q))
        => r = q

\* The Job of a task is created once, however often the process is restarted
\* and whatever the API does: a task whose creation may have been attempted is
\* on disk as running and is only reattached to (runner.go:256, ensureJob).
JobCreatedOnce ==
  Faults["save"] = 0 => \A r \in Runs, t \in Tasks : created[r][t] <= 1

\* While a task is with a worker every task of the earlier stages is settled,
\* also when the run was resumed in the middle of a stage.
StageBarrier ==
  \A r \in Runs, t \in Tasks :
    pc[r][t] # "idle" =>
      \A u \in Tasks : StageOf[u] < StageOf[t] => mem[r].tasks[u] \in TaskDone

\* A task is recorded as succeeded only when its Job did succeed, although the
\* record is made several requests later, or after a restart, or when the Job
\* object is gone.
SuccessIsReal ==
  \A r \in Runs, t \in Tasks :
    "succeeded" \in {mem[r].tasks[t], disk[r].tasks[t]} => job[r][t] = "succeeded"

\* The verdict of a run agrees with the tasks in the same file.  A task can be
\* cancelled in a run that succeeded: a crash forgets that the run was being
\* cancelled.
VerdictAgrees ==
  Faults["save"] = 0 =>
    \A r \in Runs :
      LET statuses == {disk[r].tasks[t] : t \in Tasks}
      IN  /\ disk[r].status = "succeeded" => statuses \subseteq {"succeeded", "cancelled"}
          /\ disk[r].status = "failed" => "failed" \in statuses /\ statuses \subseteq TaskDone
          /\ disk[r].status = "cancelled" => statuses \subseteq TaskDone

Happened(k) == budget[k] < Faults[k]

\* Without a crash a run that succeeded ran all its tasks to success.
SucceededMeansAll ==
  ~Happened("crash") /\ ~Happened("save") =>
    \A r \in Runs : disk[r].status = "succeeded" =>
      \A t \in Tasks : disk[r].tasks[t] = "succeeded"

\* What a run file says of success is true: of its tasks, and of the run.
VerdictIsReal == SuccessIsReal /\ VerdictAgrees /\ SucceededMeansAll

\* Without crashes and API errors, a run that ended by itself leaves no Job
\* executing and no PodDisruptionBudget behind (the deferred cleanup).
EndedRunIsQuiet ==
  ~Happened("crash") /\ ~Happened("api") =>
    \A r \in Runs : mem[r].status \in {"succeeded", "failed"} =>
      pdb[r] = {} /\ \A t \in Tasks : ~LiveJob(r, t)

\* A final status in a file is final: no later save, restart or cancellation
\* turns it into another one.
FinalStaysFinal ==
  [][\A r \in Runs :
       /\ disk[r].status \in RunDone => disk'[r] = disk[r]
       /\ \A t \in Tasks : disk[r].tasks[t] \in TaskDone =>
            disk'[r].tasks[t] = disk[r].tasks[t]]_vars

\* As long as every save succeeds the files implement BatchRunSpec: no crash,
\* restart, cancellation or API error shows in them as anything but a step that
\* the record may take (runner.go, store.go).
Durable == INSTANCE BatchRunSpec WITH record <- disk
DurableSpec == Durable!Spec

\* A run that was accepted gets a verdict, through crashes and API errors,
\* unless a save failed: the runner ignores that its last one did.
RunsFinish ==
  \A r \in Runs : Unfinished(r) ~> (disk[r].status \in RunDone \/ Happened("save"))

\* A cancellation that reached the context before the verdict is recorded as
\* such, unless the process dies first or a save failed.
CancelTakesEffect ==
  \A r \in Runs :
    (canceled[r] /\ rpc[r] \notin {"idle", "leave"}) ~>
      (disk[r].status = "cancelled" \/ ~up \/ Happened("save"))

\* kubernetes.go:79-81, "Pending or terminal Pods are reconciled, not treated
\* as resumable work": recovery records the outcome of a Job that has ended.
FailureIsReal ==
  \A r \in Runs, t \in Tasks :
    disk[r].tasks[t] = "failed" => job[r][t] # "succeeded"
=============================================================================
