-------------------------- MODULE BatchRunnerProofs --------------------------
(***************************************************************************)
(* Theorems about BatchRunner for every set of runs and tasks, every stage  *)
(* assignment, every limit and every number of faults.                      *)
(***************************************************************************)
EXTENDS BatchRunner, TLAPS

\* The types alone do not bound `stage`: a stage is entered only if it exists.
StageInRange ==
  \A r \in Runs : /\ rpc[r] = "next" => stage[r] # 0
                  /\ rpc[r] \in {"feed", "join"} => stage[r] \in 1..NStages

TypeInv == TypeOK /\ StageInRange

LEMMA SpendType ==
  ASSUME budget \in [FaultKinds -> Nat], NEW k \in FaultKinds, SpendFault(k)
  PROVE  budget' \in [FaultKinds -> Nat]
  BY DEF SpendFault

LEMMA SaveType ==
  ASSUME mem \in [Runs -> RunRecord], disk \in [Runs -> RunRecord],
         budget \in [FaultKinds -> Nat],
         NEW r \in Runs, NEW record \in RunRecord, Save(r, record)
  PROVE  /\ mem' \in [Runs -> RunRecord]
         /\ disk' \in [Runs -> RunRecord]
         /\ budget' \in [FaultKinds -> Nat]
<1>1. mem' \in [Runs -> RunRecord]
  BY DEF Save
<1>2. CASE UNCHANGED budget
  BY <1>1, <1>2 DEF Save
<1>3. CASE SpendFault("save") /\ UNCHANGED disk
  BY <1>1, <1>3, SpendType DEF FaultKinds
<1> QED
  BY <1>1, <1>2, <1>3 DEF Save

LEMMA RequestType ==
  ASSUME budget \in [FaultKinds -> Nat], NEW r \in Runs,
         RequestFails(r) \/ RequestAnswered(r)
  PROVE  budget' \in [FaultKinds -> Nat]
  BY SpendType DEF RequestFails, RequestAnswered, FaultKinds

LEMMA GotoType ==
  ASSUME pc \in [Runs -> [Tasks -> TaskPC]],
         NEW r \in Runs, NEW t \in Tasks, NEW p \in TaskPC, Goto(r, t, p)
  PROVE  pc' \in [Runs -> [Tasks -> TaskPC]]
  BY DEF Goto

LEMMA StatusType ==
  ASSUME NEW record \in RunRecord, NEW s \in RunStatus
  PROVE  [record EXCEPT !.status = s] \in RunRecord
  BY DEF RunRecord

LEMMA TaskType ==
  ASSUME NEW record \in RunRecord, NEW t \in Tasks, NEW s \in TaskStatus
  PROVE  [record EXCEPT !.tasks[t] = s] \in RunRecord
  BY DEF RunRecord

LEMMA NewRunType == NewRun \in RunRecord /\ PendingRun \in RunRecord
  BY DEF NewRun, PendingRun, RunRecord, RunStatus, TaskStatus

LEMMA CancelledType ==
  ASSUME NEW record \in RunRecord
  PROVE  CancelledRecord(record) \in RunRecord
  BY DEF CancelledRecord, RunRecord, RunStatus, RunDone, TaskStatus, TaskDone

LEMMA TypeInit == Init => TypeInv
  BY RunnerAssumption DEF Init, TypeInv, TypeOK, StageInRange, NewRun, RunRecord,
       RunStatus, RunDone, TaskStatus, TaskDone, RunPC, TaskPC, FaultKinds

\* The steps of executeRun and its feeder.
LEMMA TypeRunStep ==
  ASSUME TypeInv, NEW r \in Runs, RunStep(r)
  PROVE  TypeInv'
<1> USE RunnerAssumption DEF TypeInv, StageInRange, RunPC, kubeVars
<1>1. CASE PrepareRun(r)
  <2>1. budget' \in [FaultKinds -> Nat]
    BY <1>1, SpendType DEF PrepareRun, TypeOK, FaultKinds
  <2>2. mem' \in [Runs -> RunRecord] /\ disk' \in [Runs -> RunRecord]
    <3>1. mem \in [Runs -> RunRecord] /\ disk \in [Runs -> RunRecord]
      BY DEF TypeOK
    <3>2. \/ mem' = [mem EXCEPT ![r] = PendingRun] /\ disk' = [disk EXCEPT ![r] = PendingRun]
          \/ UNCHANGED <<mem, disk>>
      BY <1>1 DEF PrepareRun
    <3> QED
      BY <3>1, <3>2, NewRunType
  <2>3. /\ active' \in [Runs -> {"none", "nil", "cancel"}]
        /\ rpc' \in [Runs -> RunPC]
        /\ UNCHANGED <<up, canceled, stage, todo, failed, pc, kubeVars>>
    BY <1>1 DEF PrepareRun, TypeOK
  <2>4. StageInRange'
    BY <1>1 DEF PrepareRun, TypeOK
  <2> QED
    BY <2>1, <2>2, <2>3, <2>4 DEF TypeOK
<1>2. CASE InstallCancel(r)
  BY <1>2 DEF InstallCancel, TypeOK
<1>3. CASE BeginRun(r)
  <2>1. [mem[r] EXCEPT !.status = "running"] \in RunRecord
    BY StatusType DEF TypeOK, RunStatus
  <2>2. /\ mem' \in [Runs -> RunRecord]
        /\ disk' \in [Runs -> RunRecord]
        /\ budget' \in [FaultKinds -> Nat]
    BY <1>3, <2>1, SaveType DEF BeginRun, TypeOK
  <2>3. rpc' = [rpc EXCEPT ![r] = "next"] /\ stage' = [stage EXCEPT ![r] = 1]
    BY <1>3 DEF BeginRun
  <2>4. UNCHANGED <<up, active, canceled, todo, failed, pc, kubeVars>>
    BY <1>3 DEF BeginRun
  <2> QED
    BY <2>2, <2>3, <2>4 DEF TypeOK
<1>4. CASE EndStages(r)
  BY <1>4 DEF EndStages, TypeOK
<1>5. CASE SkipStage(r)
  <2>1. [mem[r] EXCEPT !.tasks =
           [t \in Tasks |-> IF StageOf[t] = stage[r] /\ @[t] = "pending"
                              THEN "skipped" ELSE @[t]]] \in RunRecord
    <3>1. mem[r] \in RunRecord
      BY DEF TypeOK
    <3> QED
      BY <3>1 DEF RunRecord, TaskStatus, TaskDone
  <2>2. /\ mem' \in [Runs -> RunRecord]
        /\ disk' \in [Runs -> RunRecord]
        /\ budget' \in [FaultKinds -> Nat]
    BY <1>5, <2>1, SaveType DEF SkipStage, TypeOK
  <2>3. /\ rpc[r] = "next" /\ stage[r] <= NStages
        /\ stage' = [stage EXCEPT ![r] = @ + 1]
        /\ UNCHANGED <<up, active, canceled, rpc, todo, failed, pc, kubeVars>>
    BY <1>5 DEF SkipStage
  <2> QED
    BY <2>2, <2>3 DEF TypeOK
<1>6. CASE EnterStage(r)
  <2>1. stage[r] # 0
    BY <1>6 DEF EnterStage
  <2> QED
  BY <1>6, <2>1 DEF EnterStage, StageTasks, TypeOK
<1>7. CASE CloseFeed(r)
  BY <1>7 DEF CloseFeed, TypeOK
<1>8. CASE JoinStage(r)
  BY <1>8 DEF JoinStage, TypeOK
<1>9. CASE FinishRun(r)
  <2>1. /\ mem' \in [Runs -> RunRecord]
        /\ disk' \in [Runs -> RunRecord]
        /\ budget' \in [FaultKinds -> Nat]
    BY <1>9, CancelledType, StatusType, SaveType DEF FinishRun, RunStatus, RunDone, TypeOK
  <2> QED
    BY <1>9, <2>1 DEF FinishRun, TypeOK
<1>10. CASE LeaveRun(r)
  BY <1>10 DEF LeaveRun, TypeOK
<1>11. ASSUME NEW t \in Tasks, FeedSettled(r, t) PROVE TypeInv'
  BY <1>11 DEF FeedSettled, NextToFeed, TypeOK
<1>12. ASSUME NEW t \in Tasks, FeedCancelled(r, t) PROVE TypeInv'
  <2>1. /\ mem' \in [Runs -> RunRecord]
        /\ disk' \in [Runs -> RunRecord]
        /\ budget' \in [FaultKinds -> Nat]
    BY <1>12, TaskType, SaveType DEF FeedCancelled, SetTask, TaskStatus, TaskDone, TypeOK
  <2> QED
    BY <1>12, <2>1 DEF FeedCancelled, NextToFeed, TypeOK
<1>13. ASSUME NEW t \in Tasks, FeedSend(r, t) PROVE TypeInv'
  BY <1>13, GotoType DEF FeedSend, NextToFeed, TypeOK, TaskPC
<1> QED
  BY <1>1, <1>2, <1>3, <1>4, <1>5, <1>6, <1>7, <1>8, <1>9, <1>10, <1>11, <1>12, <1>13
     DEF RunStep

\* The steps of a worker.
LEMMA TypeTaskStep ==
  ASSUME TypeInv, NEW r \in Runs, NEW t \in Tasks, TaskStep(r, t)
  PROVE  TypeInv'
<1> USE RunnerAssumption DEF TypeInv, StageInRange, runVars, kubeVars
<1>a. \A p \in TaskPC : Goto(r, t, p) => pc' \in [Runs -> [Tasks -> TaskPC]]
  BY GotoType DEF TypeOK
<1>b. RequestFails(r) \/ RequestAnswered(r) => budget' \in [FaultKinds -> Nat]
  BY RequestType DEF TypeOK
<1>c. SpendFault("api") => budget' \in [FaultKinds -> Nat]
  BY SpendType DEF TypeOK, FaultKinds
<1>d. \A s \in TaskStatus : Save(r, SetTask(r, t, s)) =>
        /\ mem' \in [Runs -> RunRecord]
        /\ disk' \in [Runs -> RunRecord]
        /\ budget' \in [FaultKinds -> Nat]
  BY TaskType, SaveType DEF TypeOK, SetTask
<1>1. CASE WorkerCancelled(r, t)
  BY <1>1, <1>a, <1>d DEF WorkerCancelled, TypeOK, TaskPC, TaskStatus, TaskDone
<1>2. CASE StartTask(r, t)
  BY <1>2, <1>a, <1>d DEF StartTask, TypeOK, TaskPC, TaskStatus
<1>3. CASE EnsurePDB(r, t)
  <2>1. pdb' \in [Runs -> SUBSET Tasks]
    BY <1>3 DEF EnsurePDB, TypeOK
  <2>2. pc' \in [Runs -> [Tasks -> TaskPC]]
    BY <1>3, <1>a DEF EnsurePDB, TaskPC
  <2>3. budget' \in [FaultKinds -> Nat]
    BY <1>3, <1>b DEF EnsurePDB
  <2> QED
    BY <1>3, <2>1, <2>2, <2>3 DEF EnsurePDB, TypeOK
<1>4. CASE GetJob(r, t)
  BY <1>4, <1>a, <1>b DEF GetJob, TypeOK, TaskPC
<1>5. CASE CreateJob(r, t)
  <2>1. NewJob(r, t) \/ UNCHANGED <<job, gone, retries, created>>
    BY <1>5 DEF CreateJob
  <2>2. CASE NewJob(r, t)
    <3>1. /\ job' \in [Runs -> [Tasks -> {"none", "pending", "running", "succeeded", "failed"}]]
          /\ gone' \in [Runs -> SUBSET Tasks]
          /\ retries' \in [Runs -> [Tasks -> 0..BackoffLimit]]
          /\ created' \in [Runs -> [Tasks -> Nat]]
      BY <2>2 DEF NewJob, TypeOK
    <3> QED
      BY <1>5, <3>1, <1>a, <1>b DEF CreateJob, TypeOK, TaskPC
  <2>3. CASE UNCHANGED <<job, gone, retries, created>>
    BY <1>5, <2>3, <1>a, <1>b DEF CreateJob, TypeOK, TaskPC
  <2> QED
    BY <2>1, <2>2, <2>3
<1>6. CASE RecoverJob(r, t)
  BY <1>6, <1>a, <1>b DEF RecoverJob, TypeOK, TaskPC
<1>7. CASE FindRunningPod(r, t)
  BY <1>7, <1>a, <1>b DEF FindRunningPod, TypeOK, TaskPC
<1>8. CASE WaitJob(r, t)
  BY <1>8, <1>a, <1>b DEF WaitJob, TypeOK, TaskPC
<1>9. CASE AfterWait(r, t)
  BY <1>9, <1>a DEF AfterWait, TypeOK, TaskPC
<1>10. CASE ReReadJob(r, t)
  BY <1>10, <1>a, <1>b DEF ReReadJob, TypeOK, TaskPC
<1>11. CASE DeleteJob(r, t)
  <2>1. gone' \in [Runs -> SUBSET Tasks]
    <3>1. gone \in [Runs -> SUBSET Tasks]
      BY DEF TypeOK
    <3>2. gone' = [gone EXCEPT ![r] = @ \cup {t}] \/ UNCHANGED gone
      BY <1>11 DEF DeleteJob
    <3> QED
      BY <3>1, <3>2
  <2>2. pc' \in [Runs -> [Tasks -> TaskPC]]
    BY <1>11, <1>a DEF DeleteJob, TaskPC
  <2>3. budget' \in [FaultKinds -> Nat]
    <3>1. UNCHANGED budget \/ SpendFault("api")
      BY <1>11 DEF DeleteJob
    <3> QED
      BY <3>1, <1>c DEF TypeOK
  <2> QED
    BY <1>11, <2>1, <2>2, <2>3 DEF DeleteJob, TypeOK
<1>12. CASE CleanupPDB(r, t)
  <2>1. pdb' \in [Runs -> SUBSET Tasks]
    BY <1>12 DEF CleanupPDB, TypeOK
  <2>2. pc' \in [Runs -> [Tasks -> TaskPC]]
    BY <1>12, <1>a DEF CleanupPDB, TaskPC
  <2>3. budget' \in [FaultKinds -> Nat]
    BY <1>12, <1>c DEF CleanupPDB, TypeOK
  <2> QED
    BY <1>12, <2>1, <2>2, <2>3 DEF CleanupPDB, TypeOK
<1>13. CASE RecordTask(r, t)
  BY <1>13, <1>a, <1>d DEF RecordTask, Outcome, TypeOK, TaskPC, TaskStatus, TaskDone
<1> QED
  BY <1>1, <1>2, <1>3, <1>4, <1>5, <1>6, <1>7, <1>8, <1>9, <1>10, <1>11, <1>12, <1>13
     DEF TaskStep

LEMMA TypeJobStep ==
  ASSUME TypeInv, NEW r \in Runs, NEW t \in Tasks, JobStep(r, t)
  PROVE  TypeInv'
<1> USE RunnerAssumption DEF TypeInv, StageInRange, runVars, TypeOK, JobStep, JobProgress
<1>1. CASE JobStarts(r, t)
  BY <1>1 DEF JobStarts
<1>2. CASE JobEnds(r, t)
  BY <1>2 DEF JobEnds
<1>3. CASE JobRetries(r, t)
  BY <1>3 DEF JobRetries
<1>4. CASE JobExpires(r, t)
  BY <1>4 DEF JobExpires
<1> QED
  BY <1>1, <1>2, <1>3, <1>4

LEMMA TypeProcess ==
  ASSUME TypeInv,
         Crash \/ Restart \/ \E r \in Runs : Requests(r)
  PROVE  TypeInv'
<1> USE RunnerAssumption DEF TypeInv, StageInRange, runVars, kubeVars
<1>1. CASE Crash
  <2>1. budget' \in [FaultKinds -> Nat]
    BY <1>1, SpendType DEF Crash, TypeOK, FaultKinds
  <2>2. pc' \in [Runs -> [Tasks -> TaskPC]] /\ rpc' \in [Runs -> RunPC]
    BY <1>1 DEF Crash, RunPC, TaskPC
  <2>3. mem' \in [Runs -> RunRecord]
    BY <1>1, NewRunType DEF Crash
  <2>4. StageInRange'
    BY <1>1 DEF Crash
  <2> QED
    <3>1. /\ up' = FALSE /\ UNCHANGED <<disk, kubeVars>>
          /\ active' = [q \in Runs |-> "none"] /\ canceled' = [q \in Runs |-> FALSE]
          /\ stage' = [q \in Runs |-> 0] /\ todo' = [q \in Runs |-> {}]
          /\ failed' = [q \in Runs |-> FALSE]
      BY <1>1 DEF Crash
    <3>2. stage' \in [Runs -> 0..(NStages + 1)]
      BY <3>1
    <3>3. disk' \in [Runs -> RunRecord]
      BY <3>1 DEF TypeOK
    <3> QED
      BY <3>1, <3>2, <3>3, <2>1, <2>2, <2>3, <2>4 DEF TypeOK
<1>2. CASE Restart
  BY <1>2, NewRunType DEF Restart, TypeOK, RunPC
<1>3. ASSUME NEW r \in Runs, ReserveRun(r) PROVE TypeInv'
  BY <1>3 DEF ReserveRun, TypeOK, RunPC
<1>4. ASSUME NEW r \in Runs, CancelActive(r) PROVE TypeInv'
  BY <1>4 DEF CancelActive, TypeOK
<1>5. ASSUME NEW r \in Runs, CancelRecorded(r) PROVE TypeInv'
  <2>1. disk' \in [Runs -> RunRecord]
    BY <1>5, StatusType DEF CancelRecorded, TypeOK, RunStatus, RunDone
  <2> QED
    BY <1>5, <2>1 DEF CancelRecorded, TypeOK
<1> QED
  BY <1>1, <1>2, <1>3, <1>4, <1>5 DEF Requests

LEMMA TypeStep == TypeInv /\ [Next]_vars => TypeInv'
<1> SUFFICES ASSUME TypeInv, [Next]_vars PROVE TypeInv'
  OBVIOUS
<1>1. CASE UNCHANGED vars
  BY <1>1 DEF vars, TypeInv, TypeOK, StageInRange
<1>2. CASE Next
  BY <1>2, TypeRunStep, TypeTaskStep, TypeJobStep, TypeProcess DEF Next
<1> QED
  BY <1>1, <1>2

LEMMA TypeInvariant == Spec => []TypeInv
  BY TypeInit, TypeStep, PTL DEF Spec

\* Every reachable state is well typed: the bound of retries, the range of the
\* stages, the record types of both copies of a run (types.go, runner.go).
THEOREM TypeCorrect == Spec => []TypeOK
<1>1. TypeInv => TypeOK
  BY DEF TypeInv
<1> QED
  BY <1>1, TypeInvariant, PTL

-----------------------------------------------------------------------------
(***************************************************************************)
(* The inductive invariant of the properties about restarts.  It holds as   *)
(* long as no save has failed: Synced ties the two copies of a run together, *)
(* and the rest says who may be doing what to a run and what its file       *)
(* implies.                                                                 *)
(***************************************************************************)
NoSaveLost == budget["save"] = Faults["save"]

\* Runner.active has an entry exactly while StartRun or executeRun is at work.
ActiveExact ==
  \A r \in Runs : active[r] = "none" <=> rpc[r] = "idle"

DownIsIdle ==
  ~up => \A r \in Runs : rpc[r] = "idle"

\* A worker holds a task only inside executeStage, and not one that the feeder
\* still has to take.
WorkersInStage ==
  \A r \in Runs, t \in Tasks :
    pc[r][t] # "idle" => rpc[r] \in {"feed", "join"} /\ t \notin todo[r]

Synced ==
  \A r \in Runs :
    rpc[r] \notin {"idle", "prepare"} => mem[r] = disk[r] /\ mem[r].status # "none"

NewIsEmpty ==
  \A r \in Runs :
    /\ disk[r].status = "none" => disk[r] = NewRun
    /\ rpc[r] = "prepare" => disk[r] = NewRun

HeldStatus ==
  \A r \in Runs, t \in Tasks :
    /\ pc[r][t] = "got" => mem[r].tasks[t] \in {"pending", "running"}
    /\ pc[r][t] \notin {"idle", "got"} => mem[r].tasks[t] = "running"

\* A Job exists only for a task whose file says that it was started, and the
\* path that creates Jobs is taken only by tasks without one.
CreatedWhenStarted ==
  \A r \in Runs, t \in Tasks :
    /\ disk[r].tasks[t] = "pending" => created[r][t] = 0
    /\ pc[r][t] \in {"pdb", "get"} => created[r][t] = 0
    /\ pc[r][t] = "create" /\ ~Present(r, t) => created[r][t] = 0
    /\ created[r][t] <= 1

\* While the process is up every unfinished file has an entry in active.
FilesCovered ==
  \A r \in Runs :
    /\ up /\ Unfinished(r) => active[r] # "none"
    /\ rpc[r] = "leave" => ~Unfinished(r)

InUse(r) == active[r] # "none" \/ Unfinished(r)

AtMostOne ==
  ~AllowConcurrentRuns => \A r, q \in Runs : InUse(r) /\ InUse(q) => r = q

SafetyInv ==
  /\ TypeInv /\ NoSaveLost
  /\ ActiveExact /\ DownIsIdle /\ WorkersInStage
  /\ Synced /\ NewIsEmpty /\ HeldStatus
  /\ CreatedWhenStarted
  /\ FilesCovered /\ AtMostOne

-----------------------------------------------------------------------------
(* The effects of the helpers, point by point. *)

LEMMA GotoEffect ==
  ASSUME pc \in [Runs -> [Tasks -> TaskPC]], NEW r \in Runs, NEW t \in Tasks, NEW p,
         Goto(r, t, p)
  PROVE  /\ pc'[r][t] = p
         /\ \A q \in Runs, u \in Tasks : q # r \/ u # t => pc'[q][u] = pc[q][u]
  BY DEF Goto

LEMMA SaveEffect ==
  ASSUME TypeInv, NoSaveLost, NoSaveLost', NEW r \in Runs, NEW record, Save(r, record)
  PROVE  /\ mem'[r] = record /\ disk'[r] = record
         /\ \A q \in Runs : q # r => mem'[q] = mem[q] /\ disk'[q] = disk[q]
         /\ UNCHANGED budget
<1>1. mem \in [Runs -> RunRecord] /\ disk \in [Runs -> RunRecord]
  BY DEF TypeInv, TypeOK
<1>2. budget["save"] \in Nat /\ budget \in [FaultKinds -> Nat] /\ "save" \in FaultKinds
  BY DEF TypeInv, TypeOK, FaultKinds
<1>3. ~SpendFault("save")
  BY <1>2 DEF NoSaveLost, SpendFault
<1> QED
  BY <1>1, <1>3 DEF Save

LEMMA TaskSaveEffect ==
  ASSUME TypeInv, NoSaveLost, NoSaveLost', NEW r \in Runs, NEW t \in Tasks, NEW s,
         Save(r, SetTask(r, t, s))
  PROVE  /\ mem'[r] = disk'[r] /\ mem'[r].status = mem[r].status
         /\ mem'[r].tasks[t] = s
         /\ \A u \in Tasks : u # t => mem'[r].tasks[u] = mem[r].tasks[u]
         /\ \A q \in Runs : q # r => mem'[q] = mem[q] /\ disk'[q] = disk[q]
         /\ UNCHANGED budget
<1>1. mem[r] \in RunRecord
  BY DEF TypeInv, TypeOK
<1> QED
  BY <1>1, SaveEffect DEF SetTask, RunRecord

(* A step that leaves Runner.active and the positions alone keeps what is said *)
(* about them, if it changes no status of a run.                              *)
LEMMA EntriesKept ==
  ASSUME SafetyInv, UNCHANGED <<up, active, rpc>>,
         \A q \in Runs : disk'[q].status = disk[q].status
  PROVE  ActiveExact' /\ DownIsIdle' /\ FilesCovered' /\ AtMostOne'
  BY DEF SafetyInv, ActiveExact, DownIsIdle, FilesCovered, AtMostOne, InUse, Unfinished

(* A worker that goes from one request to the next.                           *)
LEMMA WorkerMoves ==
  ASSUME SafetyInv, NEW r \in Runs, NEW t \in Tasks, NEW p,
         pc[r][t] \notin {"idle", "got"}, p \notin {"idle", "got"}, Goto(r, t, p),
         UNCHANGED <<up, active, rpc, todo, mem, disk>>
  PROVE  /\ ActiveExact' /\ DownIsIdle' /\ FilesCovered' /\ AtMostOne'
         /\ WorkersInStage' /\ Synced' /\ NewIsEmpty' /\ HeldStatus'
<1>1. ActiveExact' /\ DownIsIdle' /\ FilesCovered' /\ AtMostOne'
  BY EntriesKept
<1>2. /\ pc'[r][t] = p
      /\ \A q \in Runs, u \in Tasks : q # r \/ u # t => pc'[q][u] = pc[q][u]
  BY GotoEffect DEF SafetyInv, TypeInv, TypeOK
<1>3. WorkersInStage'
  BY <1>2 DEF SafetyInv, WorkersInStage
<1>4. HeldStatus'
  BY <1>2 DEF SafetyInv, HeldStatus
<1>5. Synced' /\ NewIsEmpty'
  BY DEF SafetyInv, Synced, NewIsEmpty
<1> QED
  BY <1>1, <1>3, <1>4, <1>5

(* It also keeps CreatedWhenStarted if it creates no Job and does not enter    *)
(* the path to a creation.                                                    *)
LEMMA WorkerCreatesNothing ==
  ASSUME SafetyInv, NEW r \in Runs, NEW t \in Tasks, NEW p,
         p \notin {"pdb", "get", "create"}, Goto(r, t, p),
         UNCHANGED <<disk, created, job>>,
         \A q \in Runs, u \in Tasks : u \in gone'[q] => u \in gone[q] \/ (q = r /\ u = t)
  PROVE  CreatedWhenStarted'
<1>1. /\ pc'[r][t] = p
      /\ \A q \in Runs, u \in Tasks : q # r \/ u # t => pc'[q][u] = pc[q][u]
  BY GotoEffect DEF SafetyInv, TypeInv, TypeOK
<1>2. CreatedWhenStarted
  BY DEF SafetyInv
<1>3. ASSUME NEW q \in Runs, NEW u \in Tasks, pc'[q][u] = "create", ~Present(q, u)'
      PROVE  created'[q][u] = 0
  BY <1>1, <1>2, <1>3 DEF CreatedWhenStarted, Present
<1> QED
  BY <1>1, <1>2, <1>3 DEF CreatedWhenStarted

(* A task that is with a worker, or is about to be fed, gets its final status  *)
(* and is with nobody afterwards.                                             *)
LEMMA TaskSettled ==
  ASSUME SafetyInv, TypeInv', NoSaveLost', NEW r \in Runs, NEW t \in Tasks, NEW s \in TaskDone,
         pc[r][t] # "idle", Save(r, SetTask(r, t, s)), Goto(r, t, "idle"),
         UNCHANGED <<up, active, rpc, todo, kubeVars>>
  PROVE  SafetyInv'
<1> USE DEF kubeVars
<1>t. TypeInv /\ NoSaveLost
  BY DEF SafetyInv
<1>1. /\ mem'[r] = disk'[r] /\ mem'[r].status = mem[r].status
      /\ mem'[r].tasks[t] = s
      /\ \A u \in Tasks : u # t => mem'[r].tasks[u] = mem[r].tasks[u]
      /\ \A q \in Runs : q # r => mem'[q] = mem[q] /\ disk'[q] = disk[q]
      /\ UNCHANGED budget
  BY <1>t, TaskSaveEffect
<1>2. /\ pc'[r][t] = "idle"
      /\ \A q \in Runs, u \in Tasks : q # r \/ u # t => pc'[q][u] = pc[q][u]
  BY <1>t, GotoEffect DEF TypeInv, TypeOK
<1>3. rpc[r] \in {"feed", "join"} /\ mem[r] = disk[r] /\ mem[r].status # "none"
  BY DEF SafetyInv, WorkersInStage, Synced
<1>4. ActiveExact' /\ DownIsIdle' /\ FilesCovered' /\ AtMostOne'
  BY <1>1, <1>3, EntriesKept
<1>5. WorkersInStage'
  BY <1>2 DEF SafetyInv, WorkersInStage
<1>6. Synced' /\ NewIsEmpty'
  BY <1>1, <1>3 DEF SafetyInv, Synced, NewIsEmpty
<1>7. HeldStatus'
  BY <1>1, <1>2 DEF SafetyInv, HeldStatus
<1>8. s # "pending"
  BY DEF TaskDone
<1>9. CreatedWhenStarted'
  BY <1>1, <1>2, <1>3, <1>8 DEF SafetyInv, CreatedWhenStarted, Present
<1> QED
  BY <1>t, <1>1, <1>4, <1>5, <1>6, <1>7, <1>9 DEF SafetyInv, NoSaveLost

-----------------------------------------------------------------------------
(* Every step of a worker keeps SafetyInv. *)

LEMMA SafeTaskStep ==
  ASSUME SafetyInv, TypeInv', NoSaveLost', NEW r \in Runs, NEW t \in Tasks, TaskStep(r, t)
  PROVE  SafetyInv'
<1> USE DEF runVars, kubeVars
<1>t. TypeInv /\ NoSaveLost
  BY DEF SafetyInv
<1>p. pc \in [Runs -> [Tasks -> TaskPC]]
  BY <1>t DEF TypeInv, TypeOK
<1>m. ASSUME NEW p, pc[r][t] \notin {"idle", "got"},
             p \notin {"idle", "got", "pdb", "get", "create"}, Goto(r, t, p),
             UNCHANGED <<up, runVars, mem, disk, job, created>>,
             \A q \in Runs, u \in Tasks :
               u \in gone'[q] => u \in gone[q] \/ (q = r /\ u = t)
      PROVE  SafetyInv'
  <2>1. CreatedWhenStarted'
    BY <1>m, WorkerCreatesNothing
  <2> QED
    BY <1>m, <2>1, WorkerMoves DEF SafetyInv
<1>1. CASE WorkerCancelled(r, t)
  <2>1. /\ pc[r][t] = "got" /\ Save(r, SetTask(r, t, "cancelled")) /\ Goto(r, t, "idle")
        /\ UNCHANGED <<up, runVars, kubeVars>>
    BY <1>1 DEF WorkerCancelled
  <2> QED
    BY <2>1, TaskSettled DEF TaskDone
<1>2. CASE StartTask(r, t)
  <2>1. /\ pc[r][t] = "got" /\ Save(r, SetTask(r, t, "running"))
        /\ UNCHANGED <<up, runVars, kubeVars>>
    BY <1>2 DEF StartTask
  <2>2. /\ mem'[r] = disk'[r] /\ mem'[r].status = mem[r].status
        /\ mem'[r].tasks[t] = "running"
        /\ \A u \in Tasks : u # t => mem'[r].tasks[u] = mem[r].tasks[u]
        /\ \A q \in Runs : q # r => mem'[q] = mem[q] /\ disk'[q] = disk[q]
        /\ UNCHANGED budget
    BY <1>t, <2>1, TaskSaveEffect
  <2>3. /\ pc'[r][t] = IF mem[r].tasks[t] = "running" THEN "recover" ELSE "pdb"
        /\ \A q \in Runs, u \in Tasks : q # r \/ u # t => pc'[q][u] = pc[q][u]
    BY <1>2, <1>p, GotoEffect DEF StartTask
  <2>4. rpc[r] \in {"feed", "join"} /\ mem[r] = disk[r] /\ mem[r].status # "none"
    BY <2>1 DEF SafetyInv, WorkersInStage, Synced
  <2>5. ActiveExact' /\ DownIsIdle' /\ FilesCovered' /\ AtMostOne'
    BY <2>1, <2>2, <2>4, EntriesKept
  <2>6. WorkersInStage'
    BY <2>1, <2>3 DEF SafetyInv, WorkersInStage
  <2>7. Synced' /\ NewIsEmpty'
    BY <2>1, <2>2, <2>4 DEF SafetyInv, Synced, NewIsEmpty
  <2>8. HeldStatus'
    BY <2>2, <2>3 DEF SafetyInv, HeldStatus
  <2>9. mem[r].tasks[t] \in {"pending", "running"}
    BY <2>1 DEF SafetyInv, HeldStatus
  <2>10. CreatedWhenStarted'
    BY <2>1, <2>2, <2>3, <2>4, <2>9 DEF SafetyInv, CreatedWhenStarted, Present
  <2> QED
    BY <1>t, <2>2, <2>5, <2>6, <2>7, <2>8, <2>10 DEF SafetyInv, NoSaveLost
<1>3. CASE EnsurePDB(r, t)
  <2>1. CASE pc[r][t] = "pdb" /\ Goto(r, t, "get")
    <3>1. /\ pc'[r][t] = "get"
          /\ \A q \in Runs, u \in Tasks : q # r \/ u # t => pc'[q][u] = pc[q][u]
      BY <1>p, <2>1, GotoEffect
    <3>2. UNCHANGED <<up, runVars, mem, disk, job, gone, created>>
      BY <1>3 DEF EnsurePDB
    <3>3. CreatedWhenStarted'
      BY <2>1, <3>1, <3>2 DEF SafetyInv, CreatedWhenStarted, Present
    <3> QED
      BY <2>1, <3>2, <3>3, WorkerMoves DEF SafetyInv
  <2>2. CASE \E p \in {"wait", "doneErr"} : Goto(r, t, p)
    BY <1>3, <2>2, <1>m DEF EnsurePDB
  <2> QED
    BY <1>3, <2>1, <2>2 DEF EnsurePDB
<1>4. CASE GetJob(r, t)
  <2>1. CASE ~Present(r, t) /\ Goto(r, t, "create")
    <3>1. /\ pc'[r][t] = "create"
          /\ \A q \in Runs, u \in Tasks : q # r \/ u # t => pc'[q][u] = pc[q][u]
      BY <1>p, <2>1, GotoEffect
    <3>2. pc[r][t] = "get" /\ UNCHANGED <<up, runVars, mem, disk, job, gone, created>>
      BY <1>4 DEF GetJob
    <3>3. CreatedWhenStarted'
      BY <3>1, <3>2 DEF SafetyInv, CreatedWhenStarted, Present
    <3> QED
      BY <2>1, <3>2, <3>3, WorkerMoves DEF SafetyInv
  <2>2. CASE \E p \in {"wait", "cleanErr"} : Goto(r, t, p)
    BY <1>4, <2>2, <1>m DEF GetJob
  <2> QED
    BY <1>4, <2>1, <2>2 DEF GetJob
<1>5. CASE CreateJob(r, t)
  <2>1. /\ pc[r][t] = "create" /\ UNCHANGED <<up, runVars, mem, disk>>
        /\ UNCHANGED pc \/ \E p \in {"wait", "cleanErr"} : Goto(r, t, p)
    BY <1>5 DEF CreateJob
  <2>2. \A q \in Runs, u \in Tasks : q # r \/ u # t => pc'[q][u] = pc[q][u]
    BY <1>p, <2>1, GotoEffect
  <2>3. pc'[r][t] \in {"create", "wait", "cleanErr"}
    BY <1>p, <2>1, GotoEffect
  <2>4. disk[r].tasks[t] = "running"
    BY <2>1 DEF SafetyInv, HeldStatus, WorkersInStage, Synced
  <2>5. CreatedWhenStarted'
    <3>1. CASE NewJob(r, t) /\ ~Present(r, t)
      <4>1. /\ created'[r][t] = created[r][t] + 1
            /\ \A q \in Runs, u \in Tasks : q # r \/ u # t =>
                 /\ created'[q][u] = created[q][u] /\ job'[q][u] = job[q][u]
                 /\ u \in gone'[q] <=> u \in gone[q]
            /\ job'[r][t] = "pending" /\ t \notin gone'[r]
        BY <1>t, <3>1 DEF NewJob, TypeInv, TypeOK
      <4>2. created[r][t] = 0
        BY <2>1, <3>1 DEF SafetyInv, CreatedWhenStarted
      <4> QED
        BY <2>1, <2>2, <2>3, <2>4, <4>1, <4>2 DEF SafetyInv, CreatedWhenStarted, Present
    <3>2. CASE UNCHANGED <<job, gone, created>>
      BY <2>1, <2>2, <2>3, <3>2 DEF SafetyInv, CreatedWhenStarted, Present
    <3> QED
      BY <1>5, <3>1, <3>2 DEF CreateJob
  <2>6. CASE UNCHANGED pc
    BY <2>1, <2>5, <2>6, EntriesKept DEF SafetyInv, WorkersInStage, Synced,
         NewIsEmpty, HeldStatus
  <2>7. CASE \E p \in {"wait", "cleanErr"} : Goto(r, t, p)
    BY <2>1, <2>5, <2>7, WorkerMoves DEF SafetyInv
  <2> QED
    BY <2>1, <2>6, <2>7
<1>6. CASE RecoverJob(r, t)
  BY <1>6, <1>m DEF RecoverJob
<1>7. CASE FindRunningPod(r, t)
  BY <1>7, <1>m DEF FindRunningPod
<1>8. CASE WaitJob(r, t)
  BY <1>8, <1>m DEF WaitJob
<1>9. CASE AfterWait(r, t)
  BY <1>9, <1>m DEF AfterWait
<1>10. CASE ReReadJob(r, t)
  BY <1>10, <1>m DEF ReReadJob
<1>11. CASE DeleteJob(r, t)
  <2>1. \A q \in Runs, u \in Tasks : u \in gone'[q] => u \in gone[q] \/ (q = r /\ u = t)
    BY <1>11, <1>t DEF DeleteJob, TypeInv, TypeOK
  <2> QED
    BY <1>11, <2>1, <1>m DEF DeleteJob
<1>12. CASE CleanupPDB(r, t)
  BY <1>12, <1>m DEF CleanupPDB
<1>13. CASE RecordTask(r, t)
  <2>1. /\ pc[r][t] \notin {"idle", "got"} /\ Save(r, SetTask(r, t, Outcome(r, t)))
        /\ Goto(r, t, "idle")
        /\ UNCHANGED <<up, active, rpc, todo, kubeVars>>
    BY <1>13 DEF RecordTask
  <2>2. PICK s \in TaskDone : s = Outcome(r, t)
    BY DEF Outcome, TaskDone
  <2>3. pc[r][t] # "idle" /\ Save(r, SetTask(r, t, s))
    BY <2>1, <2>2
  <2> QED
    BY <2>1, <2>3, TaskSettled
<1> QED
  BY <1>1, <1>2, <1>3, <1>4, <1>5, <1>6, <1>7, <1>8, <1>9, <1>10, <1>11, <1>12, <1>13
     DEF TaskStep

-----------------------------------------------------------------------------
(* Every step of executeRun and its feeder keeps SafetyInv. *)

\* A step that moves a run on without touching its record or its workers.
LEMMA RunMoves ==
  ASSUME SafetyInv, TypeInv', NoSaveLost', NEW r \in Runs, NEW p,
         rpc[r] \notin {"idle", "prepare"}, p \notin {"idle", "prepare", "leave"},
         rpc' = [rpc EXCEPT ![r] = p],
         p \in {"feed", "join"} \/ \A t \in Tasks : pc[r][t] = "idle",
         \A t \in todo'[r] : pc[r][t] = "idle",
         \A q \in Runs : q # r => todo'[q] = todo[q],
         active' = active \/ (active' = [active EXCEPT ![r] = "cancel"]),
         UNCHANGED <<up, pc, mem, disk, kubeVars, budget>>
  PROVE  SafetyInv'
<1> USE DEF kubeVars
<1>1. rpc \in [Runs -> RunPC] /\ active \in [Runs -> {"none", "nil", "cancel"}]
  BY DEF SafetyInv, TypeInv, TypeOK
<1>2. rpc'[r] = p /\ \A q \in Runs : q # r => rpc'[q] = rpc[q] /\ active'[q] = active[q]
  BY <1>1
<1>3. active[r] # "none" /\ active'[r] # "none"
  BY <1>1 DEF SafetyInv, ActiveExact
<1>4. ActiveExact' /\ DownIsIdle'
  BY <1>2, <1>3 DEF SafetyInv, ActiveExact, DownIsIdle
<1>5. WorkersInStage'
  BY <1>2 DEF SafetyInv, WorkersInStage
<1>6. Synced' /\ NewIsEmpty'
  BY <1>2 DEF SafetyInv, Synced, NewIsEmpty
<1>7. HeldStatus' /\ CreatedWhenStarted'
  BY DEF SafetyInv, HeldStatus, CreatedWhenStarted, Present
<1>8. FilesCovered'
  BY <1>2, <1>3 DEF SafetyInv, FilesCovered, Unfinished
<1>9. AtMostOne'
  BY <1>2, <1>3 DEF SafetyInv, AtMostOne, InUse, Unfinished
<1> QED
  BY <1>4, <1>5, <1>6, <1>7, <1>8, <1>9 DEF SafetyInv, NoSaveLost

\* A step between stages that saves the run: no worker is at work, a task that
\* was pending is at most settled, and the run stays in use.
LEMMA RunSaves ==
  ASSUME SafetyInv, TypeInv', NoSaveLost', NEW r \in Runs, NEW p, NEW record,
         rpc[r] \notin {"idle", "prepare", "leave", "feed", "join"},
         p \notin {"idle", "prepare", "feed", "join"}, rpc' = [rpc EXCEPT ![r] = p],
         Save(r, record),
         record.status # "none",
         \A t \in Tasks : record.tasks[t] = "pending" => mem[r].tasks[t] = "pending",
         p = "leave" => record.status \notin {"pending", "running"},
         UNCHANGED <<up, active, todo, pc, kubeVars>>
  PROVE  SafetyInv'
<1> USE DEF kubeVars
<1>t. TypeInv /\ NoSaveLost
  BY DEF SafetyInv
<1>1. /\ mem'[r] = record /\ disk'[r] = record
      /\ \A q \in Runs : q # r => mem'[q] = mem[q] /\ disk'[q] = disk[q]
      /\ UNCHANGED budget
  BY <1>t, SaveEffect
<1>2. rpc'[r] = p /\ \A q \in Runs : q # r => rpc'[q] = rpc[q]
  BY <1>t DEF TypeInv, TypeOK
<1>3. active[r] # "none" /\ mem[r] = disk[r] /\ \A t \in Tasks : pc[r][t] = "idle"
  BY DEF SafetyInv, ActiveExact, Synced, WorkersInStage
<1>4. ActiveExact' /\ DownIsIdle'
  BY <1>2 DEF SafetyInv, ActiveExact, DownIsIdle
<1>5. WorkersInStage'
  BY <1>2, <1>3 DEF SafetyInv, WorkersInStage
<1>6. Synced' /\ NewIsEmpty'
  BY <1>1, <1>2 DEF SafetyInv, Synced, NewIsEmpty
<1>7. HeldStatus'
  BY <1>1, <1>3 DEF SafetyInv, HeldStatus
<1>8. CreatedWhenStarted'
  BY <1>1, <1>3 DEF SafetyInv, CreatedWhenStarted, Present
<1>9. FilesCovered'
  BY <1>1, <1>2, <1>3 DEF SafetyInv, FilesCovered, Unfinished
<1>10. AtMostOne'
  BY <1>1, <1>3 DEF SafetyInv, AtMostOne, InUse, Unfinished
<1> QED
  BY <1>t, <1>1, <1>4, <1>5, <1>6, <1>7, <1>8, <1>9, <1>10 DEF SafetyInv, NoSaveLost

LEMMA SafeRunStep ==
  ASSUME SafetyInv, TypeInv', NoSaveLost', NEW r \in Runs, RunStep(r)
  PROVE  SafetyInv'
<1> USE DEF kubeVars
<1>t. TypeInv /\ NoSaveLost
  BY DEF SafetyInv
<1>w. rpc[r] \notin {"feed", "join"} => \A t \in Tasks : pc[r][t] = "idle"
  BY DEF SafetyInv, WorkersInStage
<1>u. todo \in [Runs -> SUBSET Tasks] /\ mem[r] \in RunRecord
  BY <1>t DEF TypeInv, TypeOK
<1>s. rpc[r] \notin {"idle", "prepare"} => mem[r].status # "none"
  BY DEF SafetyInv, Synced
<1>1. CASE PrepareRun(r)
  <2>1. rpc[r] = "prepare" /\ UNCHANGED <<up, todo, pc, kubeVars>>
    BY <1>1 DEF PrepareRun
  <2>2. disk[r] = NewRun /\ active[r] # "none" /\ \A t \in Tasks : pc[r][t] = "idle"
    BY <1>w, <2>1 DEF SafetyInv, NewIsEmpty, ActiveExact
  <2>3. \A t \in Tasks : created[r][t] = 0
    BY <2>2 DEF SafetyInv, CreatedWhenStarted, NewRun
  <2>4. CASE /\ disk' = [disk EXCEPT ![r] = PendingRun]
             /\ mem' = [mem EXCEPT ![r] = PendingRun]
             /\ rpc' = [rpc EXCEPT ![r] = "install"]
             /\ UNCHANGED <<active, budget>>
    <3>1. /\ disk'[r] = PendingRun /\ mem'[r] = PendingRun /\ rpc'[r] = "install"
          /\ \A q \in Runs : q # r =>
               mem'[q] = mem[q] /\ disk'[q] = disk[q] /\ rpc'[q] = rpc[q]
      BY <1>t, <2>4 DEF TypeInv, TypeOK
    <3>2. PendingRun.status = "pending"
      BY DEF PendingRun
    <3>3. ActiveExact' /\ DownIsIdle' /\ WorkersInStage'
      BY <2>1, <2>2, <2>4, <3>1 DEF SafetyInv, ActiveExact, DownIsIdle, WorkersInStage
    <3>4. Synced' /\ NewIsEmpty'
      BY <3>1, <3>2 DEF SafetyInv, Synced, NewIsEmpty
    <3>5. HeldStatus' /\ CreatedWhenStarted'
      BY <2>1, <2>2, <2>3, <3>1 DEF SafetyInv, HeldStatus, CreatedWhenStarted, Present
    <3>6. FilesCovered' /\ AtMostOne'
      BY <2>1, <2>2, <2>4, <3>1 DEF SafetyInv, FilesCovered, AtMostOne, InUse, Unfinished
    <3> QED
      BY <1>t, <2>4, <3>3, <3>4, <3>5, <3>6 DEF SafetyInv, NoSaveLost
  <2>5. CASE /\ active' = [active EXCEPT ![r] = "none"]
             /\ rpc' = [rpc EXCEPT ![r] = "idle"]
             /\ UNCHANGED <<disk, mem>>
    <3>1. /\ active'[r] = "none" /\ rpc'[r] = "idle"
          /\ \A q \in Runs : q # r => active'[q] = active[q] /\ rpc'[q] = rpc[q]
      BY <1>t, <2>5 DEF TypeInv, TypeOK
    <3>2. ActiveExact' /\ DownIsIdle' /\ WorkersInStage'
      BY <2>1, <2>2, <3>1 DEF SafetyInv, ActiveExact, DownIsIdle, WorkersInStage
    <3>3. Synced' /\ NewIsEmpty' /\ HeldStatus' /\ CreatedWhenStarted'
      BY <2>1, <2>5, <3>1 DEF SafetyInv, Synced, NewIsEmpty, HeldStatus,
           CreatedWhenStarted, Present
    <3>4. FilesCovered' /\ AtMostOne'
      BY <2>1, <2>2, <2>5, <3>1 DEF SafetyInv, FilesCovered, AtMostOne, InUse,
           Unfinished, NewRun
    <3> QED
      BY <3>2, <3>3, <3>4 DEF SafetyInv
  <2> QED
    BY <1>1, <2>4, <2>5 DEF PrepareRun
<1>2. CASE InstallCancel(r)
  <2>1. \A t \in todo'[r] : pc[r][t] = "idle"
    BY <1>2, <1>u, <1>w DEF InstallCancel
  <2> QED
    BY <1>2, <1>w, <2>1, RunMoves DEF InstallCancel
<1>3. CASE BeginRun(r)
  <2> DEFINE written == [mem[r] EXCEPT !.status = "running"]
  <2>1. written.status # "none" /\ written.tasks = mem[r].tasks
    BY <1>u DEF RunRecord
  <2>2. Save(r, written) /\ rpc[r] = "begin" /\ rpc' = [rpc EXCEPT ![r] = "next"]
        /\ UNCHANGED <<up, active, todo, pc, kubeVars>>
    BY <1>3 DEF BeginRun
  <2>3. PICK saved : saved = written
    OBVIOUS
  <2>4. /\ saved.status # "none" /\ Save(r, saved)
        /\ \A t \in Tasks : saved.tasks[t] = "pending" => mem[r].tasks[t] = "pending"
    BY <2>1, <2>2, <2>3
  <2>5. PICK p : p = "next"
    OBVIOUS
  <2>6. /\ rpc[r] \notin {"idle", "prepare", "leave", "feed", "join"}
        /\ p \notin {"idle", "prepare", "feed", "join", "leave"}
        /\ rpc' = [rpc EXCEPT ![r] = p]
        /\ UNCHANGED <<up, active, todo, pc, kubeVars>>
    BY <2>2, <2>5
  <2> HIDE DEF written
  <2> QED
    BY <2>4, <2>6, RunSaves
<1>4. CASE EndStages(r)
  <2>1. \A t \in todo'[r] : pc[r][t] = "idle"
    BY <1>4, <1>u, <1>w DEF EndStages
  <2> QED
    BY <1>4, <1>w, <2>1, RunMoves DEF EndStages
<1>5. CASE SkipStage(r)
  <2> DEFINE written == [mem[r] EXCEPT !.tasks =
                 [t \in Tasks |-> IF StageOf[t] = stage[r] /\ @[t] = "pending"
                                    THEN "skipped" ELSE @[t]]]
  <2>1. /\ written.status = mem[r].status
        /\ \A t \in Tasks : written.tasks[t] = "pending" => mem[r].tasks[t] = "pending"
    BY <1>u DEF RunRecord
  <2>2. Save(r, written) /\ rpc[r] = "next"
        /\ UNCHANGED <<up, active, rpc, todo, pc, kubeVars>>
    BY <1>5 DEF SkipStage
  <2>3. rpc' = [rpc EXCEPT ![r] = "next"]
    BY <1>t, <2>2 DEF TypeInv, TypeOK
  <2>4. PICK saved : saved = written
    OBVIOUS
  <2>5. /\ saved.status = mem[r].status /\ Save(r, saved)
        /\ \A t \in Tasks : saved.tasks[t] = "pending" => mem[r].tasks[t] = "pending"
    BY <2>1, <2>2, <2>4
  <2>6. PICK p : p = "next"
    OBVIOUS
  <2>7. /\ rpc[r] \notin {"idle", "prepare", "leave", "feed", "join"}
        /\ p \notin {"idle", "prepare", "feed", "join", "leave"}
        /\ rpc' = [rpc EXCEPT ![r] = p] /\ saved.status # "none"
        /\ UNCHANGED <<up, active, todo, pc, kubeVars>>
    BY <1>s, <2>2, <2>3, <2>5, <2>6
  <2> HIDE DEF written
  <2> QED
    BY <2>5, <2>7, RunSaves
<1>6. CASE EnterStage(r)
  <2>1. \A t \in todo'[r] : pc[r][t] = "idle"
    BY <1>6, <1>u, <1>w DEF EnterStage, StageTasks
  <2>2. \A q \in Runs : q # r => todo'[q] = todo[q]
    BY <1>6, <1>u DEF EnterStage
  <2> QED
    BY <1>6, <2>1, <2>2, RunMoves DEF EnterStage
<1>7. CASE CloseFeed(r)
  <2>1. \A t \in todo'[r] : pc[r][t] = "idle"
    BY <1>7 DEF CloseFeed
  <2> QED
    BY <1>7, <2>1, RunMoves DEF CloseFeed
<1>8. CASE JoinStage(r)
  <2>1. \A t \in Tasks : pc[r][t] = "idle"
    BY <1>8 DEF JoinStage, Busy
  <2>2. \A t \in todo'[r] : pc[r][t] = "idle"
    BY <1>8, <1>u, <2>1 DEF JoinStage
  <2> QED
    BY <1>8, <2>1, <2>2, RunMoves DEF JoinStage
<1>9. CASE FinishRun(r)
  <2>1. \E record :
          /\ Save(r, record) /\ record.status \in RunDone
          /\ \A t \in Tasks : record.tasks[t] = "pending" => mem[r].tasks[t] = "pending"
    <3>1. CASE Save(r, CancelledRecord(mem[r]))
      BY <3>1 DEF CancelledRecord, RunDone
    <3>2. ASSUME NEW s \in RunDone, Save(r, [mem[r] EXCEPT !.status = s])
          PROVE  <2>1
      <4>1. /\ [mem[r] EXCEPT !.status = s].status = s
            /\ [mem[r] EXCEPT !.status = s].tasks = mem[r].tasks
        BY <1>u DEF RunRecord
      <4> QED
        BY <3>2, <4>1
    <3> QED
      BY <1>9, <3>1, <3>2 DEF FinishRun, RunDone
  <2>2. PICK record :
          /\ Save(r, record) /\ record.status \in RunDone
          /\ \A t \in Tasks : record.tasks[t] = "pending" => mem[r].tasks[t] = "pending"
    BY <2>1
  <2>3. rpc[r] = "finish" /\ rpc' = [rpc EXCEPT ![r] = "leave"]
        /\ UNCHANGED <<up, active, todo, pc, kubeVars>>
    BY <1>9 DEF FinishRun
  <2> QED
    BY <2>2, <2>3, RunSaves DEF RunDone
<1>10. CASE LeaveRun(r)
  <2>1. /\ rpc[r] = "leave" /\ UNCHANGED <<up, todo, pc, mem, disk, kubeVars, budget>>
        /\ active' = [active EXCEPT ![r] = "none"] /\ rpc' = [rpc EXCEPT ![r] = "idle"]
    BY <1>10 DEF LeaveRun
  <2>2. /\ active'[r] = "none" /\ rpc'[r] = "idle"
        /\ \A q \in Runs : q # r => active'[q] = active[q] /\ rpc'[q] = rpc[q]
    BY <1>t, <2>1 DEF TypeInv, TypeOK
  <2>3. ActiveExact' /\ DownIsIdle' /\ WorkersInStage'
    BY <1>w, <2>1, <2>2 DEF SafetyInv, ActiveExact, DownIsIdle, WorkersInStage
  <2>4. Synced' /\ NewIsEmpty' /\ HeldStatus' /\ CreatedWhenStarted'
    BY <2>1, <2>2 DEF SafetyInv, Synced, NewIsEmpty, HeldStatus, CreatedWhenStarted, Present
  <2>5. FilesCovered' /\ AtMostOne'
    BY <2>1, <2>2 DEF SafetyInv, FilesCovered, AtMostOne, InUse, Unfinished
  <2> QED
    BY <1>t, <2>1, <2>3, <2>4, <2>5 DEF SafetyInv, NoSaveLost
<1>11. ASSUME NEW t \in Tasks, FeedSettled(r, t) PROVE SafetyInv'
  <2>1. rpc[r] = "feed" /\ UNCHANGED <<up, active, rpc, pc, mem, disk, kubeVars, budget>>
    BY <1>11 DEF FeedSettled, NextToFeed
  <2>2. /\ \A u \in todo'[r] : u \in todo[r]
        /\ \A q \in Runs : q # r => todo'[q] = todo[q]
    BY <1>u, <1>11 DEF FeedSettled
  <2>3. \A u \in todo'[r] : pc[r][u] = "idle"
    BY <1>u, <2>2 DEF SafetyInv, WorkersInStage
  <2>4. rpc' = [rpc EXCEPT ![r] = "feed"]
    BY <1>t, <2>1 DEF TypeInv, TypeOK
  <2> QED
    BY <2>1, <2>2, <2>3, <2>4, RunMoves
<1>12. ASSUME NEW t \in Tasks, FeedCancelled(r, t) PROVE SafetyInv'
  <2>1. /\ rpc[r] = "feed" /\ t \in todo[r] /\ Save(r, SetTask(r, t, "cancelled"))
        /\ UNCHANGED <<up, active, rpc, pc, kubeVars>>
    BY <1>12 DEF FeedCancelled, NextToFeed
  <2>2. \A q \in Runs : todo'[q] \subseteq todo[q]
    BY <1>u, <1>12 DEF FeedCancelled
  <2>3. /\ mem'[r] = disk'[r] /\ mem'[r].status = mem[r].status
        /\ mem'[r].tasks[t] = "cancelled"
        /\ \A u \in Tasks : u # t => mem'[r].tasks[u] = mem[r].tasks[u]
        /\ \A q \in Runs : q # r => mem'[q] = mem[q] /\ disk'[q] = disk[q]
        /\ UNCHANGED budget
    BY <1>t, <2>1, TaskSaveEffect
  <2>4. /\ pc[r][t] = "idle" /\ mem[r] = disk[r] /\ mem[r].status # "none"
    BY <2>1 DEF SafetyInv, WorkersInStage, Synced
  <2>5. ActiveExact' /\ DownIsIdle' /\ FilesCovered' /\ AtMostOne'
    BY <2>1, <2>3, <2>4, EntriesKept
  <2>6. WorkersInStage'
    BY <2>1, <2>2 DEF SafetyInv, WorkersInStage
  <2>7. Synced' /\ NewIsEmpty'
    BY <2>1, <2>3, <2>4 DEF SafetyInv, Synced, NewIsEmpty
  <2>8. HeldStatus'
    BY <2>1, <2>3, <2>4 DEF SafetyInv, HeldStatus
  <2>9. CreatedWhenStarted'
    BY <2>1, <2>3, <2>4 DEF SafetyInv, CreatedWhenStarted, Present
  <2> QED
    BY <1>t, <2>3, <2>5, <2>6, <2>7, <2>8, <2>9 DEF SafetyInv, NoSaveLost
<1>13. ASSUME NEW t \in Tasks, FeedSend(r, t) PROVE SafetyInv'
  <2>1. /\ rpc[r] = "feed" /\ t \in todo[r] /\ mem[r].tasks[t] \notin TaskDone
        /\ UNCHANGED <<up, active, rpc, mem, disk, kubeVars, budget>>
    BY <1>13 DEF FeedSend, NextToFeed
  <2>2. /\ todo'[r] = todo[r] \ {t} /\ \A q \in Runs : q # r => todo'[q] = todo[q]
    BY <1>u, <1>13 DEF FeedSend
  <2>3. /\ pc'[r][t] = "got"
        /\ \A q \in Runs, u \in Tasks : q # r \/ u # t => pc'[q][u] = pc[q][u]
    BY <1>t, <1>13, GotoEffect DEF FeedSend, TypeInv, TypeOK
  <2>4. ActiveExact' /\ DownIsIdle' /\ FilesCovered' /\ AtMostOne'
    BY <2>1, EntriesKept
  <2>5. WorkersInStage'
    BY <2>1, <2>2, <2>3 DEF SafetyInv, WorkersInStage
  <2>6. mem[r].tasks[t] \in {"pending", "running"}
    BY <1>u, <2>1 DEF RunRecord, TaskStatus
  <2>7. HeldStatus'
    BY <2>1, <2>3, <2>6 DEF SafetyInv, HeldStatus
  <2>8. Synced' /\ NewIsEmpty'
    BY <2>1 DEF SafetyInv, Synced, NewIsEmpty
  <2>9. CreatedWhenStarted'
    BY <2>1, <2>3 DEF SafetyInv, CreatedWhenStarted, Present
  <2> QED
    BY <1>t, <2>1, <2>4, <2>5, <2>7, <2>8, <2>9 DEF SafetyInv, NoSaveLost
<1> QED
  BY <1>1, <1>2, <1>3, <1>4, <1>5, <1>6, <1>7, <1>8, <1>9, <1>10, <1>11, <1>12, <1>13
     DEF RunStep

-----------------------------------------------------------------------------
(* The Jobs, the requests and the process. *)

LEMMA SafeJobStep ==
  ASSUME SafetyInv, TypeInv', NoSaveLost', NEW r \in Runs, NEW t \in Tasks, JobStep(r, t)
  PROVE  SafetyInv'
<1> USE DEF runVars
<1>t. TypeInv
  BY DEF SafetyInv
<1>1. UNCHANGED <<up, runVars, pc, mem, disk, created, budget>>
  BY DEF JobStep, JobProgress, JobStarts, JobEnds, JobRetries, JobExpires
<1>2. \A q \in Runs, u \in Tasks : pc[q][u] = "create" /\ Present(q, u) => Present(q, u)'
  <2> SUFFICES ASSUME NEW q \in Runs, NEW u \in Tasks, pc[q][u] = "create", Present(q, u)
               PROVE  Present(q, u)'
    OBVIOUS
  <2>1. CASE JobStarts(r, t)
    BY <1>t, <2>1 DEF JobStarts, Present, TypeInv, TypeOK
  <2>2. CASE JobEnds(r, t)
    BY <1>t, <2>2 DEF JobEnds, Present, TypeInv, TypeOK
  <2>3. CASE JobRetries(r, t)
    BY <1>t, <2>3 DEF JobRetries, Present, TypeInv, TypeOK
  <2>4. CASE JobExpires(r, t)
    BY <1>t, <2>4 DEF JobExpires, Present, TypeInv, TypeOK
  <2> QED
    BY <2>1, <2>2, <2>3, <2>4 DEF JobStep, JobProgress
<1>3. CreatedWhenStarted'
  BY <1>1, <1>2 DEF SafetyInv, CreatedWhenStarted
<1>4. ActiveExact' /\ DownIsIdle' /\ FilesCovered' /\ AtMostOne'
  BY <1>1, EntriesKept
<1>5. WorkersInStage' /\ Synced' /\ NewIsEmpty' /\ HeldStatus'
  BY <1>1 DEF SafetyInv, WorkersInStage, Synced, NewIsEmpty, HeldStatus
<1> QED
  BY <1>3, <1>4, <1>5 DEF SafetyInv

LEMMA SafeProcess ==
  ASSUME SafetyInv, TypeInv', NoSaveLost', Crash \/ Restart \/ \E r \in Runs : Requests(r)
  PROVE  SafetyInv'
<1> USE DEF kubeVars, runVars
<1>t. TypeInv /\ NoSaveLost
  BY DEF SafetyInv
<1>1. CASE Crash
  <2>1. /\ up' = FALSE /\ UNCHANGED <<disk, kubeVars>>
        /\ \A r \in Runs : active'[r] = "none" /\ rpc'[r] = "idle"
        /\ \A r \in Runs, t \in Tasks : pc'[r][t] = "idle"
    BY <1>1 DEF Crash
  <2>2. ActiveExact' /\ DownIsIdle' /\ WorkersInStage' /\ Synced' /\ NewIsEmpty'
    BY <2>1 DEF SafetyInv, ActiveExact, DownIsIdle, WorkersInStage, Synced, NewIsEmpty
  <2>3. HeldStatus' /\ CreatedWhenStarted'
    BY <2>1 DEF SafetyInv, HeldStatus, CreatedWhenStarted, Present
  <2>4. FilesCovered' /\ AtMostOne'
    BY <2>1 DEF SafetyInv, FilesCovered, AtMostOne, InUse, Unfinished
  <2> QED
    BY <2>2, <2>3, <2>4 DEF SafetyInv
<1>2. CASE Restart
  <2>1. /\ ~up /\ up' = TRUE /\ UNCHANGED <<todo, pc, disk, kubeVars, budget>>
        /\ \A r \in Runs : Unfinished(r) =>
              active'[r] = "cancel" /\ rpc'[r] = "begin" /\ mem'[r] = disk[r]
        /\ \A r \in Runs : ~Unfinished(r) => active'[r] = "none" /\ rpc'[r] = "idle"
    BY <1>2 DEF Restart
  <2>2. \A r \in Runs, t \in Tasks : pc[r][t] = "idle"
    BY <2>1 DEF SafetyInv, DownIsIdle, WorkersInStage
  <2>3. ActiveExact' /\ DownIsIdle' /\ WorkersInStage'
    BY <2>1, <2>2 DEF ActiveExact, DownIsIdle, WorkersInStage
  <2>4. Synced' /\ NewIsEmpty'
    BY <2>1 DEF SafetyInv, Synced, NewIsEmpty, Unfinished
  <2>5. HeldStatus' /\ CreatedWhenStarted'
    BY <2>1, <2>2 DEF SafetyInv, HeldStatus, CreatedWhenStarted, Present
  <2>6. FilesCovered' /\ AtMostOne'
    BY <2>1 DEF SafetyInv, FilesCovered, AtMostOne, InUse, Unfinished
  <2> QED
    BY <1>t, <2>1, <2>3, <2>4, <2>5, <2>6 DEF SafetyInv, NoSaveLost
<1>3. ASSUME NEW r \in Runs, ReserveRun(r) PROVE SafetyInv'
  <2>1. /\ up /\ rpc[r] = "idle" /\ disk[r].status = "none"
        /\ AllowConcurrentRuns \/ \A q \in Runs : active[q] = "none"
        /\ UNCHANGED <<up, todo, pc, mem, disk, kubeVars, budget>>
    BY <1>3 DEF ReserveRun
  <2>2. /\ active'[r] = "nil" /\ rpc'[r] = "prepare"
        /\ \A q \in Runs : q # r => active'[q] = active[q] /\ rpc'[q] = rpc[q]
    BY <1>3, <1>t DEF ReserveRun, TypeInv, TypeOK
  <2>3. ActiveExact' /\ DownIsIdle' /\ WorkersInStage'
    BY <2>1, <2>2 DEF SafetyInv, ActiveExact, DownIsIdle, WorkersInStage
  <2>4. Synced' /\ NewIsEmpty' /\ HeldStatus' /\ CreatedWhenStarted'
    BY <2>1, <2>2 DEF SafetyInv, Synced, NewIsEmpty, HeldStatus, CreatedWhenStarted, Present
  <2>5. FilesCovered' /\ AtMostOne'
    BY <2>1, <2>2 DEF SafetyInv, FilesCovered, AtMostOne, InUse, Unfinished
  <2> QED
    BY <1>t, <2>1, <2>3, <2>4, <2>5 DEF SafetyInv, NoSaveLost
<1>4. ASSUME NEW r \in Runs, CancelActive(r) PROVE SafetyInv'
  <2>1. UNCHANGED <<up, active, rpc, todo, pc, mem, disk, kubeVars, budget>>
    BY <1>4 DEF CancelActive
  <2> QED
    BY <2>1, EntriesKept DEF SafetyInv, WorkersInStage, Synced, NewIsEmpty, HeldStatus,
         CreatedWhenStarted, Present, NoSaveLost
<1>5. ASSUME NEW r \in Runs, CancelRecorded(r) PROVE SafetyInv'
  <2>1. up /\ active[r] = "none" /\ Unfinished(r)
    BY <1>5 DEF CancelRecorded
  <2> QED
    BY <2>1 DEF SafetyInv, FilesCovered
<1> QED
  BY <1>1, <1>2, <1>3, <1>4, <1>5 DEF Requests

LEMMA SafeInit == Init => SafetyInv
<1> SUFFICES ASSUME Init PROVE SafetyInv
  OBVIOUS
<1>1. TypeInv
  BY TypeInit
<1>2. /\ up = TRUE /\ budget = Faults
      /\ \A r \in Runs : /\ active[r] = "none" /\ rpc[r] = "idle"
                          /\ todo[r] = {} /\ disk[r] = NewRun
      /\ \A r \in Runs, t \in Tasks : pc[r][t] = "idle" /\ created[r][t] = 0
  BY DEF Init
<1> QED
  BY <1>1, <1>2 DEF SafetyInv, NoSaveLost, ActiveExact, DownIsIdle, WorkersInStage, Synced,
       NewIsEmpty, HeldStatus, CreatedWhenStarted, FilesCovered, AtMostOne, InUse,
       Unfinished, NewRun

-----------------------------------------------------------------------------
(* Faults are only spent: a save that was lost stays lost.                  *)

WithinBudget == \A k \in FaultKinds : budget[k] <= Faults[k]

LEMMA BudgetFalls ==
  ASSUME TypeInv, [Next]_vars
  PROVE  \A k \in FaultKinds : budget'[k] <= budget[k]
<1> USE DEF kubeVars, runVars
<1>t. budget \in [FaultKinds -> Nat]
  BY DEF TypeInv, TypeOK
<1>1. ASSUME UNCHANGED budget \/ \E k \in FaultKinds : SpendFault(k)
      PROVE  \A k \in FaultKinds : budget'[k] <= budget[k]
  BY <1>t, <1>1 DEF SpendFault
<1>2. CASE UNCHANGED vars
  BY <1>1, <1>2 DEF vars
<1>3. CASE Crash \/ Restart
  BY <1>1, <1>3 DEF Crash, Restart, FaultKinds
<1>4. ASSUME NEW r \in Runs, Requests(r) PROVE UNCHANGED budget
  BY <1>4 DEF Requests, ReserveRun, CancelActive, CancelRecorded
<1>5. ASSUME NEW r \in Runs, RunStep(r)
      PROVE  UNCHANGED budget \/ SpendFault("save")
  BY <1>5 DEF RunStep, PrepareRun, InstallCancel, BeginRun, EndStages, SkipStage, EnterStage,
       CloseFeed, JoinStage, FinishRun, LeaveRun, FeedSettled, FeedCancelled, FeedSend, Save
<1>6. ASSUME NEW r \in Runs, NEW t \in Tasks, TaskStep(r, t)
      PROVE  UNCHANGED budget \/ \E k \in FaultKinds : SpendFault(k)
  BY <1>6 DEF TaskStep, WorkerCancelled, StartTask, EnsurePDB, GetJob, CreateJob, RecoverJob,
       FindRunningPod, WaitJob, AfterWait, ReReadJob, DeleteJob, CleanupPDB, RecordTask,
       Save, RequestFails, RequestAnswered, FaultKinds
<1>7. ASSUME NEW r \in Runs, NEW t \in Tasks, JobStep(r, t) PROVE UNCHANGED budget
  BY <1>7 DEF JobStep, JobProgress, JobStarts, JobEnds, JobRetries, JobExpires
<1> QED
  BY <1>1, <1>2, <1>3, <1>4, <1>5, <1>6, <1>7 DEF Next, FaultKinds

\* As long as no save has failed SafetyInv holds, also where saves may fail.
RunnerInv == TypeInv /\ WithinBudget /\ (NoSaveLost => SafetyInv)

LEMMA RunnerInvariant == Spec => []RunnerInv
<1>1. Init => RunnerInv
  BY TypeInit, SafeInit, RunnerAssumption DEF RunnerInv, WithinBudget, Init
<1>2. RunnerInv /\ TypeInv' /\ [Next]_vars => RunnerInv'
  <2> SUFFICES ASSUME RunnerInv, TypeInv', [Next]_vars PROVE RunnerInv'
    OBVIOUS
  <2>1. \A k \in FaultKinds : /\ budget[k] \in Nat /\ budget'[k] \in Nat /\ Faults[k] \in Nat
                               /\ budget'[k] <= budget[k] /\ budget[k] <= Faults[k]
    BY BudgetFalls, RunnerAssumption DEF RunnerInv, TypeInv, TypeOK, WithinBudget
  <2>2. WithinBudget' /\ (NoSaveLost' => NoSaveLost)
    BY <2>1 DEF WithinBudget, NoSaveLost, FaultKinds
  <2>3. ASSUME NoSaveLost' PROVE SafetyInv'
    <3>1. SafetyInv
      BY <2>2, <2>3 DEF RunnerInv
    <3>2. CASE UNCHANGED vars
      BY <3>1, <3>2 DEF vars, SafetyInv, TypeInv, TypeOK, StageInRange, NoSaveLost, ActiveExact,
           DownIsIdle, WorkersInStage, Synced, NewIsEmpty, HeldStatus, CreatedWhenStarted,
           FilesCovered, AtMostOne, InUse, Unfinished, Present
    <3>3. CASE Next
      BY <2>3, <3>1, <3>3, SafeRunStep, SafeTaskStep, SafeJobStep, SafeProcess DEF Next
    <3> QED
      BY <3>2, <3>3
  <2> QED
    BY <2>2, <2>3 DEF RunnerInv
<1> QED
  BY <1>1, <1>2, TypeInvariant, PTL DEF Spec

\* What has happened has happened.
LEMMA FaultsRemembered ==
  ASSUME RunnerInv, [Next]_vars, NEW k \in FaultKinds, Happened(k)
  PROVE  Happened(k)'
<1>1. budget[k] \in Nat /\ budget'[k] <= budget[k] /\ Faults[k] \in Nat
  BY BudgetFalls, RunnerAssumption DEF RunnerInv, TypeInv, TypeOK
<1>2. budget'[k] \in Nat
  <2>1. TypeInv'
    BY TypeStep DEF RunnerInv
  <2> QED
    BY <2>1 DEF TypeInv, TypeOK
<1> QED
  BY <1>1, <1>2 DEF Happened

\* What the runs' properties say when no save may fail.
LEMMA SafeWithoutLoss == RunnerInv /\ Faults["save"] = 0 => SafetyInv
<1> SUFFICES ASSUME RunnerInv, Faults["save"] = 0 PROVE SafetyInv
  OBVIOUS
<1>1. budget["save"] \in Nat /\ budget["save"] <= Faults["save"]
  BY DEF RunnerInv, TypeInv, TypeOK, WithinBudget, FaultKinds
<1> QED
  BY <1>1 DEF RunnerInv, NoSaveLost

\* The Job of a task is created at most once, for any number of crashes and API
\* errors, as long as no save of the run file fails (executeTask saves the
\* running status before RunTask, and recovery never creates).
THEOREM CreatedOnce == Spec => []JobCreatedOnce
<1>1. RunnerInv => JobCreatedOnce
  BY SafeWithoutLoss DEF SafetyInv, CreatedWhenStarted, JobCreatedOnce
<1> QED
  BY <1>1, RunnerInvariant, PTL

\* With AllowConcurrentRuns off two runs are never in use at once, neither in
\* Runner.active nor as an unfinished file, for any number of runs, crashes and
\* API errors, as long as no save fails (StartRun, ResumeRuns, executeRun).
THEOREM OneRun == Spec => []OneRunAtATime
<1>1. RunnerInv => OneRunAtATime
  BY SafeWithoutLoss DEF SafetyInv, AtMostOne, InUse, OneRunAtATime
<1> QED
  BY <1>1, RunnerInvariant, PTL

-----------------------------------------------------------------------------
(* Stages, verdicts and what a run leaves behind, also where saves fail.  A    *)
(* run's record in memory is the one its goroutines decide by, so these        *)
(* invariants are about mem and follow what is on disk only where the file may  *)
(* be read again.  Then the run files as their readers see them: the verdict    *)
(* of a run is true of its tasks, what is final in a file stays, and as long as  *)
(* every save succeeds the files implement BatchRunSpec, in which there is no     *)
(* process, no Kubernetes and no crash.                                           *)

(* What a step can do at all, so that each invariant looks only at what       *)
(* concerns it.                                                              *)

LEMMA SavePoint ==
  ASSUME TypeInv, NEW r \in Runs, NEW record, Save(r, record)
  PROVE  /\ mem'[r] = record
         /\ disk'[r] = record \/ disk'[r] = disk[r]
         /\ \A q \in Runs : q # r => mem'[q] = mem[q] /\ disk'[q] = disk[q]
<1>1. mem \in [Runs -> RunRecord] /\ disk \in [Runs -> RunRecord]
  BY DEF TypeInv, TypeOK
<1> QED
  BY <1>1 DEF Save

LEMMA TaskSavePoint ==
  ASSUME TypeInv, NEW r \in Runs, NEW t \in Tasks, NEW s, Save(r, SetTask(r, t, s))
  PROVE  /\ mem'[r].status = mem[r].status /\ mem'[r].tasks[t] = s
         /\ \A u \in Tasks : u # t => mem'[r].tasks[u] = mem[r].tasks[u]
         /\ disk'[r] = mem'[r] \/ disk'[r] = disk[r]
         /\ \A q \in Runs : q # r => mem'[q] = mem[q] /\ disk'[q] = disk[q]
<1>1. mem[r] \in RunRecord
  BY DEF TypeInv, TypeOK
<1> QED
  BY <1>1, SavePoint DEF SetTask, RunRecord

\* All that a worker's step leaves alone.
KeepsOthers(r, t) ==
  /\ UNCHANGED <<up, active, canceled, rpc, stage, todo>>
  /\ \A q \in Runs : q # r =>
       /\ pc'[q] = pc[q] /\ mem'[q] = mem[q] /\ disk'[q] = disk[q]
       /\ failed'[q] = failed[q] /\ job'[q] = job[q]
  /\ mem'[r].status = mem[r].status
  /\ disk'[r] = mem'[r] \/ disk'[r] = disk[r]
  /\ \A u \in Tasks : u # t =>
       /\ pc'[r][u] = pc[r][u] /\ mem'[r].tasks[u] = mem[r].tasks[u]
       /\ job'[r][u] = job[r][u]

\* The worker gives its task a final status and is free.
Settles(r, t) ==
  /\ pc[r][t] \in {"got", "doneOk", "doneErr"} /\ pc'[r][t] = "idle"
  /\ \/ canceled[r] /\ mem'[r].tasks[t] = "cancelled"
     \/ ~canceled[r] /\ pc[r][t] = "doneOk" /\ mem'[r].tasks[t] = "succeeded"
     \/ ~canceled[r] /\ pc[r][t] = "doneErr" /\ mem'[r].tasks[t] = "failed"
  /\ failed'[r] = (failed[r] \/ pc[r][t] = "doneErr")
  /\ job'[r][t] = job[r][t]

Starts(r, t) ==
  /\ pc[r][t] = "got"
  /\ pc'[r][t] = IF mem[r].tasks[t] = "running" THEN "recover" ELSE "pdb"
  /\ mem'[r].tasks[t] = "running"
  /\ failed'[r] = failed[r] /\ job'[r][t] = job[r][t]

\* It goes from one request to the next; only the POST changes the Job, and a
\* worker believes in a success only when it has seen it.
Proceeds(r, t) ==
  /\ pc[r][t] \notin {"idle", "got"} /\ pc'[r][t] \notin {"idle", "got"}
  /\ mem'[r] = mem[r] /\ disk'[r] = disk[r] /\ failed'[r] = failed[r]
  /\ job'[r][t] = job[r][t] \/ pc[r][t] = "create"
  /\ pc'[r][t] \in {"waitedOk", "cleanOk", "doneOk"} =>
       /\ pc[r][t] # "create"
       /\ pc[r][t] \in {"waitedOk", "cleanOk", "doneOk"} \/ job[r][t] = "succeeded"

LEMMA TaskEffect ==
  ASSUME TypeInv, NEW r \in Runs, NEW t \in Tasks, TaskStep(r, t)
  PROVE  KeepsOthers(r, t) /\ (Settles(r, t) \/ Starts(r, t) \/ Proceeds(r, t))
<1> USE DEF runVars, kubeVars
<1>p. pc \in [Runs -> [Tasks -> TaskPC]] /\ failed \in [Runs -> BOOLEAN]
      /\ job \in [Runs -> [Tasks -> {"none", "pending", "running", "succeeded", "failed"}]]
  BY DEF TypeInv, TypeOK
<1>g. \A p : Goto(r, t, p) =>
        /\ pc'[r][t] = p
        /\ \A q \in Runs : q # r => pc'[q] = pc[q]
        /\ \A u \in Tasks : u # t => pc'[r][u] = pc[r][u]
  BY <1>p DEF Goto
<1>s. ASSUME NEW s, NEW p, Save(r, SetTask(r, t, s)), Goto(r, t, p),
             UNCHANGED <<up, active, canceled, rpc, stage, todo, job>>,
             \A q \in Runs : q # r => failed'[q] = failed[q]
      PROVE  KeepsOthers(r, t) /\ mem'[r].tasks[t] = s /\ pc'[r][t] = p
  BY <1>g, <1>s, TaskSavePoint DEF KeepsOthers
<1>m. ASSUME NEW p, Goto(r, t, p), UNCHANGED <<up, runVars, mem, disk, job>>
      PROVE  KeepsOthers(r, t) /\ pc'[r][t] = p
  BY <1>g, <1>m DEF KeepsOthers
<1>1. CASE WorkerCancelled(r, t)
  BY <1>1, <1>s, <1>p DEF WorkerCancelled, Settles
<1>2. CASE StartTask(r, t)
  BY <1>2, <1>s DEF StartTask, Starts
<1>3. CASE EnsurePDB(r, t)
  BY <1>3, <1>m DEF EnsurePDB, Proceeds
<1>4. CASE GetJob(r, t)
  BY <1>4, <1>m DEF GetJob, Proceeds
<1>5. CASE CreateJob(r, t)
  <2>1. /\ pc[r][t] = "create" /\ UNCHANGED <<up, runVars, mem, disk>>
        /\ UNCHANGED pc \/ \E p \in {"wait", "cleanErr"} : Goto(r, t, p)
        /\ NewJob(r, t) \/ UNCHANGED job
    BY <1>5 DEF CreateJob
  <2>2. /\ pc'[r][t] \in {"create", "wait", "cleanErr"}
        /\ \A q \in Runs : q # r => pc'[q] = pc[q]
        /\ \A u \in Tasks : u # t => pc'[r][u] = pc[r][u]
    BY <2>1, <1>g
  <2>3. /\ \A q \in Runs : q # r => job'[q] = job[q]
        /\ \A u \in Tasks : u # t => job'[r][u] = job[r][u]
    BY <1>p, <2>1 DEF NewJob
  <2> QED
    BY <2>1, <2>2, <2>3 DEF KeepsOthers, Proceeds
<1>6. CASE RecoverJob(r, t)
  BY <1>6, <1>m DEF RecoverJob, Proceeds
<1>7. CASE FindRunningPod(r, t)
  BY <1>7, <1>m DEF FindRunningPod, Proceeds
<1>8. CASE WaitJob(r, t)
  BY <1>8, <1>m DEF WaitJob, Proceeds
<1>9. CASE AfterWait(r, t)
  BY <1>9, <1>m DEF AfterWait, Proceeds
<1>10. CASE ReReadJob(r, t)
  BY <1>10, <1>m DEF ReReadJob, Proceeds
<1>11. CASE DeleteJob(r, t)
  BY <1>11, <1>m DEF DeleteJob, Proceeds
<1>12. CASE CleanupPDB(r, t)
  BY <1>12, <1>m DEF CleanupPDB, Proceeds
<1>13. CASE RecordTask(r, t)
  <2>1. /\ pc[r][t] \in {"doneOk", "doneErr"} /\ Save(r, SetTask(r, t, Outcome(r, t)))
        /\ failed' = [failed EXCEPT ![r] = @ \/ pc[r][t] = "doneErr"] /\ Goto(r, t, "idle")
        /\ UNCHANGED <<up, active, canceled, rpc, stage, todo, job>>
    BY <1>13 DEF RecordTask
  <2>2. /\ failed'[r] = (failed[r] \/ pc[r][t] = "doneErr")
        /\ \A q \in Runs : q # r => failed'[q] = failed[q]
    BY <1>p, <2>1
  <2>3. KeepsOthers(r, t) /\ mem'[r].tasks[t] = Outcome(r, t) /\ pc'[r][t] = "idle"
    BY <2>1, <2>2, <1>s
  <2> QED
    BY <2>1, <2>2, <2>3 DEF Outcome, Settles
<1> QED
  BY <1>1, <1>2, <1>3, <1>4, <1>5, <1>6, <1>7, <1>8, <1>9, <1>10, <1>11, <1>12, <1>13
     DEF TaskStep

\* All that a step of executeRun leaves alone.
KeepsOtherRuns(r) ==
  /\ UNCHANGED <<up, canceled, kubeVars>>
  /\ \A q \in Runs : q # r =>
       /\ active'[q] = active[q] /\ rpc'[q] = rpc[q] /\ stage'[q] = stage[q]
       /\ todo'[q] = todo[q] /\ failed'[q] = failed[q] /\ pc'[q] = pc[q]
       /\ mem'[q] = mem[q] /\ disk'[q] = disk[q]

LEMMA RunFrame ==
  ASSUME TypeInv, NEW r \in Runs, RunStep(r)
  PROVE  KeepsOtherRuns(r)
<1> USE DEF KeepsOtherRuns
<1>t. /\ active \in [Runs -> {"none", "nil", "cancel"}] /\ rpc \in [Runs -> RunPC]
      /\ stage \in [Runs -> 0..(NStages + 1)] /\ todo \in [Runs -> SUBSET Tasks]
      /\ failed \in [Runs -> BOOLEAN] /\ pc \in [Runs -> [Tasks -> TaskPC]]
      /\ mem \in [Runs -> RunRecord] /\ disk \in [Runs -> RunRecord]
  BY DEF TypeInv, TypeOK
<1>s. \A record : Save(r, record) =>
        \A q \in Runs : q # r => mem'[q] = mem[q] /\ disk'[q] = disk[q]
  BY SavePoint
<1>1. CASE PrepareRun(r)
  BY <1>1, <1>t DEF PrepareRun
<1>2. CASE InstallCancel(r)
  BY <1>2, <1>t DEF InstallCancel
<1>3. CASE BeginRun(r)
  BY <1>3, <1>t, <1>s DEF BeginRun
<1>4. CASE EndStages(r)
  BY <1>4, <1>t DEF EndStages
<1>5. CASE SkipStage(r)
  BY <1>5, <1>t, <1>s DEF SkipStage
<1>6. CASE EnterStage(r)
  BY <1>6, <1>t DEF EnterStage
<1>7. CASE CloseFeed(r)
  BY <1>7, <1>t DEF CloseFeed
<1>8. CASE JoinStage(r)
  BY <1>8, <1>t DEF JoinStage
<1>9. CASE FinishRun(r)
  BY <1>9, <1>t, <1>s DEF FinishRun
<1>10. CASE LeaveRun(r)
  BY <1>10, <1>t DEF LeaveRun
<1>11. ASSUME NEW t \in Tasks, FeedSettled(r, t) PROVE KeepsOtherRuns(r)
  BY <1>11, <1>t DEF FeedSettled
<1>12. ASSUME NEW t \in Tasks, FeedCancelled(r, t) PROVE KeepsOtherRuns(r)
  BY <1>12, <1>t, <1>s DEF FeedCancelled
<1>13. ASSUME NEW t \in Tasks, FeedSend(r, t) PROVE KeepsOtherRuns(r)
  BY <1>13, <1>t DEF FeedSend, Goto
<1> QED
  BY <1>1, <1>2, <1>3, <1>4, <1>5, <1>6, <1>7, <1>8, <1>9, <1>10, <1>11, <1>12, <1>13
     DEF RunStep

\* Kubernetes touches nothing but the Jobs, and a Job that succeeded stays one.
LEMMA JobEffect ==
  ASSUME TypeInv, NEW r \in Runs, NEW t \in Tasks, JobStep(r, t)
  PROVE  /\ UNCHANGED <<up, runVars, pc, mem, disk, pdb, created, budget>>
         /\ \A q \in Runs, u \in Tasks : job[q][u] = "succeeded" => job'[q][u] = "succeeded"
<1>t. job \in [Runs -> [Tasks -> {"none", "pending", "running", "succeeded", "failed"}]]
  BY DEF TypeInv, TypeOK
<1>1. CASE JobStarts(r, t)
  BY <1>1, <1>t DEF JobStarts
<1>2. CASE JobEnds(r, t)
  BY <1>2, <1>t DEF JobEnds
<1>3. CASE JobRetries(r, t)
  BY <1>3, <1>t DEF JobRetries
<1>4. CASE JobExpires(r, t)
  BY <1>4, <1>t DEF JobExpires
<1> QED
  BY <1>1, <1>2, <1>3, <1>4 DEF JobStep, JobProgress

-----------------------------------------------------------------------------
(***************************************************************************)
(* Stages.  The feeder and the workers of a run are always at one stage,     *)
(* every task of it is somewhere, and what came before is settled.  None of  *)
(* this needs the file: StageBarrier holds whatever saves fail.              *)
(***************************************************************************)
FedByStage(r) ==
  /\ rpc[r] # "feed" => todo[r] = {}
  /\ \A t \in todo[r] : StageOf[t] = stage[r]

BusyInStage(r) ==
  \A t \in Tasks : pc[r][t] # "idle" =>
    rpc[r] \in {"feed", "join"} /\ t \notin todo[r] /\ StageOf[t] = stage[r]

BusyStatus(r) ==
  \A t \in Tasks :
    /\ pc[r][t] = "got" => mem[r].tasks[t] \in {"pending", "running"}
    /\ pc[r][t] \notin {"idle", "got"} => mem[r].tasks[t] = "running"

StageAccounted(r) ==
  rpc[r] \in {"feed", "join"} => \A t \in Tasks :
    StageOf[t] = stage[r] => \/ t \in todo[r]
                             \/ pc[r][t] # "idle"
                             \/ mem[r].tasks[t] \in TaskDone

\* Between the stages only a plan that goes on needs it: what is skipped after a
\* failure may hold a task that an earlier process had started.
EarlierSettled(r) ==
  rpc[r] \in {"feed", "join"} \/ (rpc[r] = "next" /\ (~failed[r] \/ ContinueOnFailure)) =>
    \A t \in Tasks : StageOf[t] < stage[r] => mem[r].tasks[t] \in TaskDone

RunStaged(r) ==
  FedByStage(r) /\ BusyInStage(r) /\ BusyStatus(r) /\ StageAccounted(r) /\ EarlierSettled(r)

StageInv == DownIsIdle /\ \A r \in Runs : RunStaged(r)

LEMMA StagedKept ==
  ASSUME NEW q, RunStaged(q),
         rpc'[q] = rpc[q], stage'[q] = stage[q], todo'[q] = todo[q], failed'[q] = failed[q],
         pc'[q] = pc[q], mem'[q] = mem[q]
  PROVE  RunStaged(q)'
  BY DEF RunStaged, FedByStage, BusyInStage, BusyStatus, StageAccounted, EarlierSettled

LEMMA StageTaskStep ==
  ASSUME TypeInv, StageInv, NEW r \in Runs, NEW t \in Tasks, TaskStep(r, t)
  PROVE  StageInv'
<1>1. KeepsOthers(r, t) /\ (Settles(r, t) \/ Starts(r, t) \/ Proceeds(r, t))
  BY TaskEffect
<1>2. DownIsIdle' /\ \A q \in Runs : q # r => RunStaged(q)'
  BY <1>1, StagedKept DEF StageInv, DownIsIdle, KeepsOthers
<1>3. /\ pc[r][t] # "idle"
      /\ mem'[r].tasks[t] \in TaskDone \/ pc'[r][t] # "idle"
      /\ pc'[r][t] # "got"
      /\ pc'[r][t] # "idle" => mem'[r].tasks[t] = "running"
      /\ failed[r] => failed'[r]
  <2>1. pc[r][t] \notin {"idle", "got"} => mem[r].tasks[t] = "running"
    BY DEF StageInv, RunStaged, BusyStatus
  <2>2. CASE Settles(r, t)
    BY <2>2 DEF Settles, TaskDone
  <2>3. CASE Starts(r, t)
    BY <2>3 DEF Starts
  <2>4. CASE Proceeds(r, t)
    BY <2>1, <2>4 DEF Proceeds
  <2> QED
    BY <1>1, <2>2, <2>3, <2>4
<1>4. RunStaged(r)
  BY DEF StageInv
<1>5. rpc[r] \in {"feed", "join"} /\ t \notin todo[r] /\ StageOf[t] = stage[r]
  BY <1>3, <1>4 DEF RunStaged, BusyInStage
<1>6. FedByStage(r)' /\ BusyInStage(r)' /\ BusyStatus(r)'
  BY <1>1, <1>3, <1>4, <1>5 DEF KeepsOthers, RunStaged, FedByStage, BusyInStage, BusyStatus
<1>7. StageAccounted(r)'
  BY <1>1, <1>3, <1>4, <1>5 DEF KeepsOthers, RunStaged, StageAccounted
<1>8. StageOf[t] \in Nat
  BY RunnerAssumption
<1>9. EarlierSettled(r)'
  BY <1>1, <1>4, <1>5, <1>8 DEF KeepsOthers, RunStaged, EarlierSettled
<1> QED
  BY <1>2, <1>6, <1>7, <1>9 DEF StageInv, RunStaged

LEMMA StageRunStep ==
  ASSUME TypeInv, StageInv, NEW r \in Runs, RunStep(r)
  PROVE  StageInv'
<1> USE DEF kubeVars
<1>t. /\ rpc \in [Runs -> RunPC] /\ stage \in [Runs -> 0..(NStages + 1)]
      /\ todo \in [Runs -> SUBSET Tasks] /\ failed \in [Runs -> BOOLEAN]
      /\ pc \in [Runs -> [Tasks -> TaskPC]] /\ mem[r] \in RunRecord
      /\ StageOf \in [Tasks -> 1..NStages] /\ NStages \in Nat
      /\ stage[r] \in Nat /\ \A t \in Tasks : StageOf[t] \in Nat
  BY RunnerAssumption DEF TypeInv, TypeOK
<1>f. KeepsOtherRuns(r)
  BY RunFrame
<1>o. DownIsIdle'
  BY <1>f DEF StageInv, DownIsIdle, KeepsOtherRuns, RunStep, PrepareRun, InstallCancel,
       BeginRun, EndStages, SkipStage, EnterStage, CloseFeed, JoinStage, FinishRun, LeaveRun,
       FeedSettled, FeedCancelled, FeedSend, NextToFeed
<1>q. \A q \in Runs : q # r => RunStaged(q)'
  BY <1>f, StagedKept DEF StageInv, KeepsOtherRuns
<1>r. RunStaged(r)
  BY DEF StageInv
<1> USE DEF RunStaged, FedByStage, BusyInStage, BusyStatus, StageAccounted, EarlierSettled
<1> SUFFICES RunStaged(r)'
  BY <1>o, <1>q DEF StageInv
<1>1. CASE PrepareRun(r)
  BY <1>1, <1>t, <1>r DEF PrepareRun
<1>2. CASE InstallCancel(r)
  BY <1>2, <1>t, <1>r DEF InstallCancel
<1>3. CASE BeginRun(r)
  <2>1. rpc'[r] = "next" /\ stage'[r] = 1 /\ pc'[r] = pc[r] /\ todo'[r] = todo[r]
        /\ rpc[r] = "begin"
    BY <1>3, <1>t DEF BeginRun
  <2>2. \A t \in Tasks : ~(StageOf[t] < 1)
    BY <1>t
  <2> QED
    BY <2>1, <2>2, <1>r
<1>4. CASE EndStages(r)
  BY <1>4, <1>t, <1>r DEF EndStages
<1>5. CASE SkipStage(r)
  <2>1. /\ rpc[r] = "next" /\ rpc'[r] = "next" /\ pc'[r] = pc[r] /\ todo'[r] = todo[r]
        /\ failed'[r] /\ ~ContinueOnFailure
    BY <1>5, <1>t DEF SkipStage
  <2> QED
    BY <2>1, <1>r
<1>6. CASE EnterStage(r)
  <2>1. /\ rpc[r] = "next" /\ rpc'[r] = "feed" /\ stage'[r] = stage[r] /\ pc'[r] = pc[r]
        /\ todo'[r] = StageTasks(stage[r]) /\ mem'[r] = mem[r]
        /\ ~failed[r] \/ ContinueOnFailure
    BY <1>6, <1>t DEF EnterStage
  <2> QED
    BY <2>1, <1>r DEF StageTasks
<1>7. CASE CloseFeed(r)
  BY <1>7, <1>t, <1>r DEF CloseFeed
<1>8. CASE JoinStage(r)
  <2>1. /\ rpc[r] = "join" /\ rpc'[r] = "next" /\ stage'[r] = stage[r] + 1
        /\ pc'[r] = pc[r] /\ mem'[r] = mem[r] /\ todo'[r] = todo[r]
        /\ \A t \in Tasks : pc[r][t] = "idle"
    BY <1>8, <1>t DEF JoinStage, Busy
  <2>2. \A t \in Tasks : StageOf[t] = stage[r] => mem[r].tasks[t] \in TaskDone
    BY <2>1, <1>r
  <2>3. \A t \in Tasks : StageOf[t] < stage[r] => mem[r].tasks[t] \in TaskDone
    BY <2>1, <1>r
  <2>4. ASSUME NEW t \in Tasks, StageOf[t] < stage'[r] PROVE mem'[r].tasks[t] \in TaskDone
    <3>1. StageOf[t] \in Nat /\ stage[r] \in Nat /\ StageOf[t] < stage[r] + 1
      BY <1>t, <2>1, <2>4
    <3>2. StageOf[t] < stage[r] \/ StageOf[t] = stage[r]
      BY <3>1
    <3> QED
      BY <2>1, <2>2, <2>3, <3>2
  <2>5. todo'[r] = {} /\ \A t \in Tasks : pc'[r][t] = "idle"
    BY <2>1, <1>r
  <2> QED
    BY <2>1, <2>4, <2>5
<1>9. CASE FinishRun(r)
  <2>1. /\ rpc[r] = "finish" /\ rpc'[r] = "leave" /\ pc'[r] = pc[r] /\ todo'[r] = todo[r]
    BY <1>9, <1>t DEF FinishRun
  <2> QED
    BY <2>1, <1>r
<1>10. CASE LeaveRun(r)
  BY <1>10, <1>t, <1>r DEF LeaveRun
<1>11. ASSUME NEW t \in Tasks, FeedSettled(r, t) PROVE RunStaged(r)'
  <2>1. /\ rpc[r] = "feed" /\ rpc'[r] = "feed" /\ stage'[r] = stage[r] /\ pc'[r] = pc[r]
        /\ todo'[r] = todo[r] \ {t} /\ mem'[r] = mem[r] /\ mem[r].tasks[t] \in TaskDone
    BY <1>11, <1>t DEF FeedSettled, NextToFeed
  <2> QED
    BY <2>1, <1>r
<1>12. ASSUME NEW t \in Tasks, FeedCancelled(r, t) PROVE RunStaged(r)'
  <2>1. /\ rpc[r] = "feed" /\ rpc'[r] = "feed" /\ stage'[r] = stage[r] /\ pc'[r] = pc[r]
        /\ t \in todo[r] /\ todo'[r] = todo[r] \ {t} /\ failed'[r] = failed[r]
    BY <1>12, <1>t DEF FeedCancelled, NextToFeed
  <2>2. /\ mem'[r].tasks[t] = "cancelled"
        /\ \A u \in Tasks : u # t => mem'[r].tasks[u] = mem[r].tasks[u]
    BY <1>12, TaskSavePoint DEF FeedCancelled
  <2> QED
    BY <2>1, <2>2, <1>r DEF TaskDone
<1>13. ASSUME NEW t \in Tasks, FeedSend(r, t) PROVE RunStaged(r)'
  <2>1. /\ rpc[r] = "feed" /\ rpc'[r] = "feed" /\ stage'[r] = stage[r] /\ mem'[r] = mem[r]
        /\ t \in todo[r] /\ todo'[r] = todo[r] \ {t} /\ failed'[r] = failed[r]
        /\ mem[r].tasks[t] \notin TaskDone
    BY <1>13, <1>t DEF FeedSend, NextToFeed
  <2>2. pc'[r][t] = "got" /\ \A u \in Tasks : u # t => pc'[r][u] = pc[r][u]
    BY <1>13, <1>t DEF FeedSend, Goto
  <2>3. mem[r].tasks[t] \in {"pending", "running"}
    BY <1>t, <2>1 DEF RunRecord, TaskStatus
  <2> QED
    BY <2>1, <2>2, <2>3, <1>r
<1> QED
  BY <1>1, <1>2, <1>3, <1>4, <1>5, <1>6, <1>7, <1>8, <1>9, <1>10, <1>11, <1>12, <1>13
     DEF RunStep

LEMMA StageProcess ==
  ASSUME TypeInv, StageInv, Crash \/ Restart \/ \E r \in Runs : Requests(r)
  PROVE  StageInv'
<1> USE DEF kubeVars, runVars
<1>1. CASE Crash
  <2>1. \A r \in Runs : /\ rpc'[r] = "idle" /\ todo'[r] = {}
                        /\ \A t \in Tasks : pc'[r][t] = "idle"
    BY <1>1 DEF Crash
  <2> QED
    BY <2>1 DEF StageInv, DownIsIdle, RunStaged, FedByStage, BusyInStage, BusyStatus,
         StageAccounted, EarlierSettled
<1>2. CASE Restart
  <2>1. /\ up' = TRUE /\ UNCHANGED <<todo, pc>>
        /\ \A r \in Runs : rpc[r] = "idle" /\ rpc'[r] \in {"idle", "begin"}
    BY <1>2 DEF Restart, StageInv, DownIsIdle
  <2>2. \A r \in Runs : todo[r] = {} /\ \A t \in Tasks : pc[r][t] = "idle"
    BY <2>1 DEF StageInv, RunStaged, FedByStage, BusyInStage
  <2> QED
    BY <2>1, <2>2 DEF StageInv, DownIsIdle, RunStaged, FedByStage, BusyInStage, BusyStatus,
         StageAccounted, EarlierSettled
<1>3. ASSUME NEW r \in Runs, ReserveRun(r) PROVE StageInv'
  <2>1. /\ up /\ rpc[r] = "idle" /\ rpc'[r] = "prepare"
        /\ \A q \in Runs : q # r => rpc'[q] = rpc[q]
        /\ UNCHANGED <<up, stage, todo, failed, pc, mem>>
    BY <1>3 DEF ReserveRun, TypeInv, TypeOK
  <2> QED
    BY <2>1 DEF StageInv, DownIsIdle, RunStaged, FedByStage, BusyInStage, BusyStatus,
         StageAccounted, EarlierSettled
<1>4. ASSUME NEW r \in Runs, CancelActive(r) \/ CancelRecorded(r) PROVE StageInv'
  <2>1. UNCHANGED <<up, rpc, stage, todo, failed, pc, mem>>
    BY <1>4 DEF CancelActive, CancelRecorded
  <2> QED
    BY <2>1, StagedKept DEF StageInv, DownIsIdle
<1> QED
  BY <1>1, <1>2, <1>3, <1>4 DEF Requests

LEMMA StageInvariant == Spec => []StageInv
<1>1. Init => StageInv
  BY DEF Init, StageInv, DownIsIdle, RunStaged, FedByStage, BusyInStage, BusyStatus,
     StageAccounted, EarlierSettled
<1>2. TypeInv /\ StageInv /\ [Next]_vars => StageInv'
  <2> SUFFICES ASSUME TypeInv, StageInv, [Next]_vars PROVE StageInv'
    OBVIOUS
  <2>1. ASSUME UNCHANGED <<up, rpc, stage, todo, failed, pc, mem>> PROVE StageInv'
    BY <2>1, StagedKept DEF StageInv, DownIsIdle
  <2>2. CASE UNCHANGED vars
    BY <2>1, <2>2 DEF vars
  <2>3. ASSUME NEW r \in Runs, NEW t \in Tasks, JobStep(r, t) PROVE StageInv'
    BY <2>1, <2>3, JobEffect DEF runVars
  <2> QED
    BY <2>2, <2>3, StageRunStep, StageTaskStep, StageProcess DEF Next
<1> QED
  BY <1>1, <1>2, TypeInvariant, PTL DEF Spec

\* While a worker holds a task, every task of the earlier stages is settled:
\* for every plan, number of workers and faults, failed saves included
\* (executeRun waits for executeStage before it goes on, runner.go).
THEOREM StagesInOrder == Spec => []StageBarrier
<1>1. StageInv => StageBarrier
  <2> SUFFICES ASSUME StageInv, NEW r \in Runs, NEW t \in Tasks, pc[r][t] # "idle",
                      NEW u \in Tasks, StageOf[u] < StageOf[t]
               PROVE  mem[r].tasks[u] \in TaskDone
    BY DEF StageBarrier
  <2>1. rpc[r] \in {"feed", "join"} /\ StageOf[t] = stage[r]
    BY DEF StageInv, RunStaged, BusyInStage
  <2> QED
    BY <2>1 DEF StageInv, RunStaged, EarlierSettled
<1> QED
  BY <1>1, StageInvariant, PTL

-----------------------------------------------------------------------------
(***************************************************************************)
(* The record in memory, the one in the file and the Jobs.  A save that      *)
(* fails leaves the file behind, so the file may miss a result; it never     *)
(* holds one that memory does not, and nobody records a success unseen.       *)
(***************************************************************************)
ActiveEntry(r) == active[r] = "none" <=> rpc[r] = "idle"

StatusFollows(r) ==
  /\ disk[r].status = "none" => \A t \in Tasks : disk[r].tasks[t] = "pending"
  /\ rpc[r] = "prepare" => disk[r].status = "none"
  /\ rpc[r] \in {"install", "begin"} => {mem[r].status, disk[r].status} \subseteq {"pending", "running"}
  /\ rpc[r] \in {"next", "feed", "join", "finish"} =>
       mem[r].status = "running" /\ disk[r].status \in {"pending", "running"}

DiskBehind(r) ==
  rpc[r] \notin {"idle", "prepare"} =>
    \A t \in Tasks : disk[r].tasks[t] \in TaskDone => mem[r].tasks[t] = disk[r].tasks[t]

SeenSuccess(r) ==
  \A t \in Tasks :
    /\ pc[r][t] \in {"waitedOk", "cleanOk", "doneOk"} => job[r][t] = "succeeded"
    /\ mem[r].tasks[t] = "succeeded" => job[r][t] = "succeeded"
    /\ disk[r].tasks[t] = "succeeded" => job[r][t] = "succeeded"

RunRecorded(r) == ActiveEntry(r) /\ StatusFollows(r) /\ DiskBehind(r) /\ SeenSuccess(r)

RecordInv == \A r \in Runs : RunRecorded(r)

LEMMA RecordedKept ==
  ASSUME NEW q, RunRecorded(q),
         active'[q] = active[q], rpc'[q] = rpc[q], pc'[q] = pc[q],
         mem'[q] = mem[q], disk'[q] = disk[q],
         \A u \in Tasks : job[q][u] = "succeeded" => job'[q][u] = "succeeded"
  PROVE  RunRecorded(q)'
  BY DEF RunRecorded, ActiveEntry, StatusFollows, DiskBehind, SeenSuccess

LEMMA RecordTaskStep ==
  ASSUME TypeInv, StageInv, RecordInv, NEW r \in Runs, NEW t \in Tasks, TaskStep(r, t)
  PROVE  RecordInv'
<1>1. KeepsOthers(r, t) /\ (Settles(r, t) \/ Starts(r, t) \/ Proceeds(r, t))
  BY TaskEffect
<1>2. \A q \in Runs : q # r => RunRecorded(q)'
  BY <1>1, RecordedKept DEF RecordInv, KeepsOthers
<1>3. RunRecorded(r) /\ RunStaged(r)
  BY DEF RecordInv, StageInv
<1>4. /\ rpc[r] \in {"feed", "join"}
      /\ mem[r].tasks[t] \in {"pending", "running"}
      /\ pc[r][t] # "got" => mem[r].tasks[t] = "running"
  BY <1>1, <1>3 DEF Settles, Starts, Proceeds, RunStaged, BusyInStage, BusyStatus
<1>5. disk[r].tasks[t] \notin TaskDone
  BY <1>3, <1>4 DEF RunRecorded, DiskBehind, TaskDone
<1>6. disk'[r].status \in {"pending", "running"} /\ mem'[r].status = "running"
  BY <1>1, <1>3, <1>4 DEF RunRecorded, StatusFollows, KeepsOthers
<1>7. ActiveEntry(r)' /\ StatusFollows(r)'
  BY <1>1, <1>3, <1>4, <1>6 DEF RunRecorded, ActiveEntry, StatusFollows, KeepsOthers
<1>8. DiskBehind(r)'
  <2> SUFFICES ASSUME NEW u \in Tasks, disk'[r].tasks[u] \in TaskDone
               PROVE  mem'[r].tasks[u] = disk'[r].tasks[u]
    BY DEF DiskBehind
  <2>1. CASE disk'[r] = mem'[r]
    BY <2>1
  <2>2. CASE disk'[r] = disk[r]
    BY <1>1, <1>3, <1>4, <1>5, <2>2 DEF RunRecorded, DiskBehind, KeepsOthers
  <2> QED
    BY <1>1, <2>1, <2>2 DEF KeepsOthers
<1>9. \A u \in Tasks : u # t =>
        /\ pc'[r][u] \in {"waitedOk", "cleanOk", "doneOk"} => job'[r][u] = "succeeded"
        /\ mem'[r].tasks[u] = "succeeded" => job'[r][u] = "succeeded"
        /\ disk'[r].tasks[u] = "succeeded" => job'[r][u] = "succeeded"
  BY <1>1, <1>3 DEF KeepsOthers, RunRecorded, SeenSuccess
<1>10. /\ pc'[r][t] \in {"waitedOk", "cleanOk", "doneOk"} => job'[r][t] = "succeeded"
       /\ mem'[r].tasks[t] = "succeeded" => job'[r][t] = "succeeded"
  BY <1>1, <1>3, <1>4 DEF Settles, Starts, Proceeds, RunRecorded, SeenSuccess
<1>11. disk'[r].tasks[t] = "succeeded" => job'[r][t] = "succeeded"
  BY <1>1, <1>5, <1>10 DEF KeepsOthers, TaskDone
<1>12. SeenSuccess(r)'
  BY <1>9, <1>10, <1>11 DEF SeenSuccess
<1> QED
  BY <1>2, <1>7, <1>8, <1>12 DEF RecordInv, RunRecorded

\* executeRun saves a record that keeps every result and adds no success.
LEMMA RecordRunSaves ==
  ASSUME TypeInv, NEW r \in Runs, RunRecorded(r), NEW record, Save(r, record),
         rpc[r] \notin {"idle", "prepare"}, rpc'[r] \notin {"idle", "prepare"},
         \A t \in Tasks : mem[r].tasks[t] \in TaskDone => record.tasks[t] = mem[r].tasks[t],
         \A t \in Tasks : record.tasks[t] = "succeeded" => mem[r].tasks[t] = "succeeded",
         rpc'[r] # "leave" => record.status = "running" /\ rpc'[r] # "install",
         rpc[r] # "leave", disk[r].status # "none", record.status # "none",
         active'[r] = active[r], pc'[r] = pc[r], job' = job
  PROVE  RunRecorded(r)'
<1>1. mem'[r] = record /\ (disk'[r] = record \/ disk'[r] = disk[r])
  BY SavePoint
<1>2. rpc[r] \in RunPC
  BY DEF TypeInv, TypeOK
<1>3. disk[r].status \in {"pending", "running"}
  BY <1>2 DEF RunRecorded, StatusFollows, RunPC
<1>4. ActiveEntry(r)' /\ StatusFollows(r)'
  BY <1>1, <1>3 DEF RunRecorded, ActiveEntry, StatusFollows
<1>5. DiskBehind(r)'
  BY <1>1 DEF RunRecorded, DiskBehind
<1>6. SeenSuccess(r)'
  BY <1>1 DEF RunRecorded, SeenSuccess
<1> QED
  BY <1>4, <1>5, <1>6 DEF RunRecorded

LEMMA RecordRunStep ==
  ASSUME TypeInv, StageInv, RecordInv, NEW r \in Runs, RunStep(r)
  PROVE  RecordInv'
<1> USE DEF kubeVars
<1>t. /\ active \in [Runs -> {"none", "nil", "cancel"}] /\ rpc \in [Runs -> RunPC]
      /\ pc \in [Runs -> [Tasks -> TaskPC]] /\ mem[r] \in RunRecord
      /\ mem \in [Runs -> RunRecord] /\ disk \in [Runs -> RunRecord]
  BY DEF TypeInv, TypeOK
<1>f. KeepsOtherRuns(r)
  BY RunFrame
<1>q. \A q \in Runs : q # r => RunRecorded(q)'
  BY <1>f, RecordedKept DEF RecordInv, KeepsOtherRuns
<1>r. RunRecorded(r)
  BY DEF RecordInv
<1>j. job' = job
  BY <1>f DEF KeepsOtherRuns
<1> SUFFICES RunRecorded(r)'
  BY <1>q DEF RecordInv
<1>m. ASSUME pc'[r] = pc[r], mem'[r] = mem[r], disk'[r] = disk[r],
             rpc[r] \notin {"idle", "prepare"}, rpc'[r] \notin {"idle", "prepare"},
             active[r] # "none", active'[r] # "none",
             rpc'[r] # "install", rpc[r] \in {"next", "feed", "join"} \/ rpc'[r] = "begin",
             rpc'[r] = "begin" => rpc[r] = "install"
      PROVE  RunRecorded(r)'
  BY <1>m, <1>r, <1>j DEF RunRecorded, ActiveEntry, StatusFollows, DiskBehind, SeenSuccess
<1>a. rpc[r] # "idle" => active[r] # "none"
  BY <1>r DEF RunRecorded, ActiveEntry
<1>d. rpc[r] \in {"begin", "next", "feed", "join", "finish"} => disk[r].status # "none"
  BY <1>r DEF RunRecorded, StatusFollows
<1>1. CASE PrepareRun(r)
  <2>1. rpc[r] = "prepare" /\ pc'[r] = pc[r]
    BY <1>1 DEF PrepareRun
  <2>2. CASE /\ disk' = [disk EXCEPT ![r] = PendingRun] /\ mem' = [mem EXCEPT ![r] = PendingRun]
             /\ rpc' = [rpc EXCEPT ![r] = "install"] /\ UNCHANGED active
    <3>1. disk'[r] = PendingRun /\ mem'[r] = PendingRun /\ rpc'[r] = "install" /\ active'[r] = active[r]
      BY <1>t, <2>2
    <3>2. PendingRun.status = "pending" /\ \A t \in Tasks : PendingRun.tasks[t] = "pending"
      BY DEF PendingRun
    <3> QED
      BY <2>1, <3>1, <3>2, <1>r, <1>j DEF RunRecorded, ActiveEntry, StatusFollows, DiskBehind,
           SeenSuccess, TaskDone
  <2>3. CASE /\ active' = [active EXCEPT ![r] = "none"] /\ rpc' = [rpc EXCEPT ![r] = "idle"]
             /\ UNCHANGED <<disk, mem>>
    <3>1. active'[r] = "none" /\ rpc'[r] = "idle"
      BY <1>t, <2>3
    <3> QED
      BY <2>1, <2>3, <3>1, <1>r, <1>j DEF RunRecorded, ActiveEntry, StatusFollows, DiskBehind,
           SeenSuccess
  <2> QED
    BY <1>1, <2>2, <2>3 DEF PrepareRun
<1>2. CASE InstallCancel(r)
  <2>1. /\ rpc[r] = "install" /\ rpc'[r] = "begin" /\ active'[r] = "cancel"
        /\ pc'[r] = pc[r] /\ mem'[r] = mem[r] /\ disk'[r] = disk[r]
    BY <1>2, <1>t DEF InstallCancel
  <2> QED
    BY <2>1, <1>m, <1>a
<1>3. CASE BeginRun(r)
  <2>1. /\ rpc[r] = "begin" /\ rpc'[r] = "next" /\ active'[r] = active[r] /\ pc'[r] = pc[r]
        /\ Save(r, [mem[r] EXCEPT !.status = "running"])
    BY <1>3, <1>t DEF BeginRun
  <2>2. /\ [mem[r] EXCEPT !.status = "running"].status = "running"
        /\ [mem[r] EXCEPT !.status = "running"].tasks = mem[r].tasks
    BY <1>t DEF RunRecord
  <2> QED
    BY <2>1, <2>2, <1>r, <1>d, <1>j, RecordRunSaves
<1>4. CASE EndStages(r)
  <2>1. /\ rpc[r] = "next" /\ rpc'[r] = "finish" /\ active'[r] = active[r]
        /\ pc'[r] = pc[r] /\ mem'[r] = mem[r] /\ disk'[r] = disk[r]
    BY <1>4, <1>t DEF EndStages
  <2> QED
    BY <2>1, <1>m, <1>a
<1>5. CASE SkipStage(r)
  <2> DEFINE written == [mem[r] EXCEPT !.tasks =
                 [t \in Tasks |-> IF StageOf[t] = stage[r] /\ @[t] = "pending"
                                    THEN "skipped" ELSE @[t]]]
  <2>1. /\ rpc[r] = "next" /\ rpc'[r] = "next" /\ active'[r] = active[r] /\ pc'[r] = pc[r]
        /\ Save(r, written)
    BY <1>5, <1>t DEF SkipStage
  <2>2. mem[r].status = "running"
    BY <2>1, <1>r DEF RunRecorded, StatusFollows
  <2>3. /\ written.status = "running"
        /\ \A t \in Tasks : mem[r].tasks[t] \in TaskDone => written.tasks[t] = mem[r].tasks[t]
        /\ \A t \in Tasks : written.tasks[t] = "succeeded" => mem[r].tasks[t] = "succeeded"
    BY <1>t, <2>2 DEF RunRecord, TaskDone
  <2> HIDE DEF written
  <2> QED
    BY <2>1, <2>3, <1>r, <1>d, <1>j, RecordRunSaves
<1>6. CASE EnterStage(r)
  <2>1. /\ rpc[r] = "next" /\ rpc'[r] = "feed" /\ active'[r] = active[r]
        /\ pc'[r] = pc[r] /\ mem'[r] = mem[r] /\ disk'[r] = disk[r]
    BY <1>6, <1>t DEF EnterStage
  <2> QED
    BY <2>1, <1>m, <1>a
<1>7. CASE CloseFeed(r)
  <2>1. /\ rpc[r] = "feed" /\ rpc'[r] = "join" /\ active'[r] = active[r]
        /\ pc'[r] = pc[r] /\ mem'[r] = mem[r] /\ disk'[r] = disk[r]
    BY <1>7, <1>t DEF CloseFeed
  <2> QED
    BY <2>1, <1>m, <1>a
<1>8. CASE JoinStage(r)
  <2>1. /\ rpc[r] = "join" /\ rpc'[r] = "next" /\ active'[r] = active[r]
        /\ pc'[r] = pc[r] /\ mem'[r] = mem[r] /\ disk'[r] = disk[r]
    BY <1>8, <1>t DEF JoinStage
  <2> QED
    BY <2>1, <1>m, <1>a
<1>9. CASE FinishRun(r)
  <2>1. rpc[r] = "finish" /\ rpc'[r] = "leave" /\ active'[r] = active[r] /\ pc'[r] = pc[r]
    BY <1>9, <1>t DEF FinishRun
  <2>2. CASE Save(r, CancelledRecord(mem[r]))
    <3>1. /\ CancelledRecord(mem[r]).status = "cancelled"
          /\ \A t \in Tasks : mem[r].tasks[t] \in TaskDone =>
               CancelledRecord(mem[r]).tasks[t] = mem[r].tasks[t]
          /\ \A t \in Tasks : CancelledRecord(mem[r]).tasks[t] = "succeeded" =>
               mem[r].tasks[t] = "succeeded"
      BY DEF CancelledRecord
    <3> QED
      BY <2>1, <2>2, <3>1, <1>r, <1>d, <1>j, RecordRunSaves
  <2>3. ASSUME NEW s \in RunDone, Save(r, [mem[r] EXCEPT !.status = s])
        PROVE  RunRecorded(r)'
    <3>1. /\ [mem[r] EXCEPT !.status = s].status = s
          /\ [mem[r] EXCEPT !.status = s].tasks = mem[r].tasks
      BY <1>t DEF RunRecord
    <3>2. s # "none"
      BY DEF RunDone
    <3> QED
      BY <2>1, <2>3, <3>1, <3>2, <1>r, <1>d, <1>j, RecordRunSaves
  <2> QED
    BY <1>9, <2>2, <2>3 DEF FinishRun, RunDone
<1>10. CASE LeaveRun(r)
  <2>1. /\ rpc[r] = "leave" /\ rpc'[r] = "idle" /\ active'[r] = "none"
        /\ pc'[r] = pc[r] /\ mem'[r] = mem[r] /\ disk'[r] = disk[r]
    BY <1>10, <1>t DEF LeaveRun
  <2> QED
    BY <2>1, <1>r, <1>j DEF RunRecorded, ActiveEntry, StatusFollows, DiskBehind, SeenSuccess
<1>11. ASSUME NEW t \in Tasks, FeedSettled(r, t) PROVE RunRecorded(r)'
  <2>1. /\ rpc[r] = "feed" /\ rpc'[r] = "feed" /\ active'[r] = active[r]
        /\ pc'[r] = pc[r] /\ mem'[r] = mem[r] /\ disk'[r] = disk[r]
    BY <1>11, <1>t DEF FeedSettled, NextToFeed
  <2> QED
    BY <2>1, <1>m, <1>a
<1>12. ASSUME NEW t \in Tasks, FeedCancelled(r, t) PROVE RunRecorded(r)'
  <2> DEFINE written == SetTask(r, t, "cancelled")
  <2>1. /\ rpc[r] = "feed" /\ rpc'[r] = "feed" /\ active'[r] = active[r] /\ pc'[r] = pc[r]
        /\ mem[r].tasks[t] \notin TaskDone /\ Save(r, written)
    BY <1>12, <1>t DEF FeedCancelled, NextToFeed
  <2>2. mem[r].status = "running"
    BY <2>1, <1>r DEF RunRecorded, StatusFollows
  <2>3. /\ written.status = "running"
        /\ \A u \in Tasks : mem[r].tasks[u] \in TaskDone => written.tasks[u] = mem[r].tasks[u]
        /\ \A u \in Tasks : written.tasks[u] = "succeeded" => mem[r].tasks[u] = "succeeded"
    BY <1>t, <2>1, <2>2 DEF RunRecord, SetTask
  <2> HIDE DEF written
  <2> QED
    BY <2>1, <2>3, <1>r, <1>d, <1>j, RecordRunSaves
<1>13. ASSUME NEW t \in Tasks, FeedSend(r, t) PROVE RunRecorded(r)'
  <2>1. /\ rpc[r] = "feed" /\ rpc'[r] = "feed" /\ active'[r] = active[r]
        /\ mem'[r] = mem[r] /\ disk'[r] = disk[r]
    BY <1>13, <1>t DEF FeedSend, NextToFeed
  <2>2. pc'[r][t] = "got" /\ \A u \in Tasks : u # t => pc'[r][u] = pc[r][u]
    BY <1>13, <1>t DEF FeedSend, Goto
  <2> QED
    BY <2>1, <2>2, <1>r, <1>j DEF RunRecorded, ActiveEntry, StatusFollows, DiskBehind, SeenSuccess
<1> QED
  BY <1>1, <1>2, <1>3, <1>4, <1>5, <1>6, <1>7, <1>8, <1>9, <1>10, <1>11, <1>12, <1>13
     DEF RunStep

LEMMA RecordProcess ==
  ASSUME TypeInv, StageInv, RecordInv, Crash \/ Restart \/ \E r \in Runs : Requests(r)
  PROVE  RecordInv'
<1> USE DEF kubeVars, runVars
<1>1. CASE Crash
  <2>1. /\ UNCHANGED <<disk, job>>
        /\ \A r \in Runs : /\ active'[r] = "none" /\ rpc'[r] = "idle" /\ mem'[r] = NewRun
                           /\ \A t \in Tasks : pc'[r][t] = "idle"
    BY <1>1 DEF Crash
  <2>2. \A t \in Tasks : NewRun.tasks[t] = "pending"
    BY DEF NewRun
  <2> QED
    BY <2>1, <2>2 DEF RecordInv, RunRecorded, ActiveEntry, StatusFollows, DiskBehind, SeenSuccess
<1>2. CASE Restart
  <2>1. /\ UNCHANGED <<disk, job, pc>>
        /\ \A r \in Runs : rpc[r] = "idle"
        /\ \A r \in Runs : Unfinished(r) =>
             active'[r] = "cancel" /\ rpc'[r] = "begin" /\ mem'[r] = disk[r]
        /\ \A r \in Runs : ~Unfinished(r) =>
             active'[r] = "none" /\ rpc'[r] = "idle" /\ mem'[r] = NewRun
    BY <1>2 DEF Restart, StageInv, DownIsIdle
  <2>2. \A t \in Tasks : NewRun.tasks[t] = "pending"
    BY DEF NewRun
  <2> QED
    BY <2>1, <2>2 DEF RecordInv, RunRecorded, ActiveEntry, StatusFollows, DiskBehind,
         SeenSuccess, Unfinished
<1>3. ASSUME NEW r \in Runs, ReserveRun(r) PROVE RecordInv'
  <2>1. /\ disk[r].status = "none" /\ active'[r] = "nil" /\ rpc'[r] = "prepare"
        /\ UNCHANGED <<mem, disk, job, pc>>
        /\ \A q \in Runs : q # r => active'[q] = active[q] /\ rpc'[q] = rpc[q]
    BY <1>3 DEF ReserveRun, TypeInv, TypeOK
  <2> QED
    BY <2>1 DEF RecordInv, RunRecorded, ActiveEntry, StatusFollows, DiskBehind, SeenSuccess
<1>4. ASSUME NEW r \in Runs, CancelActive(r) PROVE RecordInv'
  BY <1>4, RecordedKept DEF CancelActive, RecordInv
<1>5. ASSUME NEW r \in Runs, CancelRecorded(r) PROVE RecordInv'
  <2>1. /\ disk'[r].status = "cancelled" /\ disk'[r].tasks = disk[r].tasks
        /\ \A q \in Runs : q # r => disk'[q] = disk[q]
        /\ active[r] = "none" /\ UNCHANGED <<active, rpc, pc, mem, job>>
    BY <1>5 DEF CancelRecorded, TypeInv, TypeOK, RunRecord
  <2>2. rpc[r] = "idle"
    BY <2>1 DEF RecordInv, RunRecorded, ActiveEntry
  <2> QED
    BY <2>1, <2>2 DEF RecordInv, RunRecorded, ActiveEntry, StatusFollows, DiskBehind, SeenSuccess
<1> QED
  BY <1>1, <1>2, <1>3, <1>4, <1>5 DEF Requests

LEMMA RecordInvariant == Spec => []RecordInv
<1>1. Init => RecordInv
  BY DEF Init, NewRun, RecordInv, RunRecorded, ActiveEntry, StatusFollows, DiskBehind, SeenSuccess
<1>2. TypeInv /\ StageInv /\ RecordInv /\ [Next]_vars => RecordInv'
  <2> SUFFICES ASSUME TypeInv, StageInv, RecordInv, [Next]_vars PROVE RecordInv'
    OBVIOUS
  <2>1. ASSUME UNCHANGED <<active, rpc, pc, mem, disk>>,
               \A q \in Runs, u \in Tasks : job[q][u] = "succeeded" => job'[q][u] = "succeeded"
        PROVE  RecordInv'
    BY <2>1, RecordedKept DEF RecordInv
  <2>2. CASE UNCHANGED vars
    BY <2>1, <2>2 DEF vars
  <2>3. ASSUME NEW r \in Runs, NEW t \in Tasks, JobStep(r, t) PROVE RecordInv'
    BY <2>1, <2>3, JobEffect DEF runVars
  <2> QED
    BY <2>2, <2>3, RecordRunStep, RecordTaskStep, RecordProcess DEF Next
<1> QED
  BY <1>1, <1>2, TypeInvariant, StageInvariant, PTL DEF Spec

-----------------------------------------------------------------------------
(***************************************************************************)
(* Without a crash the process never recovers a task, so every Job and every *)
(* PodDisruptionBudget belongs to the one worker that is still with its task. *)
(***************************************************************************)
OneProcess(r, t) ==
  /\ mem[r].tasks[t] = "running" => pc[r][t] \notin {"idle", "got"}
  /\ pc[r][t] \notin {"recover", "findpod", "rpdb"}

\* Only a worker that creates or awaits its Job has one executing, and only one
\* that will clean it up has a budget.
Tidy(r, t) ==
  /\ LiveJob(r, t) => pc[r][t] \in {"create", "wait"}
  /\ t \in pdb[r] => pc[r][t] \in {"get", "create", "wait", "waitedOk", "waitedErr",
                                   "reread", "cleanOk", "cleanErr"}

\* A cancelled run may leave its Jobs to the API server, one that has ended by
\* itself may not.
EndsItself(r) == ~canceled[r] \/ mem[r].status \in {"succeeded", "failed"}

QuietInv ==
  ~Happened("crash") =>
    up /\ \A r \in Runs, t \in Tasks :
      OneProcess(r, t) /\ (~Happened("api") /\ EndsItself(r) => Tidy(r, t))

LEMMA QuietTaskStep ==
  ASSUME RunnerInv, StageInv, RecordInv, QuietInv, NEW r \in Runs, NEW t \in Tasks, TaskStep(r, t),
         \A k \in FaultKinds : Happened(k) => Happened(k)', ~Happened("crash")'
  PROVE  QuietInv'
<1> USE DEF runVars, kubeVars
<1>t. /\ TypeInv /\ pc \in [Runs -> [Tasks -> TaskPC]]
      /\ job \in [Runs -> [Tasks -> {"none", "pending", "running", "succeeded", "failed"}]]
      /\ gone \in [Runs -> SUBSET Tasks] /\ pdb \in [Runs -> SUBSET Tasks]
  BY DEF RunnerInv, TypeInv, TypeOK
<1>h. /\ ~Happened("crash") /\ (~Happened("api")' => ~Happened("api"))
      /\ SpendFault("api") => Happened("api")'
  BY RunnerAssumption DEF FaultKinds, SpendFault, Happened, RunnerInv, TypeInv, TypeOK, WithinBudget
<1>1. KeepsOthers(r, t) /\ (Settles(r, t) \/ Starts(r, t) \/ Proceeds(r, t))
  BY <1>t, TaskEffect
<1>2. /\ up /\ \A q \in Runs, u \in Tasks : OneProcess(q, u)
      /\ ~Happened("api") => \A q \in Runs, u \in Tasks : EndsItself(q) => Tidy(q, u)
  BY <1>h DEF QuietInv
<1>3. /\ up' /\ canceled' = canceled
      /\ \A q \in Runs : mem'[q].status = mem[q].status
  BY <1>1, <1>2 DEF KeepsOthers
<1>4. \A q \in Runs, u \in Tasks : q # r \/ u # t =>
        /\ pc'[q][u] = pc[q][u] /\ mem'[q].tasks[u] = mem[q].tasks[u]
        /\ job'[q][u] = job[q][u]
  BY <1>1 DEF KeepsOthers
<1>5. \A q \in Runs, u \in Tasks : q # r \/ u # t =>
        /\ u \in gone[q] <=> u \in gone'[q]
        /\ u \in pdb[q] <=> u \in pdb'[q]
  BY <1>t DEF TaskStep, WorkerCancelled, StartTask, EnsurePDB, GetJob, CreateJob, NewJob,
       RecoverJob, FindRunningPod, WaitJob, AfterWait, ReReadJob, DeleteJob, CleanupPDB, RecordTask
<1>g. \A p : Goto(r, t, p) => pc'[r][t] = p
  BY <1>t DEF Goto
<1>6. OneProcess(r, t)'
  <2>1. mem'[r].tasks[t] = "running" => pc'[r][t] \notin {"idle", "got"}
    BY <1>1, <1>2 DEF Settles, Starts, Proceeds, OneProcess
  <2>2. pc'[r][t] \notin {"recover", "findpod", "rpdb"}
    BY <1>g, <1>2 DEF OneProcess, TaskStep, WorkerCancelled, StartTask, EnsurePDB, GetJob,
         CreateJob, RecoverJob, FindRunningPod, WaitJob, AfterWait, ReReadJob, DeleteJob,
         CleanupPDB, RecordTask
  <2> QED
    BY <2>1, <2>2 DEF OneProcess
<1>7. ASSUME ~Happened("api")', EndsItself(r) PROVE Tidy(r, t)'
  <2>1. /\ ~canceled[r] /\ ~RequestFails(r)
        /\ Tidy(r, t) /\ OneProcess(r, t) /\ ~SpendFault("api")
    <3>1. rpc[r] \in {"feed", "join"}
      BY <1>1 DEF StageInv, RunStaged, BusyInStage, Settles, Starts, Proceeds
    <3>2. mem[r].status = "running"
      BY <3>1 DEF RecordInv, RunRecorded, StatusFollows
    <3> QED
      BY <1>h, <1>2, <1>7, <3>2 DEF EndsItself, RequestFails
  <2>2. CASE WorkerCancelled(r, t)
    BY <2>1, <2>2 DEF WorkerCancelled
  <2>3. CASE StartTask(r, t)
    BY <2>1, <2>3, <1>g DEF StartTask, Tidy, OneProcess, LiveJob, Present
  <2>4. CASE EnsurePDB(r, t)
    BY <1>t, <2>1, <2>4, <1>g DEF EnsurePDB, Tidy, OneProcess, LiveJob, Present
  <2>5. CASE GetJob(r, t)
    BY <2>1, <2>5, <1>g DEF GetJob, Tidy, LiveJob, Present
  <2>6. CASE CreateJob(r, t)
    BY <2>1, <2>6, <1>g DEF CreateJob, Tidy
  <2>7. CASE RecoverJob(r, t) \/ FindRunningPod(r, t)
    BY <2>1, <2>7 DEF RecoverJob, FindRunningPod, OneProcess
  <2>8. CASE WaitJob(r, t)
    BY <2>1, <2>8, <1>g DEF WaitJob, Tidy, LiveJob, Present
  <2>9. CASE AfterWait(r, t)
    BY <2>1, <2>9, <1>g DEF AfterWait, Tidy, LiveJob, Present
  <2>10. CASE ReReadJob(r, t)
    BY <2>1, <2>10, <1>g DEF ReReadJob, Tidy, LiveJob, Present
  <2>11. CASE DeleteJob(r, t)
    BY <1>t, <2>1, <2>11, <1>g DEF DeleteJob, Tidy, LiveJob, Present
  <2>12. CASE CleanupPDB(r, t)
    BY <1>t, <2>1, <2>12, <1>g DEF CleanupPDB, Tidy, LiveJob, Present
  <2>13. CASE RecordTask(r, t)
    BY <2>1, <2>13, <1>g DEF RecordTask, Tidy, LiveJob, Present
  <2> QED
    BY <2>2, <2>3, <2>4, <2>5, <2>6, <2>7, <2>8, <2>9, <2>10, <2>11, <2>12, <2>13 DEF TaskStep
<1>8. \A q \in Runs, u \in Tasks : q # r \/ u # t =>
        OneProcess(q, u)' /\ (~Happened("api")' /\ EndsItself(q)' => Tidy(q, u)')
  BY <1>h, <1>2, <1>3, <1>4, <1>5 DEF OneProcess, EndsItself, Tidy, LiveJob, Present
<1>9. EndsItself(r)' => EndsItself(r)
  BY <1>3 DEF EndsItself
<1> QED
  BY <1>3, <1>6, <1>7, <1>8, <1>9 DEF QuietInv

\* executeRun starts no task that runs already, and ends by itself only a run
\* that was not cancelled.
LEMMA RunLeavesJobs ==
  ASSUME TypeInv, StageInv, QuietInv, ~Happened("crash"), NEW r \in Runs, RunStep(r)
  PROVE  /\ \A u \in Tasks :
              /\ \/ pc'[r][u] = pc[r][u]
                 \/ pc[r][u] = "idle" /\ pc'[r][u] = "got" /\ mem'[r].tasks[u] # "running"
              /\ mem'[r].tasks[u] = "running" => mem[r].tasks[u] = "running"
         /\ mem'[r].status \in {"succeeded", "failed"} => EndsItself(r)
<1> USE DEF kubeVars
<1>t. mem \in [Runs -> RunRecord] /\ mem[r] \in RunRecord /\ pc \in [Runs -> [Tasks -> TaskPC]]
  BY DEF TypeInv, TypeOK
<1>w. \A record : Save(r, record) => mem'[r] = record
  BY SavePoint
<1>k. ASSUME pc' = pc, mem'[r] = mem[r]
      PROVE  /\ \A u \in Tasks : /\ pc'[r][u] = pc[r][u]
                                 /\ mem'[r].tasks[u] = "running" => mem[r].tasks[u] = "running"
             /\ mem'[r].status \in {"succeeded", "failed"} => EndsItself(r)
  BY <1>k DEF EndsItself
<1>1. CASE PrepareRun(r)
  <2>1. pc' = pc /\ (mem'[r] = mem[r] \/ mem'[r] = PendingRun)
    BY <1>1, <1>t DEF PrepareRun
  <2> QED
    BY <2>1, <1>k DEF PendingRun
<1>2. CASE InstallCancel(r) \/ EndStages(r) \/ EnterStage(r) \/ CloseFeed(r) \/ JoinStage(r)
           \/ LeaveRun(r)
  BY <1>2, <1>k DEF InstallCancel, EndStages, EnterStage, CloseFeed, JoinStage, LeaveRun
<1>3. CASE BeginRun(r)
  <2>1. pc' = pc /\ mem'[r] = [mem[r] EXCEPT !.status = "running"]
    BY <1>3, <1>w DEF BeginRun
  <2> QED
    BY <1>t, <2>1 DEF RunRecord
<1>5. CASE SkipStage(r)
  <2>1. /\ pc' = pc /\ ~canceled[r]
        /\ mem'[r] = [mem[r] EXCEPT !.tasks =
             [t \in Tasks |-> IF StageOf[t] = stage[r] /\ @[t] = "pending"
                                THEN "skipped" ELSE @[t]]]
    BY <1>5, <1>w DEF SkipStage
  <2> QED
    BY <1>t, <2>1 DEF RunRecord, EndsItself
<1>9. CASE FinishRun(r)
  <2>1. /\ pc' = pc
        /\ \/ mem'[r] = CancelledRecord(mem[r])
           \/ ~canceled[r] /\ \E s \in RunDone : mem'[r] = [mem[r] EXCEPT !.status = s]
    BY <1>9, <1>w DEF FinishRun, RunDone
  <2>2. /\ CancelledRecord(mem[r]).status = "cancelled"
        /\ \A u \in Tasks : CancelledRecord(mem[r]).tasks[u] # "running"
    BY DEF CancelledRecord, TaskDone
  <2>3. \A s \in RunDone : [mem[r] EXCEPT !.status = s].tasks = mem[r].tasks
    BY <1>t DEF RunRecord
  <2> QED
    BY <2>1, <2>2, <2>3 DEF EndsItself
<1>11. ASSUME NEW t \in Tasks, FeedSettled(r, t) PROVE pc' = pc /\ mem' = mem
  BY <1>11 DEF FeedSettled
<1>12. ASSUME NEW t \in Tasks, FeedCancelled(r, t)
       PROVE  /\ pc' = pc /\ mem'[r].status = mem[r].status /\ mem'[r].tasks[t] = "cancelled"
              /\ \A u \in Tasks : u # t => mem'[r].tasks[u] = mem[r].tasks[u]
  BY <1>12, TaskSavePoint DEF FeedCancelled
<1>13. ASSUME NEW t \in Tasks, FeedSend(r, t)
       PROVE  /\ mem' = mem /\ pc[r][t] = "idle" /\ pc'[r][t] = "got"
              /\ mem[r].tasks[t] # "running" /\ \A u \in Tasks : u # t => pc'[r][u] = pc[r][u]
  <2>1. t \in todo[r] /\ mem' = mem /\ Goto(r, t, "got")
    BY <1>13 DEF FeedSend, NextToFeed
  <2>2. pc[r][t] = "idle"
    BY <2>1 DEF StageInv, RunStaged, BusyInStage
  <2> QED
    BY <1>t, <2>1, <2>2 DEF Goto, QuietInv, OneProcess
<1>14. ASSUME NEW t \in Tasks, FeedCancelled(r, t)
       PROVE  /\ \A u \in Tasks : /\ pc'[r][u] = pc[r][u]
                                  /\ mem'[r].tasks[u] = "running" => mem[r].tasks[u] = "running"
              /\ mem'[r].status \in {"succeeded", "failed"} => EndsItself(r)
  BY <1>12, <1>14 DEF EndsItself
<1>15. ASSUME NEW t \in Tasks, FeedSend(r, t)
       PROVE  /\ \A u \in Tasks :
                   /\ \/ pc'[r][u] = pc[r][u]
                      \/ pc[r][u] = "idle" /\ pc'[r][u] = "got" /\ mem'[r].tasks[u] # "running"
                   /\ mem'[r].tasks[u] = "running" => mem[r].tasks[u] = "running"
              /\ mem'[r].status \in {"succeeded", "failed"} => EndsItself(r)
  BY <1>13, <1>15 DEF EndsItself
<1> QED
  BY <1>1, <1>2, <1>3, <1>5, <1>9, <1>k, <1>11, <1>14, <1>15 DEF RunStep

LEMMA QuietRunStep ==
  ASSUME TypeInv, StageInv, QuietInv, NEW r \in Runs, RunStep(r),
         \A k \in FaultKinds : Happened(k) => Happened(k)', ~Happened("crash")'
  PROVE  QuietInv'
<1>1. KeepsOtherRuns(r) /\ ~Happened("crash") /\ (~Happened("api")' => ~Happened("api"))
  BY RunFrame DEF FaultKinds
<1>2. /\ \A u \in Tasks :
           /\ \/ pc'[r][u] = pc[r][u]
              \/ pc[r][u] = "idle" /\ pc'[r][u] = "got" /\ mem'[r].tasks[u] # "running"
           /\ mem'[r].tasks[u] = "running" => mem[r].tasks[u] = "running"
      /\ mem'[r].status \in {"succeeded", "failed"} => EndsItself(r)
  BY <1>1, RunLeavesJobs
<1>3. EndsItself(r)' => EndsItself(r)
  BY <1>1, <1>2 DEF EndsItself, KeepsOtherRuns
<1>4. \A q \in Runs, u \in Tasks :
        OneProcess(q, u) /\ (~Happened("api") /\ EndsItself(q) => Tidy(q, u))
  BY <1>1 DEF QuietInv
<1>5. \A u \in Tasks : OneProcess(r, u)' /\ (Tidy(r, u) => Tidy(r, u)')
  BY <1>1, <1>2, <1>4 DEF OneProcess, Tidy, LiveJob, Present, KeepsOtherRuns, kubeVars
<1>6. \A q \in Runs, u \in Tasks : q # r =>
        /\ OneProcess(q, u)' /\ (EndsItself(q)' => EndsItself(q))
        /\ Tidy(q, u) => Tidy(q, u)'
  BY <1>1, <1>4 DEF OneProcess, EndsItself, Tidy, LiveJob, Present, KeepsOtherRuns, kubeVars
<1> QED
  BY <1>1, <1>3, <1>4, <1>5, <1>6 DEF QuietInv, KeepsOtherRuns

LEMMA QuietProcess ==
  ASSUME RunnerInv, QuietInv, Crash \/ Restart \/ \E r \in Runs : Requests(r),
         \A k \in FaultKinds : Happened(k) => Happened(k)', ~Happened("crash")'
  PROVE  QuietInv'
<1> USE DEF kubeVars, runVars
<1>h. ~Happened("crash") /\ (~Happened("api")' => ~Happened("api"))
  BY DEF FaultKinds
<1>1. ~Crash
  BY RunnerAssumption DEF Crash, SpendFault, Happened, RunnerInv, TypeInv, TypeOK, WithinBudget,
     FaultKinds
<1>2. ~Restart
  BY <1>h DEF Restart, QuietInv
<1>3. UNCHANGED <<up, pc, mem, job, gone, pdb>>
  BY <1>1, <1>2 DEF Requests, ReserveRun, CancelActive, CancelRecorded
<1>4. \A r \in Runs : ~canceled'[r] => ~canceled[r]
  BY <1>1, <1>2 DEF Requests, ReserveRun, CancelActive, CancelRecorded, RunnerInv, TypeInv, TypeOK
<1> QED
  BY <1>h, <1>3, <1>4 DEF QuietInv, OneProcess, EndsItself, Tidy, LiveJob, Present

LEMMA QuietInvariant == Spec => []QuietInv
<1>1. Init => QuietInv
  BY DEF Init, NewRun, QuietInv, OneProcess, Tidy, LiveJob, Present
<1>2. RunnerInv /\ StageInv /\ RecordInv /\ QuietInv /\ [Next]_vars => QuietInv'
  <2> SUFFICES ASSUME RunnerInv, StageInv, RecordInv, QuietInv, [Next]_vars, ~Happened("crash")'
               PROVE  QuietInv'
    BY DEF QuietInv
  <2>1. TypeInv /\ \A k \in FaultKinds : Happened(k) => Happened(k)'
    BY FaultsRemembered DEF RunnerInv
  <2>2. ~Happened("crash") /\ (~Happened("api")' => ~Happened("api"))
    BY <2>1 DEF FaultKinds
  <2>3. CASE UNCHANGED vars
    BY <2>2, <2>3 DEF vars, QuietInv, OneProcess, EndsItself, Tidy, LiveJob, Present
  <2>4. ASSUME NEW r \in Runs, NEW t \in Tasks, JobStep(r, t) PROVE QuietInv'
    <3>1. UNCHANGED <<up, canceled, pc, mem, pdb>>
      BY <2>1, <2>4, JobEffect DEF runVars
    <3>2. \A q \in Runs, u \in Tasks : LiveJob(q, u)' => LiveJob(q, u)
      <4>1. /\ job \in [Runs -> [Tasks -> {"none", "pending", "running", "succeeded", "failed"}]]
            /\ gone \in [Runs -> SUBSET Tasks]
        BY <2>1 DEF TypeInv, TypeOK
      <4>2. CASE JobStarts(r, t)
        BY <4>1, <4>2 DEF JobStarts, LiveJob, Present
      <4>3. CASE JobEnds(r, t)
        BY <4>1, <4>3 DEF JobEnds, LiveJob, Present
      <4>4. CASE JobRetries(r, t)
        BY <4>1, <4>4 DEF JobRetries, LiveJob, Present
      <4>5. CASE JobExpires(r, t)
        BY <4>1, <4>5 DEF JobExpires, LiveJob, Present
      <4> QED
        BY <2>4, <4>2, <4>3, <4>4, <4>5 DEF JobStep, JobProgress
    <3> QED
      BY <2>2, <3>1, <3>2 DEF QuietInv, OneProcess, EndsItself, Tidy
  <2> QED
    BY <2>1, <2>3, <2>4, QuietRunStep, QuietTaskStep, QuietProcess DEF Next
<1> QED
  BY <1>1, <1>2, RunnerInvariant, StageInvariant, RecordInvariant, PTL DEF Spec

\* Without a crash or an API error a run that ended by itself leaves no Job
\* executing and no PodDisruptionBudget behind, whatever saves failed and
\* however the cancellations of other runs fell (RunTask and its deferred
\* cleanup, executeTask).
THEOREM EndedQuiet == Spec => []EndedRunIsQuiet
<1>1. RunnerInv /\ StageInv /\ RecordInv /\ QuietInv => EndedRunIsQuiet
  <2> SUFFICES ASSUME RunnerInv, StageInv, RecordInv, QuietInv,
                      ~Happened("crash"), ~Happened("api"),
                      NEW r \in Runs, mem[r].status \in {"succeeded", "failed"}
               PROVE  pdb[r] = {} /\ \A t \in Tasks : ~LiveJob(r, t)
    BY DEF EndedRunIsQuiet
  <2>1. rpc[r] \notin {"feed", "join"}
    BY DEF RecordInv, RunRecorded, StatusFollows
  <2>2. \A t \in Tasks : pc[r][t] = "idle"
    BY <2>1 DEF StageInv, RunStaged, BusyInStage
  <2>3. \A t \in Tasks : Tidy(r, t)
    BY DEF QuietInv, EndsItself
  <2>4. pdb[r] \subseteq Tasks
    BY DEF RunnerInv, TypeInv, TypeOK
  <2> QED
    BY <2>2, <2>3, <2>4 DEF Tidy
<1> QED
  BY <1>1, RunnerInvariant, StageInvariant, RecordInvariant, QuietInvariant, PTL


-----------------------------------------------------------------------------
(***************************************************************************)
(* Why a verdict is true, as long as no save has failed: what a run file     *)
(* says of one stage bounds what it can say of another, and the `failed` of  *)
(* executeRun knows every failure behind it.                                 *)
(***************************************************************************)
Status(r, t) == disk[r].tasks[t]
Executing(r) == rpc[r] \in {"next", "feed", "join", "finish"}

\* Nothing is done about a task before the earlier stages are settled.
InOrder(r) ==
  \A t, u \in Tasks : StageOf[t] < StageOf[u] /\ Status(r, u) # "pending"
    => Status(r, t) \in TaskDone

\* Where a failure ends the plan nothing was ever started after one.
NothingAfterFailure(r) ==
  ~ContinueOnFailure => \A t, u \in Tasks :
    StageOf[t] < StageOf[u] /\ Status(r, t) = "failed"
      => Status(r, u) \in {"pending", "skipped", "cancelled"}

SkippedForReason(r) ==
  \A u \in Tasks : Status(r, u) = "skipped" =>
    \E t \in Tasks : Status(r, t) = "failed" /\ StageOf[t] < StageOf[u]

\* The failures the run has come past are in `failed`, those of an earlier
\* process included, and `failed` has a failure to show unless it was cancelled.
FailureKnown(r) ==
  Executing(r) => \A t \in Tasks :
    /\ Status(r, t) = "failed"
    /\ \/ StageOf[t] < stage[r]
       \/ StageOf[t] = stage[r] /\ rpc[r] \in {"feed", "join"} /\ t \notin todo[r]
    => failed[r]

FailureShown(r) ==
  Executing(r) /\ failed[r] /\ ~canceled[r] =>
    \E t \in Tasks : /\ Status(r, t) = "failed" /\ StageOf[t] <= stage[r]
                     /\ rpc[r] = "next" => StageOf[t] < stage[r]

StartsUnfailed(r) ==
  disk[r].status = "none" \/ rpc[r] \in {"prepare", "install", "begin"} \/ ~up => ~failed[r]

\* What lies behind is settled, and where a failure ends the plan it did not
\* fail if the run went on.
BehindSettled(r) ==
  /\ rpc[r] \in {"next", "feed", "join"} => \A t \in Tasks :
       StageOf[t] < stage[r] => Status(r, t) \in TaskDone
  /\ rpc[r] \in {"feed", "join"} /\ ~ContinueOnFailure => \A t \in Tasks :
       StageOf[t] < stage[r] => Status(r, t) # "failed"
  /\ rpc[r] = "finish" /\ ~canceled[r] =>
       stage[r] > NStages /\ \A t \in Tasks : Status(r, t) \in TaskDone

CancelNoted(r) ==
  ~Happened("crash") => \A t \in Tasks : Status(r, t) = "cancelled" => canceled[r]

VerdictTrue(r) ==
  /\ disk[r].status = "succeeded" => \A t \in Tasks : Status(r, t) \in {"succeeded", "cancelled"}
  /\ disk[r].status = "failed" => \E t \in Tasks : Status(r, t) = "failed"
  /\ disk[r].status \in RunDone => \A t \in Tasks : Status(r, t) \in TaskDone
  /\ ~Happened("crash") /\ disk[r].status = "succeeded" =>
       \A t \in Tasks : Status(r, t) = "succeeded"

RunJudged(r) ==
  /\ InOrder(r) /\ NothingAfterFailure(r) /\ SkippedForReason(r)
  /\ FailureKnown(r) /\ FailureShown(r) /\ StartsUnfailed(r)
  /\ BehindSettled(r) /\ CancelNoted(r) /\ VerdictTrue(r)

VerdictInv == \A r \in Runs : RunJudged(r)

-----------------------------------------------------------------------------
\* What the steps of a run assume, before and after: the two copies of its
\* record agree.
Steady == SafetyInv /\ StageInv /\ RecordInv

LEMMA JudgedKept ==
  ASSUME NEW q, RunJudged(q), up' = up, canceled'[q] = canceled[q], rpc'[q] = rpc[q],
         stage'[q] = stage[q], todo'[q] = todo[q], failed'[q] = failed[q], disk'[q] = disk[q],
         Happened("crash") => Happened("crash")'
  PROVE  RunJudged(q)'
  BY DEF RunJudged, InOrder, NothingAfterFailure, SkippedForReason, FailureKnown, FailureShown,
     StartsUnfailed, BehindSettled, CancelNoted, VerdictTrue, Status, Executing

LEMMA VerdictTaskStep ==
  ASSUME Steady, SafetyInv', VerdictInv, NEW r \in Runs, NEW t \in Tasks, TaskStep(r, t),
         Happened("crash") => Happened("crash")'
  PROVE  VerdictInv'
<1>t. TypeInv /\ \A u \in Tasks : StageOf[u] \in Nat
  BY RunnerAssumption DEF Steady, SafetyInv
<1>1. KeepsOthers(r, t) /\ (Settles(r, t) \/ Starts(r, t) \/ Proceeds(r, t))
  BY <1>t, TaskEffect
<1>2. \A q \in Runs : q # r => RunJudged(q)'
  BY <1>1, JudgedKept DEF VerdictInv, KeepsOthers
<1>3. RunJudged(r) /\ RunStaged(r) /\ RunRecorded(r)
  BY DEF VerdictInv, Steady, StageInv, RecordInv
<1>4. /\ rpc[r] \in {"feed", "join"} /\ t \notin todo[r] /\ StageOf[t] = stage[r]
      /\ mem[r].tasks[t] \in {"pending", "running"}
  BY <1>1, <1>3 DEF Settles, Starts, Proceeds, RunStaged, BusyInStage, BusyStatus
<1>5. mem[r] = disk[r] /\ mem'[r] = disk'[r]
  BY <1>1, <1>4 DEF Steady, SafetyInv, Synced, KeepsOthers
<1>6. disk[r].status = "running" /\ up
  BY <1>3, <1>4, <1>5 DEF RunRecorded, StatusFollows, Steady, SafetyInv, DownIsIdle
<1>7. /\ Status(r, t) \notin TaskDone
      /\ \A u \in Tasks : u # t => Status(r, u)' = Status(r, u)
      /\ disk'[r].status = "running"
      /\ UNCHANGED <<up, canceled, rpc, stage, todo>>
  BY <1>1, <1>4, <1>5, <1>6 DEF KeepsOthers, Status, TaskDone
<1>8. /\ Status(r, t)' # "pending" => \A u \in Tasks : StageOf[u] < StageOf[t] => Status(r, u) \in TaskDone
      /\ Status(r, t)' # "skipped"
      /\ Status(r, t)' = "failed" => failed'[r]
      /\ Status(r, t)' = "cancelled" => canceled[r]
      /\ failed[r] => failed'[r]
      /\ failed'[r] => failed[r] \/ canceled[r] \/ Status(r, t)' = "failed"
  <2>1. \A u \in Tasks : StageOf[u] < StageOf[t] => Status(r, u) \in TaskDone
    BY <1>3, <1>4 DEF RunJudged, BehindSettled
  <2>2. mem'[r].tasks[t] = Status(r, t)'
    BY <1>5 DEF Status
  <2>3. CASE Settles(r, t)
    BY <2>1, <2>2, <2>3 DEF Settles
  <2>4. CASE Starts(r, t)
    BY <2>1, <2>2, <2>4 DEF Starts
  <2>5. CASE Proceeds(r, t)
    BY <1>4, <2>1, <2>2, <2>5 DEF Proceeds
  <2> QED
    BY <1>1, <2>3, <2>4, <2>5
<1>9. \A u \in Tasks : StageOf[t] < StageOf[u] => Status(r, u) = "pending" /\ u # t
  BY <1>3, <1>7, <1>t DEF RunJudged, InOrder
<1>10. InOrder(r)'
  BY <1>3, <1>7, <1>8, <1>9 DEF RunJudged, InOrder
<1>11. NothingAfterFailure(r)'
  BY <1>3, <1>4, <1>7, <1>9 DEF RunJudged, NothingAfterFailure, BehindSettled
<1>12. SkippedForReason(r)'
  BY <1>3, <1>7, <1>8 DEF RunJudged, SkippedForReason, TaskDone
<1>13. FailureKnown(r)'
  BY <1>3, <1>7, <1>8 DEF RunJudged, FailureKnown, Executing
<1>14. FailureShown(r)'
  <2> SUFFICES ASSUME failed'[r], ~canceled[r]
               PROVE  \E u \in Tasks : Status(r, u)' = "failed" /\ StageOf[u] <= stage[r]
    BY <1>4, <1>7 DEF FailureShown
  <2>1. CASE Status(r, t)' = "failed"
    BY <1>4, <1>t, <2>1
  <2>2. CASE failed[r]
    <3>1. PICK u \in Tasks : Status(r, u) = "failed" /\ StageOf[u] <= stage[r]
      BY <1>3, <1>4, <2>2 DEF RunJudged, FailureShown, Executing
    <3> QED
      BY <1>7, <3>1 DEF TaskDone
  <2> QED
    BY <1>8, <2>1, <2>2
<1>15. StartsUnfailed(r)' /\ BehindSettled(r)'
  BY <1>3, <1>4, <1>6, <1>7, <1>t DEF RunJudged, StartsUnfailed, BehindSettled
<1>16. CancelNoted(r)' /\ VerdictTrue(r)'
  BY <1>3, <1>7, <1>8 DEF RunJudged, CancelNoted, VerdictTrue, RunDone
<1> QED
  BY <1>2, <1>10, <1>11, <1>12, <1>13, <1>14, <1>15, <1>16 DEF VerdictInv, RunJudged

LEMMA VerdictRunStep ==
  ASSUME Steady, SafetyInv', VerdictInv, NEW r \in Runs, RunStep(r),
         Happened("crash") => Happened("crash")'
  PROVE  VerdictInv'
<1> USE DEF kubeVars
<1>t. /\ TypeInv /\ NStages \in Nat /\ stage[r] \in Nat /\ mem[r] \in RunRecord
      /\ mem \in [Runs -> RunRecord] /\ disk \in [Runs -> RunRecord]
      /\ rpc \in [Runs -> RunPC] /\ stage \in [Runs -> 0..(NStages + 1)]
      /\ todo \in [Runs -> SUBSET Tasks] /\ failed \in [Runs -> BOOLEAN]
      /\ \A u \in Tasks : StageOf[u] \in Nat /\ 1 <= StageOf[u] /\ StageOf[u] <= NStages
  BY RunnerAssumption DEF Steady, SafetyInv, TypeInv, TypeOK
<1>f. KeepsOtherRuns(r)
  BY <1>t, RunFrame
<1>q. \A q \in Runs : q # r => RunJudged(q)'
  BY <1>f, JudgedKept DEF VerdictInv, KeepsOtherRuns
<1>r. RunJudged(r) /\ RunStaged(r) /\ RunRecorded(r)
  BY DEF VerdictInv, Steady, StageInv, RecordInv
<1>u. rpc[r] # "idle" => up
  BY DEF Steady, SafetyInv, DownIsIdle
<1>c. up' = up /\ canceled' = canceled
  BY <1>f DEF KeepsOtherRuns
<1>s. /\ rpc[r] \notin {"idle", "prepare"} => mem[r] = disk[r] /\ disk[r].status # "none"
      /\ rpc'[r] \notin {"idle", "prepare"} => mem'[r] = disk'[r]
  BY DEF Steady, SafetyInv, Synced
<1>w. \A record : Save(r, record) => mem'[r] = record
  BY <1>t, SavePoint
<1> SUFFICES RunJudged(r)'
  BY <1>q DEF VerdictInv
<1>1. CASE PrepareRun(r)
  <2>1. rpc[r] = "prepare" /\ disk[r] = NewRun /\ ~failed[r] /\ failed'[r] = failed[r]
    BY <1>1, <1>r DEF PrepareRun, Steady, SafetyInv, NewIsEmpty, RunJudged, StartsUnfailed
  <2>2. rpc'[r] \in {"install", "idle"} /\ disk'[r] \in {NewRun, PendingRun}
    BY <1>1, <1>t, <2>1 DEF PrepareRun
  <2>3. disk'[r].status \in {"none", "pending"} /\ \A t \in Tasks : disk'[r].tasks[t] = "pending"
    BY <2>2 DEF NewRun, PendingRun
  <2> QED
    BY <2>1, <2>2, <2>3 DEF RunJudged, InOrder, NothingAfterFailure, SkippedForReason,
         FailureKnown, FailureShown, StartsUnfailed, BehindSettled, CancelNoted, VerdictTrue,
         Status, Executing, RunDone
<1>2. CASE InstallCancel(r)
  <2>1. /\ rpc[r] = "install" /\ rpc'[r] = "begin" /\ disk' = disk /\ failed' = failed
    BY <1>2, <1>t DEF InstallCancel
  <2> QED
    BY <1>c, <1>r, <2>1 DEF RunJudged, InOrder, NothingAfterFailure, SkippedForReason,
         FailureKnown, FailureShown, StartsUnfailed, BehindSettled, CancelNoted, VerdictTrue,
         Status, Executing
<1>3. CASE BeginRun(r)
  <2>1. /\ rpc[r] = "begin" /\ rpc'[r] = "next" /\ stage'[r] = 1 /\ failed'[r] = failed[r]
        /\ Save(r, [mem[r] EXCEPT !.status = "running"])
    BY <1>3, <1>t DEF BeginRun
  <2>2. disk'[r].status = "running" /\ disk'[r].tasks = disk[r].tasks
    BY <1>s, <1>t, <1>w, <2>1 DEF RunRecord
  <2>3. ~failed[r] /\ \A u \in Tasks : ~(StageOf[u] < 1)
    BY <1>r, <1>t, <2>1 DEF RunJudged, StartsUnfailed
  <2> QED
    BY <1>c, <1>r, <1>u, <2>1, <2>2, <2>3 DEF RunJudged, InOrder, NothingAfterFailure,
         SkippedForReason, FailureKnown, FailureShown, StartsUnfailed, BehindSettled,
         CancelNoted, VerdictTrue, Status, Executing, RunDone
<1>4. CASE EndStages(r)
  <2>1. /\ rpc[r] = "next" /\ rpc'[r] = "finish" /\ disk' = disk /\ failed' = failed
        /\ stage' = stage
        /\ canceled[r] \/ stage[r] > NStages
    BY <1>4, <1>t DEF EndStages
  <2>2. ~canceled[r] => stage[r] > NStages /\ \A u \in Tasks : Status(r, u) \in TaskDone
    BY <1>r, <1>t, <2>1 DEF RunJudged, BehindSettled
  <2>3. BehindSettled(r)'
    BY <1>c, <2>1, <2>2 DEF BehindSettled, Status
  <2>4. FailureKnown(r)' /\ FailureShown(r)'
    BY <1>c, <1>r, <1>t, <2>1 DEF RunJudged, FailureKnown, FailureShown, Status, Executing
  <2> QED
    BY <1>c, <1>r, <1>s, <1>u, <2>1, <2>3, <2>4 DEF RunJudged, InOrder, NothingAfterFailure,
         SkippedForReason, StartsUnfailed, CancelNoted, VerdictTrue, Status
<1>5. CASE SkipStage(r)
  <2>1. /\ rpc[r] = "next" /\ rpc'[r] = "next" /\ failed'[r] = failed[r] /\ ~canceled[r]
        /\ failed[r] /\ ~ContinueOnFailure /\ stage'[r] = stage[r] + 1
        /\ Save(r, [mem[r] EXCEPT !.tasks =
             [t \in Tasks |-> IF StageOf[t] = stage[r] /\ @[t] = "pending"
                                THEN "skipped" ELSE @[t]]])
    BY <1>5, <1>t DEF SkipStage
  <2>2. /\ disk'[r].status = disk[r].status
        /\ \A u \in Tasks : Status(r, u)' =
             IF StageOf[u] = stage[r] /\ Status(r, u) = "pending" THEN "skipped" ELSE Status(r, u)
    BY <1>s, <1>t, <1>w, <2>1 DEF RunRecord, Status
  <2>3. PICK w \in Tasks : Status(r, w) = "failed" /\ StageOf[w] < stage[r]
    BY <1>r, <2>1 DEF RunJudged, FailureShown, Executing
  <2>4. \A u \in Tasks : StageOf[u] = stage[r] => Status(r, u) \in {"pending", "skipped", "cancelled"}
    BY <1>r, <2>1, <2>3 DEF RunJudged, NothingAfterFailure
  <2>5. \A u \in Tasks : StageOf[u] < stage[r] => Status(r, u) \in TaskDone
    BY <1>r, <2>1 DEF RunJudged, BehindSettled
  <2>6. InOrder(r)'
    BY <1>r, <2>2, <2>5 DEF RunJudged, InOrder, TaskDone
  <2>7. NothingAfterFailure(r)'
    BY <1>r, <2>2 DEF RunJudged, NothingAfterFailure
  <2>8. SkippedForReason(r)'
    BY <1>r, <2>2, <2>3 DEF RunJudged, SkippedForReason
  <2>9. FailureKnown(r)' /\ FailureShown(r)'
    BY <1>t, <2>1, <2>2, <2>3 DEF FailureKnown, FailureShown
  <2>10. \A u \in Tasks : StageOf[u] < stage[r] + 1 => Status(r, u)' \in TaskDone
    <3>1. \A u \in Tasks : StageOf[u] < stage[r] + 1 => StageOf[u] < stage[r] \/ StageOf[u] = stage[r]
      BY <1>t
    <3> QED
      BY <2>2, <2>4, <2>5, <3>1 DEF TaskDone
  <2>11. disk[r].status = "running"
    BY <1>r, <1>s, <2>1 DEF RunRecorded, StatusFollows
  <2>12. StartsUnfailed(r)' /\ BehindSettled(r)' /\ CancelNoted(r)' /\ VerdictTrue(r)'
    BY <1>c, <1>r, <1>u, <2>1, <2>2, <2>10, <2>11 DEF RunJudged, StartsUnfailed, BehindSettled,
         CancelNoted, VerdictTrue, RunDone
  <2> QED
    BY <2>6, <2>7, <2>8, <2>9, <2>12 DEF RunJudged
<1>6. CASE EnterStage(r)
  <2>1. /\ rpc[r] = "next" /\ rpc'[r] = "feed" /\ disk' = disk /\ failed' = failed
        /\ stage' = stage
        /\ ~failed[r] \/ ContinueOnFailure
        /\ \A u \in Tasks : StageOf[u] = stage[r] => u \in todo'[r]
    BY <1>6, <1>t DEF EnterStage, StageTasks
  <2>2. FailureKnown(r)' /\ FailureShown(r)'
    BY <1>c, <1>r, <1>t, <2>1 DEF RunJudged, FailureKnown, FailureShown, Status, Executing
  <2>3. BehindSettled(r)'
    BY <1>r, <2>1 DEF RunJudged, BehindSettled, FailureKnown, Status, Executing
  <2> QED
    BY <1>c, <1>r, <1>s, <1>u, <2>1, <2>2, <2>3 DEF RunJudged, InOrder, NothingAfterFailure,
         SkippedForReason, StartsUnfailed, CancelNoted, VerdictTrue, Status
<1>7. CASE CloseFeed(r)
  <2>1. /\ rpc[r] = "feed" /\ rpc'[r] = "join" /\ disk' = disk /\ failed' = failed
        /\ stage' = stage /\ todo' = todo
    BY <1>7, <1>t DEF CloseFeed
  <2> QED
    BY <1>c, <1>r, <1>s, <1>u, <2>1 DEF RunJudged, InOrder, NothingAfterFailure,
         SkippedForReason, FailureKnown, FailureShown, StartsUnfailed, BehindSettled,
         CancelNoted, VerdictTrue, Status, Executing
<1>8. CASE JoinStage(r)
  <2>1. /\ rpc[r] = "join" /\ rpc'[r] = "next" /\ disk' = disk /\ failed' = failed
        /\ stage'[r] = stage[r] + 1 /\ \A u \in Tasks : pc[r][u] = "idle"
    BY <1>8, <1>t DEF JoinStage, Busy
  <2>2. /\ todo[r] = {}
        /\ \A u \in Tasks : StageOf[u] = stage[r] => Status(r, u) \in TaskDone
    BY <1>r, <1>s, <2>1 DEF RunStaged, FedByStage, StageAccounted, Status
  <2>3. /\ stage[r] < stage[r] + 1
        /\ \A u \in Tasks : StageOf[u] <= stage[r] => StageOf[u] < stage[r] + 1
        /\ \A u \in Tasks : StageOf[u] < stage[r] + 1 => StageOf[u] < stage[r] \/ StageOf[u] = stage[r]
    BY <1>t
  <2>4. FailureKnown(r)'
    BY <1>r, <2>1, <2>2, <2>3 DEF RunJudged, FailureKnown, Status, Executing
  <2>6. FailureShown(r)'
    <3> SUFFICES ASSUME failed[r], ~canceled[r]
                 PROVE  \E u \in Tasks : /\ Status(r, u) = "failed" /\ StageOf[u] < stage[r] + 1
                                         /\ StageOf[u] <= stage[r] + 1
      BY <1>c, <2>1 DEF FailureShown, Status
    <3>1. PICK u \in Tasks : Status(r, u) = "failed" /\ StageOf[u] <= stage[r]
      BY <1>r, <2>1 DEF RunJudged, FailureShown, Executing
    <3> QED
      BY <1>t, <3>1
  <2>5. BehindSettled(r)'
    BY <1>r, <2>1, <2>2, <2>3 DEF RunJudged, BehindSettled, Status
  <2> QED
    BY <1>c, <1>r, <1>s, <1>u, <2>1, <2>4, <2>5, <2>6 DEF RunJudged, InOrder,
         NothingAfterFailure, SkippedForReason, StartsUnfailed, CancelNoted, VerdictTrue, Status
<1>9. CASE FinishRun(r)
  <2>1. /\ rpc[r] = "finish" /\ rpc'[r] = "leave" /\ failed'[r] = failed[r]
    BY <1>9, <1>t DEF FinishRun
  <2>2. /\ FailureKnown(r)' /\ FailureShown(r)' /\ BehindSettled(r)'
    BY <2>1 DEF FailureKnown, FailureShown, BehindSettled, Executing
  <2>3. CASE canceled[r] /\ Save(r, CancelledRecord(mem[r]))
    <3>1. /\ disk'[r].status = "cancelled"
          /\ \A u \in Tasks : Status(r, u)' =
               IF Status(r, u) \in TaskDone THEN Status(r, u) ELSE "cancelled"
      BY <1>s, <1>w, <2>1, <2>3 DEF CancelledRecord, Status
    <3>2. InOrder(r)' /\ NothingAfterFailure(r)' /\ SkippedForReason(r)'
      BY <1>r, <3>1 DEF RunJudged, InOrder, NothingAfterFailure, SkippedForReason, TaskDone
    <3>3. StartsUnfailed(r)' /\ CancelNoted(r)' /\ VerdictTrue(r)'
      BY <1>c, <1>u, <2>1, <2>3, <3>1 DEF StartsUnfailed, CancelNoted, VerdictTrue, TaskDone
    <3> QED
      BY <2>2, <3>2, <3>3 DEF RunJudged
  <2>4. ASSUME NEW s \in {"failed", "succeeded"}, ~canceled[r], s = "failed" <=> failed[r],
               Save(r, [mem[r] EXCEPT !.status = s])
        PROVE  RunJudged(r)'
    <3>1. disk'[r].status = s /\ disk'[r].tasks = disk[r].tasks
      BY <1>s, <1>t, <1>w, <2>1, <2>4 DEF RunRecord
    <3>2. stage[r] > NStages /\ \A u \in Tasks : Status(r, u) \in TaskDone
      BY <1>r, <2>1, <2>4 DEF RunJudged, BehindSettled
    <3>3. s = "failed" => \E u \in Tasks : Status(r, u) = "failed"
      BY <1>r, <2>1, <2>4 DEF RunJudged, FailureShown, Executing
    <3>4. s = "succeeded" => \A u \in Tasks : Status(r, u) \in {"succeeded", "cancelled"}
      <4> SUFFICES ASSUME ~failed[r] PROVE \A u \in Tasks : Status(r, u) \in {"succeeded", "cancelled"}
        BY <2>4
      <4>1. \A u \in Tasks : Status(r, u) # "failed"
        BY <1>r, <1>t, <2>1, <3>2 DEF RunJudged, FailureKnown, Executing
      <4> QED
        BY <1>r, <3>2, <4>1 DEF RunJudged, SkippedForReason, TaskDone
    <3>5. VerdictTrue(r)'
      BY <1>r, <2>4, <3>1, <3>2, <3>3, <3>4 DEF RunJudged, CancelNoted, VerdictTrue, Status
    <3> QED
      BY <1>c, <1>r, <1>u, <2>1, <2>2, <3>1, <3>5 DEF RunJudged, InOrder, NothingAfterFailure,
           SkippedForReason, StartsUnfailed, CancelNoted, Status
  <2> QED
    BY <1>9, <2>3, <2>4 DEF FinishRun
<1>10. CASE LeaveRun(r)
  <2>1. /\ rpc[r] = "leave" /\ rpc'[r] = "idle" /\ disk' = disk /\ failed' = failed
    BY <1>10, <1>t DEF LeaveRun
  <2> QED
    BY <1>c, <1>r, <1>s, <1>u, <2>1 DEF RunJudged, InOrder, NothingAfterFailure,
         SkippedForReason, FailureKnown, FailureShown, StartsUnfailed, BehindSettled,
         CancelNoted, VerdictTrue, Status, Executing
<1>11. ASSUME NEW t \in Tasks, FeedSettled(r, t) PROVE RunJudged(r)'
  <2>1. /\ rpc[r] = "feed" /\ rpc'[r] = "feed" /\ disk' = disk /\ stage' = stage
        /\ t \in todo[r] /\ todo'[r] = todo[r] \ {t}
        /\ failed'[r] = (failed[r] \/ mem[r].tasks[t] = "failed")
    BY <1>11, <1>t DEF FeedSettled, NextToFeed
  <2>5. StageOf[t] = stage[r] /\ StageOf[t] <= stage[r]
    BY <1>r, <1>t, <2>1 DEF RunStaged, FedByStage
  <2>2. failed'[r] <=> (failed[r] \/ Status(r, t) = "failed")
    BY <1>s, <2>1 DEF Status
  <2>3. FailureKnown(r)'
    BY <1>r, <2>1, <2>2, <2>5 DEF RunJudged, FailureKnown, Status, Executing
  <2>4. FailureShown(r)'
    BY <1>c, <1>r, <2>1, <2>2, <2>5 DEF RunJudged, FailureShown, Status, Executing
  <2> QED
    BY <1>c, <1>r, <1>s, <1>u, <2>1, <2>3, <2>4 DEF RunJudged, InOrder, NothingAfterFailure,
         SkippedForReason, StartsUnfailed, BehindSettled, CancelNoted, VerdictTrue, Status
<1>12. ASSUME NEW t \in Tasks, FeedCancelled(r, t) PROVE RunJudged(r)'
  <2>1. /\ rpc[r] = "feed" /\ rpc'[r] = "feed" /\ stage' = stage /\ failed' = failed
        /\ t \in todo[r] /\ todo'[r] = todo[r] \ {t} /\ canceled[r]
        /\ mem[r].tasks[t] \notin TaskDone /\ Save(r, SetTask(r, t, "cancelled"))
    BY <1>12, <1>t DEF FeedCancelled, NextToFeed
  <2>2. /\ disk'[r].status = disk[r].status /\ Status(r, t)' = "cancelled"
        /\ \A u \in Tasks : u # t => Status(r, u)' = Status(r, u)
    BY <1>s, <1>t, <2>1, TaskSavePoint DEF Status
  <2>3. StageOf[t] = stage[r] /\ Status(r, t) \notin TaskDone
    BY <1>r, <1>s, <2>1 DEF RunStaged, FedByStage, Status
  <2>4. InOrder(r)'
    BY <1>r, <2>1, <2>2, <2>3 DEF RunJudged, InOrder, BehindSettled, TaskDone
  <2>5. NothingAfterFailure(r)' /\ SkippedForReason(r)'
    BY <1>r, <2>2, <2>3 DEF RunJudged, NothingAfterFailure, SkippedForReason, TaskDone
  <2>6. FailureKnown(r)' /\ FailureShown(r)'
    BY <1>c, <1>r, <2>1, <2>2 DEF RunJudged, FailureKnown, FailureShown, Executing
  <2>7. disk[r].status = "running"
    BY <1>r, <1>s, <2>1 DEF RunRecorded, StatusFollows
  <2>8. BehindSettled(r)'
    BY <1>r, <2>1, <2>2 DEF RunJudged, BehindSettled, TaskDone
  <2> QED
    BY <1>c, <1>r, <1>u, <2>1, <2>2, <2>4, <2>5, <2>6, <2>7, <2>8 DEF RunJudged, StartsUnfailed,
         CancelNoted, VerdictTrue, RunDone
<1>13. ASSUME NEW t \in Tasks, FeedSend(r, t) PROVE RunJudged(r)'
  <2>1. /\ rpc[r] = "feed" /\ rpc'[r] = "feed" /\ disk' = disk /\ stage' = stage
        /\ todo'[r] = todo[r] \ {t} /\ mem[r].tasks[t] \notin TaskDone /\ failed' = failed
    BY <1>13, <1>t DEF FeedSend, NextToFeed
  <2>2. Status(r, t) # "failed"
    BY <1>s, <2>1 DEF Status, TaskDone
  <2>3. FailureKnown(r)'
    BY <1>r, <2>1, <2>2 DEF RunJudged, FailureKnown, Status, Executing
  <2> QED
    BY <1>c, <1>r, <1>s, <1>u, <2>1, <2>3 DEF RunJudged, InOrder, NothingAfterFailure,
         SkippedForReason, FailureShown, StartsUnfailed, BehindSettled, CancelNoted, VerdictTrue,
         Status, Executing
<1> QED
  BY <1>1, <1>2, <1>3, <1>4, <1>5, <1>6, <1>7, <1>8, <1>9, <1>10, <1>11, <1>12, <1>13
     DEF RunStep

LEMMA VerdictProcess ==
  ASSUME RunnerInv, Steady, VerdictInv, Crash \/ Restart \/ \E r \in Runs : Requests(r),
         Happened("crash") => Happened("crash")'
  PROVE  VerdictInv'
<1> USE DEF kubeVars, runVars
<1>t. TypeInv
  BY DEF RunnerInv
<1>1. CASE Crash
  <2>1. Happened("crash")'
    BY <1>1, RunnerAssumption DEF Crash, SpendFault, Happened, RunnerInv, TypeInv, TypeOK,
         WithinBudget, FaultKinds
  <2>2. /\ disk' = disk
        /\ \A r \in Runs : rpc'[r] = "idle" /\ ~failed'[r]
    BY <1>1 DEF Crash
  <2> QED
    BY <2>1, <2>2 DEF VerdictInv, RunJudged, InOrder, NothingAfterFailure, SkippedForReason,
         FailureKnown, FailureShown, StartsUnfailed, BehindSettled, CancelNoted, VerdictTrue,
         Status, Executing
<1>2. CASE Restart
  <2>1. /\ UNCHANGED <<disk, failed, canceled>> /\ ~up
        /\ \A r \in Runs : rpc'[r] \in {"idle", "begin"}
    BY <1>2 DEF Restart
  <2>2. \A r \in Runs : ~failed[r]
    BY <2>1 DEF VerdictInv, RunJudged, StartsUnfailed
  <2> QED
    BY <2>1, <2>2 DEF VerdictInv, RunJudged, InOrder, NothingAfterFailure, SkippedForReason,
         FailureKnown, FailureShown, StartsUnfailed, BehindSettled, CancelNoted, VerdictTrue,
         Status, Executing
<1>3. ASSUME NEW r \in Runs, ReserveRun(r) PROVE VerdictInv'
  <2>1. /\ disk[r].status = "none" /\ rpc'[r] = "prepare"
        /\ UNCHANGED <<up, canceled, stage, todo, failed, disk>>
        /\ \A q \in Runs : q # r => rpc'[q] = rpc[q]
    BY <1>3, <1>t DEF ReserveRun, TypeInv, TypeOK
  <2>2. \A q \in Runs : q # r => RunJudged(q)'
    BY <2>1, JudgedKept DEF VerdictInv
  <2>3. RunJudged(r) /\ ~failed[r]
    BY <2>1 DEF VerdictInv, RunJudged, StartsUnfailed
  <2>4. RunJudged(r)'
    BY <2>1, <2>3 DEF RunJudged, InOrder, NothingAfterFailure, SkippedForReason,
         FailureKnown, FailureShown, StartsUnfailed, BehindSettled, CancelNoted, VerdictTrue,
         Status, Executing
  <2> QED
    BY <2>2, <2>4 DEF VerdictInv
<1>4. ASSUME NEW r \in Runs, CancelActive(r) PROVE VerdictInv'
  <2>1. /\ UNCHANGED <<up, rpc, stage, todo, failed, disk>> /\ canceled'[r]
        /\ \A q \in Runs : q # r => canceled'[q] = canceled[q]
    BY <1>4, <1>t DEF CancelActive, TypeInv, TypeOK
  <2>2. \A q \in Runs : q # r => RunJudged(q)'
    BY <2>1, JudgedKept DEF VerdictInv
  <2>3. RunJudged(r)
    BY DEF VerdictInv
  <2>4. RunJudged(r)'
    BY <2>1, <2>3 DEF RunJudged, InOrder, NothingAfterFailure, SkippedForReason,
         FailureKnown, FailureShown, StartsUnfailed, BehindSettled, CancelNoted, VerdictTrue,
         Status, Executing
  <2> QED
    BY <2>2, <2>4 DEF VerdictInv
<1>5. ASSUME NEW r \in Runs, CancelRecorded(r) PROVE FALSE
  BY <1>5 DEF CancelRecorded, Steady, SafetyInv, FilesCovered
<1> QED
  BY <1>1, <1>2, <1>3, <1>4, <1>5 DEF Requests

\* A save that is lost stays lost.
LEMMA LossStays ==
  ASSUME RunnerInv, [Next]_vars, NoSaveLost'
  PROVE  NoSaveLost
<1>1. /\ budget["save"] \in Nat /\ budget'["save"] <= budget["save"]
      /\ budget["save"] <= Faults["save"] /\ Faults["save"] \in Nat
  BY BudgetFalls, RunnerAssumption DEF RunnerInv, TypeInv, TypeOK, WithinBudget, FaultKinds
<1> QED
  BY <1>1 DEF NoSaveLost

LEMMA VerdictInvariant == Spec => [](NoSaveLost => VerdictInv)
<1>1. Init => VerdictInv
  BY DEF Init, NewRun, VerdictInv, RunJudged, InOrder, NothingAfterFailure, SkippedForReason,
     FailureKnown, FailureShown, StartsUnfailed, BehindSettled, CancelNoted, VerdictTrue,
     Status, Executing, RunDone
<1>2. RunnerInv /\ RunnerInv' /\ StageInv /\ RecordInv /\ (NoSaveLost => VerdictInv) /\ [Next]_vars
        => (NoSaveLost => VerdictInv)'
  <2> SUFFICES ASSUME RunnerInv, RunnerInv', StageInv, RecordInv, NoSaveLost => VerdictInv,
                      [Next]_vars, NoSaveLost'
               PROVE  VerdictInv'
    OBVIOUS
  <2>1. NoSaveLost /\ VerdictInv
    BY LossStays
  <2>2. Steady /\ SafetyInv'
    BY <2>1 DEF RunnerInv, Steady
  <2>3. Happened("crash") => Happened("crash")'
    BY FaultsRemembered DEF FaultKinds
  <2>4. ASSUME UNCHANGED <<up, canceled, rpc, stage, todo, failed, disk>> PROVE VerdictInv'
    BY <2>1, <2>3, <2>4, JudgedKept DEF VerdictInv
  <2>5. CASE UNCHANGED vars
    BY <2>4, <2>5 DEF vars
  <2>6. ASSUME NEW r \in Runs, NEW t \in Tasks, JobStep(r, t) PROVE VerdictInv'
    <3>1. UNCHANGED <<up, runVars, disk>>
      BY <2>6, JobEffect DEF RunnerInv
    <3> QED
      BY <2>4, <3>1 DEF runVars
  <2> QED
    BY <2>1, <2>2, <2>3, <2>5, <2>6, VerdictRunStep, VerdictTaskStep, VerdictProcess DEF Next
<1> QED
  BY <1>1, <1>2, RunnerInvariant, StageInvariant, RecordInvariant, PTL DEF Spec

\* What a run file says of success is true, for every plan, number of workers
\* and number of crashes and API errors: a task recorded as succeeded had a Job
\* that succeeded, whatever saves failed; while no save has failed the verdict
\* of the run agrees with its tasks, and without a crash a run that succeeded
\* ran them all (executeRun, executeTask, ResumeRuns, RunTask).
THEOREM VerdictsReal == Spec => []VerdictIsReal
<1>1. RecordInv => SuccessIsReal
  BY DEF RecordInv, RunRecorded, SeenSuccess, SuccessIsReal
<1>2. RunnerInv /\ (NoSaveLost => VerdictInv) => VerdictAgrees
  <2> SUFFICES ASSUME RunnerInv, NoSaveLost => VerdictInv, Faults["save"] = 0, NEW r \in Runs
               PROVE  LET statuses == {disk[r].tasks[t] : t \in Tasks}
                      IN  /\ disk[r].status = "succeeded" => statuses \subseteq {"succeeded", "cancelled"}
                          /\ disk[r].status = "failed" => "failed" \in statuses /\ statuses \subseteq TaskDone
                          /\ disk[r].status = "cancelled" => statuses \subseteq TaskDone
    BY DEF VerdictAgrees
  <2>1. VerdictTrue(r)
    BY SafeWithoutLoss DEF SafetyInv, VerdictInv, RunJudged
  <2> QED
    BY <2>1 DEF VerdictTrue, Status, RunDone
<1>3. RunnerInv /\ (NoSaveLost => VerdictInv) => SucceededMeansAll
  <2> SUFFICES ASSUME RunnerInv, NoSaveLost => VerdictInv, ~Happened("crash"), ~Happened("save")
               PROVE  \A r \in Runs : disk[r].status = "succeeded" =>
                        \A t \in Tasks : disk[r].tasks[t] = "succeeded"
    BY DEF SucceededMeansAll
  <2>1. NoSaveLost
    <3>1. budget["save"] \in Nat /\ Faults["save"] \in Nat /\ budget["save"] <= Faults["save"]
      BY RunnerAssumption DEF RunnerInv, TypeInv, TypeOK, WithinBudget, FaultKinds
    <3> QED
      BY <3>1 DEF Happened, NoSaveLost
  <2> QED
    BY <2>1 DEF VerdictInv, RunJudged, VerdictTrue, Status
<1> QED
  BY <1>1, <1>2, <1>3, RunnerInvariant, RecordInvariant, VerdictInvariant, PTL DEF VerdictIsReal

-----------------------------------------------------------------------------
KeepsFinal(r) ==
  /\ disk[r].status \in RunDone => disk'[r] = disk[r]
  /\ \A t \in Tasks : disk[r].tasks[t] \in TaskDone => disk'[r].tasks[t] = disk[r].tasks[t]

LEMMA FinalTaskStep ==
  ASSUME TypeInv, StageInv, RecordInv, NEW r \in Runs, NEW t \in Tasks, TaskStep(r, t)
  PROVE  \A q \in Runs : KeepsFinal(q)
<1>1. KeepsOthers(r, t) /\ (Settles(r, t) \/ Starts(r, t) \/ Proceeds(r, t))
  BY TaskEffect
<1>2. RunRecorded(r) /\ RunStaged(r)
  BY DEF RecordInv, StageInv
<1>3. rpc[r] \in {"feed", "join"} /\ mem[r].tasks[t] \in {"pending", "running"}
  BY <1>1, <1>2 DEF Settles, Starts, Proceeds, RunStaged, BusyInStage, BusyStatus
<1>4. disk[r].status \notin RunDone
  BY <1>2, <1>3 DEF RunRecorded, StatusFollows, RunDone
<1>5. \A u \in Tasks : disk[r].tasks[u] \in TaskDone => u # t /\ mem[r].tasks[u] = disk[r].tasks[u]
  BY <1>2, <1>3 DEF RunRecorded, DiskBehind, TaskDone
<1>6. KeepsFinal(r)
  BY <1>1, <1>4, <1>5 DEF KeepsOthers, KeepsFinal
<1> QED
  BY <1>1, <1>6 DEF KeepsOthers, KeepsFinal

LEMMA FinalRunStep ==
  ASSUME TypeInv, RecordInv, NEW r \in Runs, RunStep(r)
  PROVE  \A q \in Runs : KeepsFinal(q)
<1>f. KeepsOtherRuns(r)
  BY RunFrame
<1>t. /\ mem[r] \in RunRecord /\ disk \in [Runs -> RunRecord]
  BY DEF TypeInv, TypeOK
<1>r. RunRecorded(r)
  BY DEF RecordInv
<1> SUFFICES KeepsFinal(r)
  BY <1>f DEF KeepsOtherRuns, KeepsFinal
<1>s. ASSUME NEW record, Save(r, record), rpc[r] \in {"begin", "next", "feed", "finish"},
             \A t \in Tasks : mem[r].tasks[t] \in TaskDone => record.tasks[t] = mem[r].tasks[t]
      PROVE  KeepsFinal(r)
  <2>1. disk'[r] = record \/ disk'[r] = disk[r]
    BY <1>s, SavePoint
  <2>2. /\ disk[r].status \notin RunDone
        /\ \A t \in Tasks : disk[r].tasks[t] \in TaskDone => record.tasks[t] = disk[r].tasks[t]
    BY <1>r, <1>s DEF RunRecorded, StatusFollows, DiskBehind, RunDone
  <2> QED
    BY <2>1, <2>2 DEF KeepsFinal
<1>1. CASE PrepareRun(r)
  <2>1. /\ disk[r].status = "none" /\ \A t \in Tasks : disk[r].tasks[t] = "pending"
    BY <1>1, <1>r DEF PrepareRun, RunRecorded, StatusFollows
  <2> QED
    BY <2>1 DEF KeepsFinal, TaskDone, RunDone
<1>2. CASE BeginRun(r)
  <2>1. [mem[r] EXCEPT !.status = "running"].tasks = mem[r].tasks
    BY <1>t DEF RunRecord
  <2> QED
    BY <1>2, <1>s, <2>1 DEF BeginRun
<1>3. CASE SkipStage(r)
  <2> DEFINE written == [mem[r] EXCEPT !.tasks =
                 [t \in Tasks |-> IF StageOf[t] = stage[r] /\ @[t] = "pending"
                                    THEN "skipped" ELSE @[t]]]
  <2>1. Save(r, written) /\ rpc[r] = "next"
    BY <1>3 DEF SkipStage
  <2>2. \A t \in Tasks : mem[r].tasks[t] \in TaskDone => written.tasks[t] = mem[r].tasks[t]
    BY <1>t DEF RunRecord, TaskDone
  <2> HIDE DEF written
  <2> QED
    BY <2>1, <2>2, <1>s
<1>4. CASE FinishRun(r)
  <2>1. \A t \in Tasks : mem[r].tasks[t] \in TaskDone =>
          CancelledRecord(mem[r]).tasks[t] = mem[r].tasks[t]
    BY DEF CancelledRecord
  <2>2. \A s : [mem[r] EXCEPT !.status = s].tasks = mem[r].tasks
    BY <1>t DEF RunRecord
  <2>3. /\ rpc[r] = "finish"
        /\ \/ Save(r, CancelledRecord(mem[r]))
           \/ \E s \in RunDone : Save(r, [mem[r] EXCEPT !.status = s])
    BY <1>4 DEF FinishRun, RunDone
  <2>4. ASSUME NEW s \in RunDone, Save(r, [mem[r] EXCEPT !.status = s]) PROVE KeepsFinal(r)
    BY <1>s, <2>2, <2>3, <2>4
  <2> QED
    BY <1>s, <2>1, <2>3, <2>4
<1>5. ASSUME NEW t \in Tasks, FeedCancelled(r, t) PROVE KeepsFinal(r)
  <2>1. /\ Save(r, SetTask(r, t, "cancelled")) /\ rpc[r] = "feed"
        /\ mem[r].tasks[t] \notin TaskDone
    BY <1>5 DEF FeedCancelled, NextToFeed
  <2>2. \A u \in Tasks : mem[r].tasks[u] \in TaskDone =>
          SetTask(r, t, "cancelled").tasks[u] = mem[r].tasks[u]
    BY <1>t, <2>1 DEF SetTask, RunRecord
  <2> QED
    BY <1>s, <2>1, <2>2
<1> QED
  BY <1>1, <1>2, <1>3, <1>4, <1>5
     DEF RunStep, InstallCancel, EndStages, EnterStage, CloseFeed, JoinStage, LeaveRun,
         FeedSettled, FeedSend, KeepsFinal

\* A final status in a file, of the run or of a task, is never replaced: by no
\* save, restart, cancellation or API error, for any instance and whatever
\* saves failed before (executeRun, executeTask, CancelRun, ResumeRuns).
THEOREM FinalStays == Spec => FinalStaysFinal
<1>1. TypeInv /\ StageInv /\ RecordInv /\ [Next]_vars => \A r \in Runs : KeepsFinal(r)
  <2> SUFFICES ASSUME TypeInv, StageInv, RecordInv, [Next]_vars
               PROVE  \A r \in Runs : KeepsFinal(r)
    OBVIOUS
  <2>1. ASSUME UNCHANGED disk PROVE \A r \in Runs : KeepsFinal(r)
    BY <2>1 DEF KeepsFinal
  <2>2. CASE UNCHANGED vars \/ Crash \/ Restart
    BY <2>1, <2>2 DEF vars, Crash, Restart
  <2>3. ASSUME NEW r \in Runs, Requests(r) PROVE \A q \in Runs : KeepsFinal(q)
    <3>1. CASE ReserveRun(r) \/ CancelActive(r)
      BY <2>1, <3>1 DEF ReserveRun, CancelActive
    <3>2. CASE CancelRecorded(r)
      <4>1. /\ disk[r].status \notin RunDone /\ disk'[r].tasks = disk[r].tasks
            /\ \A q \in Runs : q # r => disk'[q] = disk[q]
        BY <3>2 DEF CancelRecorded, TypeInv, TypeOK, RunRecord, Unfinished, RunDone
      <4> QED
        BY <4>1 DEF KeepsFinal
    <3> QED
      BY <2>3, <3>1, <3>2 DEF Requests
  <2>4. ASSUME NEW r \in Runs, NEW t \in Tasks, JobStep(r, t) PROVE UNCHANGED disk
    BY <2>4, JobEffect
  <2> QED
    BY <2>1, <2>2, <2>3, <2>4, FinalRunStep, FinalTaskStep DEF Next
<1>2. TypeInv /\ StageInv /\ RecordInv /\ [Next]_vars =>
        [\A r \in Runs :
           /\ disk[r].status \in RunDone => disk'[r] = disk[r]
           /\ \A t \in Tasks : disk[r].tasks[t] \in TaskDone =>
                disk'[r].tasks[t] = disk[r].tasks[t]]_vars
  BY <1>1 DEF KeepsFinal
<1> QED
  BY <1>2, TypeInvariant, StageInvariant, RecordInvariant, PTL DEF Spec, FinalStaysFinal

-----------------------------------------------------------------------------
(***************************************************************************)
(* The refinement, step by step, while no save is lost.                      *)
(***************************************************************************)
SpecStep == [Durable!Next]_disk

LEMMA SavedWhole ==
  ASSUME SafetyInv, SafetyInv', NEW r \in Runs, NEW record, Save(r, record)
  PROVE  disk' = [disk EXCEPT ![r] = record]
<1>1. budget["save"] \in Nat /\ budget'["save"] = budget["save"]
  BY DEF SafetyInv, NoSaveLost, TypeInv, TypeOK, FaultKinds
<1> QED
  BY <1>1 DEF Save, SpendFault, SafetyInv, TypeInv, TypeOK, FaultKinds

LEMMA DurableTaskStep ==
  ASSUME Steady, SafetyInv', VerdictInv, NEW r \in Runs, NEW t \in Tasks, TaskStep(r, t)
  PROVE  SpecStep
<1> USE DEF SpecStep
<1>t. /\ TypeInv /\ disk \in [Runs -> RunRecord] /\ disk[r] \in RunRecord
  BY DEF Steady, SafetyInv, TypeInv, TypeOK
<1>1. KeepsOthers(r, t) /\ (Settles(r, t) \/ Starts(r, t) \/ Proceeds(r, t))
  BY <1>t, TaskEffect
<1>2. RunJudged(r) /\ RunStaged(r) /\ RunRecorded(r)
  BY DEF VerdictInv, Steady, StageInv, RecordInv
<1>3. /\ rpc[r] \in {"feed", "join"} /\ StageOf[t] = stage[r]
      /\ mem[r].tasks[t] \in {"pending", "running"}
  BY <1>1, <1>2 DEF Settles, Starts, Proceeds, RunStaged, BusyInStage, BusyStatus
<1>4. mem[r] = disk[r] /\ disk[r].status = "running"
  BY <1>2, <1>3 DEF Steady, SafetyInv, Synced, RunRecorded, StatusFollows
<1>5. disk[r].tasks[t] \notin TaskDone
  BY <1>3, <1>4 DEF TaskDone
<1>6. ASSUME NEW s, Save(r, SetTask(r, t, s))
      PROVE  disk' = [disk EXCEPT ![r].tasks[t] = s]
  <2>1. disk' = [disk EXCEPT ![r] = SetTask(r, t, s)]
    BY <1>6, SavedWhole DEF Steady
  <2> QED
    BY <1>4, <1>t, <2>1 DEF SetTask
<1>7. CASE WorkerCancelled(r, t)
  <2>1. disk' = [disk EXCEPT ![r].tasks[t] = "cancelled"]
    BY <1>6, <1>7 DEF WorkerCancelled
  <2>2. Durable!Settle(r, t)
    BY <1>4, <1>5, <2>1 DEF Durable!Settle, Durable!Tried, Durable!Settled, Durable!TaskDone, TaskDone
  <2> QED
    BY <2>2 DEF Durable!Next
<1>8. CASE StartTask(r, t)
  <2>1. disk' = [disk EXCEPT ![r].tasks[t] = "running"]
    BY <1>6, <1>8 DEF StartTask
  <2>2. CASE disk[r].tasks[t] = "pending"
    <3>1. \A u \in Tasks : StageOf[u] < StageOf[t] => disk[r].tasks[u] \in TaskDone
      BY <1>2, <1>3 DEF RunJudged, BehindSettled, Status
    <3>2. Durable!Start(r, t)
      BY <1>4, <2>1, <2>2, <3>1 DEF Durable!Start, Durable!Tried, Durable!EarlierSettled,
           Durable!Settled, Durable!TaskDone, TaskDone
    <3> QED
      BY <3>2 DEF Durable!Next
  <2>3. CASE disk[r].tasks[t] = "running"
    <3>1. disk' = disk
      BY <1>t, <2>1, <2>3 DEF RunRecord
    <3> QED
      BY <3>1
  <2> QED
    BY <1>3, <1>4, <2>2, <2>3
<1>9. CASE RecordTask(r, t)
  <2>1. disk' = [disk EXCEPT ![r].tasks[t] = Outcome(r, t)] /\ pc[r][t] \notin {"idle", "got"}
    BY <1>6, <1>9 DEF RecordTask
  <2>2. disk[r].tasks[t] = "running"
    BY <1>2, <1>4, <2>1 DEF RunStaged, BusyStatus
  <2>3. Outcome(r, t) \in {"cancelled", "succeeded", "failed"}
    BY DEF Outcome
  <2>4. Durable!Settle(r, t)
    BY <1>4, <1>5, <2>1, <2>2, <2>3 DEF Durable!Settle, Durable!Tried, Durable!Settled,
         Durable!TaskDone, TaskDone
  <2> QED
    BY <2>4 DEF Durable!Next
<1>10. CASE UNCHANGED disk
  BY <1>10
<1> QED
  BY <1>7, <1>8, <1>9, <1>10 DEF TaskStep, EnsurePDB, GetJob, CreateJob, RecoverJob,
     FindRunningPod, WaitJob, AfterWait, ReReadJob, DeleteJob, CleanupPDB

LEMMA DurableRunStep ==
  ASSUME Steady, SafetyInv', VerdictInv, NEW r \in Runs, RunStep(r)
  PROVE  SpecStep
<1> USE DEF SpecStep
<1>t. /\ TypeInv /\ NStages \in Nat /\ stage[r] \in 0..(NStages + 1)
      /\ disk \in [Runs -> RunRecord] /\ disk[r] \in RunRecord
      /\ \A u \in Tasks : StageOf[u] \in Nat /\ StageOf[u] <= NStages
  BY RunnerAssumption DEF Steady, SafetyInv, TypeInv, TypeOK
<1>r. RunJudged(r) /\ RunStaged(r) /\ RunRecorded(r)
  BY DEF VerdictInv, Steady, StageInv, RecordInv
<1>s. rpc[r] \notin {"idle", "prepare"} => mem[r] = disk[r]
  BY DEF Steady, SafetyInv, Synced
<1>d. rpc[r] \in {"next", "feed", "join", "finish"} => disk[r].status = "running"
  BY <1>r, <1>s DEF RunRecorded, StatusFollows
<1>w. \A record : Save(r, record) => disk' = [disk EXCEPT ![r] = record]
  BY SavedWhole DEF Steady
<1>1. CASE PrepareRun(r)
  <2>1. CASE UNCHANGED disk
    BY <2>1
  <2>2. CASE disk' = [disk EXCEPT ![r] = PendingRun]
    <3>1. rpc[r] = "prepare" /\ disk[r] = NewRun
      BY <1>1 DEF PrepareRun, Steady, SafetyInv, NewIsEmpty
    <3>2. disk[r].status = "none" /\ PendingRun = [disk[r] EXCEPT !.status = "pending"]
      BY <3>1 DEF NewRun, PendingRun
    <3>3. disk' = [disk EXCEPT ![r].status = "pending"]
      BY <2>2, <3>2
    <3>4. ~AllowConcurrentRuns => \A q \in Runs : ~Durable!Open(q)
      <4>1. active[r] # "none"
        BY <3>1 DEF Steady, SafetyInv, ActiveExact
      <4> QED
        BY <3>2, <4>1 DEF Steady, SafetyInv, AtMostOne, InUse, Unfinished, Durable!Open
    <3>5. Durable!Accept(r)
      BY <3>2, <3>3, <3>4 DEF Durable!Accept
    <3> QED
      BY <3>5 DEF Durable!Next
  <2> QED
    BY <1>1, <2>1, <2>2 DEF PrepareRun
<1>2. CASE BeginRun(r)
  <2>1. /\ rpc[r] = "begin" /\ disk' = [disk EXCEPT ![r] = [mem[r] EXCEPT !.status = "running"]]
    BY <1>2, <1>w DEF BeginRun
  <2>2. mem[r] = disk[r] /\ disk[r].status \in {"pending", "running"}
    BY <1>r, <1>s, <2>1 DEF RunRecorded, StatusFollows
  <2>3. CASE disk[r].status = "pending"
    <3>1. Durable!Begin(r)
      BY <2>1, <2>2, <2>3 DEF Durable!Begin
    <3> QED
      BY <3>1 DEF Durable!Next
  <2>4. CASE disk[r].status = "running"
    <3>1. disk' = disk
      BY <1>t, <2>1, <2>2, <2>4 DEF RunRecord
    <3> QED
      BY <3>1
  <2> QED
    BY <2>2, <2>3, <2>4
<1>3. CASE SkipStage(r)
  <2>1. /\ rpc[r] = "next" /\ ~canceled[r] /\ failed[r] /\ stage[r] \in 1..NStages
        /\ disk' = [disk EXCEPT ![r] = [mem[r] EXCEPT !.tasks =
             [t \in Tasks |-> IF StageOf[t] = stage[r] /\ @[t] = "pending"
                                THEN "skipped" ELSE @[t]]]]
    BY <1>3, <1>t, <1>w DEF SkipStage, Steady, SafetyInv, TypeInv, StageInRange
  <2>2. disk' = [disk EXCEPT ![r].tasks =
          [t \in Tasks |-> IF StageOf[t] = stage[r] /\ @[t] = "pending"
                             THEN "skipped" ELSE @[t]]]
    BY <1>s, <2>1
  <2>3. \E t \in Tasks : StageOf[t] < stage[r] /\ disk[r].tasks[t] = "failed"
    BY <1>r, <2>1 DEF RunJudged, FailureShown, Executing, Status
  <2>4. \A t \in Tasks : StageOf[t] < stage[r] => disk[r].tasks[t] \in TaskDone
    BY <1>r, <2>1 DEF RunJudged, BehindSettled, Status
  <2>5. Durable!Skip(r, stage[r])
    BY <1>d, <2>1, <2>2, <2>3, <2>4 DEF Durable!Skip, Durable!Tried, Durable!EarlierSettled,
         Durable!Settled, Durable!TaskDone, TaskDone
  <2> QED
    BY <2>1, <2>5 DEF Durable!Next
<1>4. CASE FinishRun(r)
  <2>1. rpc[r] = "finish" /\ mem[r] = disk[r] /\ disk[r].status = "running"
    BY <1>4, <1>s, <1>d DEF FinishRun
  <2>2. CASE Save(r, CancelledRecord(mem[r]))
    <3>1. disk' = [disk EXCEPT ![r] = CancelledRecord(disk[r])]
      BY <1>w, <2>1, <2>2
    <3>2. Durable!Cancel(r)
      BY <2>1, <3>1 DEF Durable!Cancel, Durable!Tried, Durable!Settled, Durable!TaskDone,
           TaskDone, CancelledRecord
    <3> QED
      BY <3>2 DEF Durable!Next
  <2>3. ASSUME NEW s \in {"failed", "succeeded"}, ~canceled[r], s = "failed" <=> failed[r],
               Save(r, [mem[r] EXCEPT !.status = s])
        PROVE  SpecStep
    <3>1. disk' = [disk EXCEPT ![r].status = s]
      BY <1>w, <2>1, <2>3
    <3>2. stage[r] > NStages /\ \A u \in Tasks : disk[r].tasks[u] \in TaskDone
      BY <1>r, <2>1, <2>3 DEF RunJudged, BehindSettled, Status
    <3>3. failed[r] => \E u \in Tasks : disk[r].tasks[u] = "failed"
      BY <1>r, <2>1, <2>3 DEF RunJudged, FailureShown, Executing, Status
    <3>4. ~failed[r] => \A u \in Tasks : disk[r].tasks[u] # "failed"
      BY <1>r, <1>t, <2>1, <3>2 DEF RunJudged, FailureKnown, Executing, Status
    <3>5. s = IF \E u \in Tasks : disk[r].tasks[u] = "failed" THEN "failed" ELSE "succeeded"
      BY <2>3, <3>3, <3>4
    <3>6. Durable!Conclude(r)
      BY <2>1, <3>1, <3>2, <3>5 DEF Durable!Conclude, Durable!Tried, Durable!Settled,
           Durable!TaskDone, TaskDone
    <3> QED
      BY <3>6 DEF Durable!Next
  <2> QED
    BY <1>4, <2>2, <2>3 DEF FinishRun
<1>5. ASSUME NEW t \in Tasks, FeedCancelled(r, t) PROVE SpecStep
  <2>1. /\ rpc[r] = "feed" /\ mem[r].tasks[t] \notin TaskDone
        /\ disk' = [disk EXCEPT ![r] = SetTask(r, t, "cancelled")]
    BY <1>5, <1>w DEF FeedCancelled, NextToFeed
  <2>2. disk' = [disk EXCEPT ![r].tasks[t] = "cancelled"]
    BY <1>s, <2>1 DEF SetTask
  <2>3. Durable!Settle(r, t)
    BY <1>s, <1>d, <2>1, <2>2 DEF Durable!Settle, Durable!Tried, Durable!Settled,
         Durable!TaskDone, TaskDone
  <2> QED
    BY <2>3 DEF Durable!Next
<1>6. CASE UNCHANGED disk
  BY <1>6
<1> QED
  BY <1>1, <1>2, <1>3, <1>4, <1>5, <1>6
     DEF RunStep, InstallCancel, EndStages, EnterStage, CloseFeed, JoinStage, LeaveRun,
         FeedSettled, FeedSend

\* As long as no save fails the run files implement BatchRunSpec, for every plan
\* and every number of runs, workers, crashes and API errors: a crash, a restart,
\* a cancellation or a failed request shows in a file as a step that the record
\* may take, or not at all (runner.go, store.go).
THEOREM FilesImplementSpec ==
  ASSUME Faults["save"] = 0
  PROVE  Spec => DurableSpec
<1>1. Init => Durable!Init
  BY DEF Init, NewRun, Durable!Init, Durable!NoRun
<1>2. RunnerInv /\ RunnerInv' /\ StageInv /\ RecordInv /\ (NoSaveLost => VerdictInv) /\ [Next]_vars
        => [Durable!Next]_disk
  <2> SUFFICES ASSUME RunnerInv, RunnerInv', StageInv, RecordInv, NoSaveLost => VerdictInv,
                      [Next]_vars
               PROVE  SpecStep
    BY DEF SpecStep
  <2>1. Steady /\ VerdictInv
    BY SafeWithoutLoss DEF Steady, SafetyInv
  <2>2. SafetyInv'
    <3>1. budget'["save"] \in Nat /\ budget'["save"] <= Faults["save"]
      BY DEF RunnerInv, TypeInv, TypeOK, WithinBudget, FaultKinds
    <3> QED
      BY <3>1 DEF RunnerInv, NoSaveLost
  <2>3. ASSUME UNCHANGED disk PROVE SpecStep
    BY <2>3 DEF SpecStep
  <2>4. CASE UNCHANGED vars \/ Crash \/ Restart
    BY <2>3, <2>4 DEF vars, Crash, Restart
  <2>5. ASSUME NEW r \in Runs, Requests(r) PROVE UNCHANGED disk
    BY <2>1, <2>5 DEF Requests, ReserveRun, CancelActive, CancelRecorded, Steady, SafetyInv,
         FilesCovered
  <2>6. ASSUME NEW r \in Runs, NEW t \in Tasks, JobStep(r, t) PROVE UNCHANGED disk
    BY <2>6, JobEffect DEF RunnerInv
  <2> QED
    BY <2>1, <2>2, <2>3, <2>4, <2>5, <2>6, DurableRunStep, DurableTaskStep DEF Next
<1> QED
  BY <1>1, <1>2, RunnerInvariant, StageInvariant, RecordInvariant, VerdictInvariant, PTL
     DEF Spec, DurableSpec, Durable!Spec
=============================================================================
