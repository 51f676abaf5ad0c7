---------------------------- MODULE BatchJobWatch ----------------------------
(***************************************************************************)
(* KubernetesExecutor.RunTask after the Job exists: the goroutine of the    *)
(* task polls the Job, another one copies the logs of its Pods, and both      *)
(* report the Pods they list into the same task record.  BatchRunner has all   *)
(* of this as two steps, WaitJob and AfterWait.                             *)
(*                                                                          *)
(* A Pod is its number in the order of creation, a log line its number       *)
(* within the Pod; lines of one Pod have different timestamps.              *)
(***************************************************************************)
EXTENDS Naturals, Sequences, SequencesExt

CONSTANTS BackoffLimit,  \* Pods that may fail before the Job fails
          MaxLines,      \* bound of the lines a Pod writes
          MaxFaults      \* bound of failed requests, crashes and cancellations

ASSUME WatchAssumption ==
  BackoffLimit \in Nat /\ MaxLines \in Nat /\ MaxFaults \in Nat

MaxPods == BackoffLimit + 1

VARIABLES
  phase,     \* sequence of the phases of the Pods created so far
  lines,     \* lines each Pod has written
  verdict,   \* of the Job: "none", "succeeded", "failed"
  pc,        \* the goroutine of the task, in RunTask
  unreported,\* Pods it listed and has not reported
  result,    \* what waitForJobCompletion returned; "error" for a failed request
  jobDone,   \* the channel is closed
  canceled,  \* the context of the run is cancelled
  lpc,       \* the log goroutine, in streamJobLogs
  lastPass,  \* it is in its final pass
  late,      \* RunTask has given it up after 10 seconds
  uncopied,  \* Pods it listed and has not dealt with
  since,     \* lastTimestampByPod
  log,       \* the log file: <<Pod, line>>, line 0 for the header of the attempt
  task,      \* Status, PodStatus and Attempts of the task, in memory and on disk
  errors, crashes

kube   == <<phase, lines, verdict>>
waiter == <<pc, unreported, result, jobDone>>
logger == <<lpc, lastPass, uncopied, since, log>>
others == <<late, errors, crashes>>
vars   == <<kube, waiter, canceled, logger, task, others>>

Pods     == 1..MaxPods
Phases   == {"pending", "running", "succeeded", "failed"}
PodView  == [pod: Pods, phase: Phases]
TaskRecord == [status: {"running", "succeeded", "failed", "cancelled"},
               podStatus: Phases \cup {"terminating"}, attempts: Seq(PodView)]

NewestPhase == IF phase = <<>> THEN "none" ELSE Last(phase)

\* What a list of the Pods returns, sorted by creation.
Listing == [p \in DOMAIN phase |-> [pod |-> p, phase |-> phase[p]]]

\* The log context is cancelled with the run, and by RunTask after the wait.
LogStopped == canceled \/ pc \in {"settle", "record", "ended"}

\* reportPod of a listed Pod, and mergeTaskAttempt.
BugMerge(t, view) ==
  [t EXCEPT !.podStatus = view.phase,
            !.attempts = IF \E i \in DOMAIN @ : @[i] = view THEN @ ELSE Append(@, view)]

Merge(t, view) ==
  [t EXCEPT !.podStatus = view.phase,
            !.attempts =
               IF \E i \in DOMAIN @ : @[i].pod = view.pod
               THEN [i \in DOMAIN @ |-> IF @[i].pod = view.pod THEN view ELSE @[i]]
               ELSE Append(@, view)]

FaultsLeft == errors + crashes + (IF canceled THEN 1 ELSE 0) < MaxFaults

\* A request ends in an error the client does not retry.
Request == FaultsLeft /\ errors' = errors + 1

Init ==
  /\ phase = <<>> /\ lines = [p \in Pods |-> 0] /\ verdict = "none"
  /\ pc = "list" /\ unreported = <<>> /\ result = "none"
  /\ jobDone = FALSE /\ canceled = FALSE
  /\ lpc = "list" /\ lastPass = FALSE /\ late = FALSE /\ uncopied = <<>>
  /\ since = [p \in Pods |-> 0] /\ log = <<>>
  /\ task = [status |-> "running", podStatus |-> "pending", attempts |-> <<>>]
  /\ errors = 0 /\ crashes = 0

-----------------------------------------------------------------------------
(* Kubernetes. *)

PodCreated ==
  /\ verdict = "none" /\ Len(phase) < MaxPods
  /\ NewestPhase \in {"none", "failed"}
  /\ phase' = Append(phase, "pending")
  /\ UNCHANGED <<lines, verdict, waiter, canceled, logger, task, others>>

PodStarts(p) ==
  /\ phase[p] = "pending"
  /\ phase' = [phase EXCEPT ![p] = "running"]
  /\ UNCHANGED <<lines, verdict, waiter, canceled, logger, task, others>>

PodWrites(p) ==
  /\ phase[p] = "running" /\ lines[p] < MaxLines
  /\ lines' = [lines EXCEPT ![p] = @ + 1]
  /\ UNCHANGED <<phase, verdict, waiter, canceled, logger, task, others>>

PodEnds(p) ==
  /\ phase[p] = "running"
  /\ \E outcome \in {"succeeded", "failed"} : phase' = [phase EXCEPT ![p] = outcome]
  /\ UNCHANGED <<lines, verdict, waiter, canceled, logger, task, others>>

JobEnds ==
  /\ verdict = "none"
  /\ NewestPhase = "succeeded" \/ (NewestPhase = "failed" /\ Len(phase) = MaxPods)
  /\ verdict' = NewestPhase
  /\ UNCHANGED <<phase, lines, waiter, canceled, logger, task, others>>

-----------------------------------------------------------------------------
(* The goroutine of the task: waitForJobCompletion and the rest of RunTask. *)

WaitList ==
  /\ pc = "list" /\ ~canceled
  /\ unreported' = Listing /\ pc' = "report"
  /\ UNCHANGED <<kube, result, jobDone, canceled, logger, task, others>>

WaitReport ==
  /\ pc = "report" /\ unreported # <<>>
  /\ task' = Merge(task, Head(unreported))
  /\ unreported' = Tail(unreported)
  /\ UNCHANGED <<kube, pc, result, jobDone, canceled, logger, others>>

WaitReported ==
  /\ pc = "report" /\ unreported = <<>> /\ pc' = "job"
  /\ UNCHANGED <<kube, unreported, result, jobDone, canceled, logger, task, others>>

\* waitForJobCompletion returns, and RunTask closes jobDone.
WaitEnds(outcome) ==
  /\ result' = outcome /\ jobDone' = TRUE /\ pc' = "collect"
  /\ UNCHANGED <<kube, unreported, canceled, logger, task, late, crashes>>

WaitJob ==
  /\ pc = "job" /\ ~canceled /\ UNCHANGED errors
  /\ \/ verdict # "none" /\ WaitEnds(verdict)
     \/ /\ verdict = "none" /\ pc' = "tick"
        /\ UNCHANGED <<kube, unreported, result, jobDone, canceled, logger, task, late, crashes>>

WaitTick ==
  /\ pc = "tick" /\ ~canceled /\ pc' = "list"
  /\ UNCHANGED <<kube, unreported, result, jobDone, canceled, logger, task, others>>

WaitFails    == pc \in {"list", "job"} /\ ~canceled /\ Request /\ WaitEnds("error")

WaitCanceled == pc \in {"list", "job", "tick"} /\ canceled /\ UNCHANGED errors /\ WaitEnds("error")

BugCollectForever ==
  /\ pc = "collect" /\ lpc = "done"
  /\ pc' = "settle" /\ late' = FALSE
  /\ UNCHANGED <<kube, unreported, result, jobDone, canceled, logger, task, errors, crashes>>

\* The log goroutine has ended, or its 10 seconds are over; then cancelLog.
Collect ==
  /\ pc = "collect"
  /\ pc' = "settle" /\ late' = (lpc # "done")
  /\ UNCHANGED <<kube, unreported, result, jobDone, canceled, logger, task, errors, crashes>>

\* The Job is read once more after an error; a Job that failed is one.
Settle ==
  /\ pc = "settle"
  /\ pc' = "record"
  /\ \/ /\ canceled /\ result' = "error" /\ task' = [task EXCEPT !.podStatus = "terminating"]
        /\ UNCHANGED errors
     \/ /\ ~canceled /\ result = "succeeded"
        /\ task' = [task EXCEPT !.podStatus = "succeeded"]
        /\ UNCHANGED <<result, errors>>
     \/ /\ ~canceled /\ result # "succeeded" /\ verdict # "none"
        /\ result' = verdict /\ UNCHANGED <<task, errors>>
     \/ /\ ~canceled /\ result # "succeeded"
        /\ \/ verdict = "none" /\ UNCHANGED errors
           \/ Request
        /\ result' = "failed" /\ task' = [task EXCEPT !.podStatus = "failed"]
  /\ UNCHANGED <<kube, unreported, jobDone, canceled, logger, late, crashes>>

\* executeTask, after RunTask or its recovery has returned.
Record ==
  /\ pc = "record" \/ (pc = "capture" /\ lpc = "done")
  /\ pc' = "ended"
  /\ task' = [task EXCEPT
       !.status    = IF canceled THEN "cancelled" ELSE IF result = "succeeded" THEN result ELSE "failed",
       !.podStatus = IF canceled THEN "terminating" ELSE IF result = "succeeded" THEN result ELSE "failed"]
  /\ UNCHANGED <<kube, unreported, result, jobDone, canceled, logger, others>>

-----------------------------------------------------------------------------
(* The log goroutine: streamJobLogs. *)

LogList ==
  /\ lpc = "list" /\ ~LogStopped
  /\ uncopied' = Listing /\ lpc' = "pods"
  /\ UNCHANGED <<kube, waiter, canceled, lastPass, since, log, task, others>>

LogListFails ==
  /\ lpc = "list"
  /\ \/ LogStopped /\ UNCHANGED errors
     \/ ~LogStopped /\ Request
  /\ uncopied' = <<>>
  /\ lpc' = IF lastPass THEN "done" ELSE "select"
  /\ UNCHANGED <<kube, waiter, canceled, lastPass, since, log, task, late, crashes>>

WithHeader(p) == IF Contains(log, <<p, 0>>) THEN log ELSE Append(log, <<p, 0>>)

\* The report, and the header of an attempt that is not in the file.
LogReport ==
  /\ lpc = "pods" /\ uncopied # <<>>
  /\ task' = Merge(task, Head(uncopied))
  /\ log' = WithHeader(Head(uncopied).pod)
  /\ IF Head(uncopied).phase = "pending"
     THEN uncopied' = Tail(uncopied) /\ UNCHANGED lpc
     ELSE lpc' = "copy" /\ UNCHANGED uncopied
  /\ UNCHANGED <<kube, waiter, canceled, lastPass, since, others>>

NewLines(p) == [i \in 1..(lines[p] - since[p]) |-> <<p, since[p] + i>>]

LogCopy ==
  /\ lpc = "copy" /\ ~LogStopped
  /\ LET p == Head(uncopied).pod
     IN  /\ log' = log \o NewLines(p)
         /\ since' = [since EXCEPT ![p] = lines[p]]
  /\ uncopied' = Tail(uncopied) /\ lpc' = "pods"
  /\ UNCHANGED <<kube, waiter, canceled, lastPass, task, others>>

\* A failed copy is retried in the next pass; in the final one it is the end.
LogCopyFails ==
  /\ lpc = "copy"
  /\ \/ LogStopped /\ UNCHANGED errors
     \/ ~LogStopped /\ Request
  /\ IF lastPass THEN lpc' = "done" /\ UNCHANGED uncopied
     ELSE lpc' = "pods" /\ uncopied' = Tail(uncopied)
  /\ UNCHANGED <<kube, waiter, canceled, lastPass, since, log, task, late, crashes>>

LogPassEnds ==
  /\ lpc = "pods" /\ uncopied = <<>>
  /\ lpc' = IF lastPass THEN "done" ELSE "select"
  /\ UNCHANGED <<kube, waiter, canceled, uncopied, lastPass, since, log, task, others>>

\* The select before the timer: it ends without a final pass.
LogSelect ==
  /\ lpc = "select"
  /\ lpc' = IF LogStopped \/ jobDone THEN "done" ELSE "wait"
  /\ UNCHANGED <<kube, waiter, canceled, uncopied, lastPass, since, log, task, others>>

\* The select with the timer; only here jobDone leads to the final pass.
LogWait ==
  /\ lpc = "wait"
  /\ \/ LogStopped /\ lpc' = "done" /\ UNCHANGED lastPass
     \/ jobDone /\ lpc' = "list" /\ lastPass' = TRUE
     \/ lpc' = "list" /\ UNCHANGED lastPass
  /\ UNCHANGED <<kube, waiter, canceled, uncopied, since, log, task, others>>

-----------------------------------------------------------------------------
(* Cancellation, crash and recovery. *)

Cancel ==
  /\ FaultsLeft /\ ~canceled /\ pc \notin {"off", "ended"}
  /\ canceled' = TRUE
  /\ UNCHANGED <<kube, waiter, logger, task, others>>

Crash ==
  /\ FaultsLeft /\ pc \notin {"off", "ended"}
  /\ crashes' = crashes + 1
  /\ pc' = "off" /\ lpc' = "off"
  /\ unreported' = <<>> /\ uncopied' = <<>> /\ lastPass' = FALSE
  /\ since' = [p \in Pods |-> 0]
  /\ result' = "none" /\ jobDone' = FALSE /\ canceled' = FALSE /\ late' = FALSE
  /\ UNCHANGED <<kube, log, task, errors>>

\* A finished Job has its logs copied in one pass, by captureFinishedJobLogs; a
\* live one must have a running Pod.
Resume ==
  /\ pc = "off"
  /\ IF verdict # "none"
     THEN pc' = "capture" /\ lpc' = "list" /\ jobDone' = TRUE /\ result' = verdict
     ELSE pc' = "find" /\ UNCHANGED <<lpc, jobDone, result>>
  /\ UNCHANGED <<kube, unreported, canceled, lastPass, uncopied, since, log, task, others>>

\* findRunningJobPod lists the Pods, reports them, and is content with the newest one
\* if it was running when listed; RunTask then ensures the PodDisruptionBudget.
FindPods ==
  /\ pc = "find" /\ ~canceled
  /\ unreported' = Listing
  /\ IF Listing = <<>> THEN pc' = "record" /\ result' = "failed"
                       ELSE pc' = "recover" /\ UNCHANGED result
  /\ UNCHANGED <<kube, jobDone, canceled, logger, task, others>>

FindReport ==
  /\ pc = "recover"
  /\ task' = Merge(task, Head(unreported))
  /\ unreported' = Tail(unreported)
  /\ \/ Len(unreported) > 1 /\ UNCHANGED <<pc, lpc, result>>
     \/ /\ Len(unreported) = 1 /\ Head(unreported).phase = "running" /\ ~canceled
        /\ pc' = "list" /\ lpc' = "list" /\ UNCHANGED result
     \/ Len(unreported) = 1 /\ pc' = "record" /\ result' = "failed" /\ UNCHANGED lpc
  /\ UNCHANGED <<kube, jobDone, canceled, lastPass, uncopied, since, log, others>>

\* The Job or its Pods cannot be read; the task ends with that, so no bound is needed.
RecoveryFails ==
  /\ pc \in {"off", "find"}
  /\ pc' = "record" /\ result' = "error"
  /\ UNCHANGED <<kube, unreported, jobDone, canceled, logger, task, others>>

-----------------------------------------------------------------------------
Kubernetes == PodCreated \/ JobEnds \/ \E p \in DOMAIN phase : PodStarts(p) \/ PodWrites(p) \/ PodEnds(p)
Waiter == \/ WaitList \/ WaitReport \/ WaitReported \/ WaitJob \/ WaitTick \/ WaitFails \/ WaitCanceled
          \/ Collect \/ Settle \/ Record \/ Resume \/ FindPods \/ FindReport \/ RecoveryFails
Logger == LogList \/ LogListFails \/ LogReport \/ LogCopy \/ LogCopyFails \/ LogPassEnds \/ LogSelect \/ LogWait

Next == Kubernetes \/ Waiter \/ Logger \/ Cancel \/ Crash

Spec == Init /\ [][Next]_vars

\* The goroutine of the task runs and its requests are answered (doJSON tries
\* again until they are).  Nothing is asked of the log goroutine, except that the
\* goroutine of the task itself copies the logs of a Job found ended.
FairSpec == Spec /\ WF_vars(Waiter) /\ WF_vars(pc = "capture" /\ Logger)

-----------------------------------------------------------------------------
TypeOK ==
  /\ phase \in Seq(Phases) /\ Len(phase) <= MaxPods
  /\ lines \in [Pods -> 0..MaxLines] /\ since \in [Pods -> 0..MaxLines]
  /\ verdict \in {"none", "succeeded", "failed"}
  /\ result \in {"none", "succeeded", "failed", "error"}
  /\ pc \in {"list", "report", "job", "tick", "collect", "settle", "record", "ended",
             "off", "find", "recover", "capture"}
  /\ lpc \in {"off", "list", "pods", "copy", "select", "wait", "done"}
  /\ unreported \in Seq(PodView) /\ uncopied \in Seq(PodView)
  /\ log \in Seq(Pods \X (0..MaxLines))
  /\ task \in TaskRecord
  /\ {jobDone, canceled, lastPass, late} \subseteq BOOLEAN
  /\ errors \in 0..MaxFaults /\ crashes \in 0..MaxFaults

\* Attempts are numbered in the order of the Pods, whichever of the goroutines
\* saw a Pod first, also over a restart (runner.go:312-327).
AttemptOrder == \A i \in DOMAIN task.attempts : task.attempts[i].pod = i

\* A line is in the log at most once and in the order of the attempts, although
\* every pass asks for the logs of all the Pods again (kubernetes.go:372-446),
\* as long as no request fails and the runner does not restart.
LogInOrder ==
  (errors = 0 /\ crashes = 0) =>
    \A i, j \in DOMAIN log : i < j =>
      \/ log[i][1] < log[j][1]
      \/ log[i][1] = log[j][1] /\ log[i][2] < log[j][2]

\* runner_test.go:77 wants "succeeded" as the PodStatus of a task that succeeded:
\* the PodStatus of an ended task is the one of its record, whatever the log
\* goroutine still has to report, unless it was given up after 10 seconds.
PodStatusSettled ==
  pc = "ended" /\ ~late =>
    task.podStatus = IF task.status = "cancelled" THEN "terminating" ELSE task.status

\* What is written down of a task is in order, whichever goroutine writes it.
RecordInOrder == TypeOK /\ AttemptOrder /\ LogInOrder /\ PodStatusSettled

\* kubernetes.go:421-422, "Run one final non-following pass so logs written
\* immediately before Job completion are not lost": the log of a task that ended
\* by its Job is complete, if nothing went wrong.
CompleteLogs ==
  (pc = "ended" /\ ~late /\ errors = 0 /\ crashes = 0 /\ ~canceled /\ verdict # "none") =>
    \A p \in DOMAIN phase : \A l \in 1..lines[p] : Contains(log, <<p, l>>)

\* The task ends once its Job has, or once its run is cancelled, whatever the
\* log goroutine is doing.
WatchEnds == (verdict # "none" \/ canceled) ~> (pc = "ended" \/ pc = "off")
=============================================================================
