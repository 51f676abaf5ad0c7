---------------------------- MODULE BatchRunSpec ----------------------------
(***************************************************************************)
(* What the batch runner promises of the durable record of a run, whatever *)
(* happens to the process: tasks move from pending over running to a final  *)
(* status and never back, a task starts only when every task of the earlier *)
(* stages is settled, and the run gets one verdict, which its tasks justify. *)
(* There is no process here, no memory, no Kubernetes and no crash.          *)
(***************************************************************************)
EXTENDS Naturals

CONSTANTS Runs, Tasks, NStages, StageOf, AllowConcurrentRuns

VARIABLE record

TaskDone == {"succeeded", "failed", "skipped", "cancelled"}
RunDone  == {"succeeded", "failed", "cancelled"}
NoRun    == [status |-> "none", tasks |-> [t \in Tasks |-> "pending"]]

Open(r) == record[r].status \in {"pending", "running"}
Tried(r) == record[r].status = "running"
Settled(r, t) == record[r].tasks[t] \in TaskDone
EarlierSettled(r, s) == \A t \in Tasks : StageOf[t] < s => Settled(r, t)

Init == record = [r \in Runs |-> NoRun]

\* A run is accepted while no other is open, unless runs may overlap.
Accept(r) ==
  /\ record[r].status = "none"
  /\ AllowConcurrentRuns \/ \A q \in Runs : ~Open(q)
  /\ record' = [record EXCEPT ![r].status = "pending"]

Begin(r) ==
  /\ record[r].status = "pending"
  /\ record' = [record EXCEPT ![r].status = "running"]

Start(r, t) ==
  /\ Tried(r) /\ record[r].tasks[t] = "pending"
  /\ EarlierSettled(r, StageOf[t])
  /\ record' = [record EXCEPT ![r].tasks[t] = "running"]

\* Only a task that was started succeeds or fails.
Settle(r, t) ==
  /\ Tried(r) /\ ~Settled(r, t)
  /\ \/ record' = [record EXCEPT ![r].tasks[t] = "cancelled"]
     \/ /\ record[r].tasks[t] = "running"
        /\ \E s \in {"succeeded", "failed"} :
             record' = [record EXCEPT ![r].tasks[t] = s]

\* After a failure the pending tasks of a stage are skipped together.
Skip(r, s) ==
  /\ Tried(r) /\ EarlierSettled(r, s)
  /\ \E t \in Tasks : StageOf[t] < s /\ record[r].tasks[t] = "failed"
  /\ record' = [record EXCEPT ![r].tasks =
       [t \in Tasks |-> IF StageOf[t] = s /\ @[t] = "pending" THEN "skipped" ELSE @[t]]]

Conclude(r) ==
  /\ Tried(r) /\ \A t \in Tasks : Settled(r, t)
  /\ record' = [record EXCEPT ![r].status =
       IF \E t \in Tasks : record[r].tasks[t] = "failed" THEN "failed" ELSE "succeeded"]

Cancel(r) ==
  /\ Tried(r)
  /\ record' = [record EXCEPT ![r] =
       [status |-> "cancelled",
        tasks |-> [t \in Tasks |-> IF Settled(r, t) THEN record[r].tasks[t]
                                                   ELSE "cancelled"]]]

Next == \E r \in Runs :
          \/ Accept(r) \/ Begin(r) \/ Conclude(r) \/ Cancel(r)
          \/ \E t \in Tasks : Start(r, t) \/ Settle(r, t)
          \/ \E s \in 1..NStages : Skip(r, s)

Spec == Init /\ [][Next]_record
=============================================================================
