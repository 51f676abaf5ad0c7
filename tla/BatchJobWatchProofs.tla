------------------------- MODULE BatchJobWatchProofs -------------------------
(***************************************************************************)
(* Proofs about BatchJobWatch: what two goroutines write down of one task is  *)
(* in order, for any number of Pods, lines and faults.                         *)
(***************************************************************************)
EXTENDS BatchJobWatch, SequenceTheorems, TLAPS

-----------------------------------------------------------------------------
(* The invariant. *)

\* Only the newest Pod can still change: the others have failed.
PodsInTurn == \A p \in DOMAIN phase : p < Len(phase) => phase[p] = "failed"

\* No line is copied before it is written.
SinceWritten == \A p \in Pods : since[p] <= lines[p]

\* A list, as far as it is dealt with, is a stretch of the Pods in their order, its first one
\* an attempt of the task or the next to become one.
ListsInTurn ==
  \A q \in {unreported, uncopied} : \A i \in DOMAIN q :
    /\ q[i].pod = q[1].pod + i - 1 /\ q[i].pod <= Len(phase)
    /\ q[1].pod <= Len(task.attempts) + 1
    /\ i < Len(q) => q[i].phase = "failed"

\* A Pod is only copied after it is reported.
CopiesReported == lpc = "copy" => uncopied # <<>> /\ uncopied[1].pod <= Len(task.attempts)

\* Once the log goroutine is not waited for any more, it has ended or been given up.
LoggerOver ==
  /\ pc \in {"settle", "record", "ended"} /\ ~late => lpc \in {"done", "off"}
  /\ pc \in {"off", "find", "recover"} => lpc = "off"

HasHeader(p) == \E i \in DOMAIN log : log[i] = <<p, 0>>

\* Nothing can come of Pod p any more: it has failed and its lines are copied, or copying has
\* stopped.
Finished(p) == LogStopped \/ (p < Len(phase) /\ since[p] = lines[p])

\* What the log holds of a Pod is bounded by what is remembered of it; before any entry of a
\* Pod come its header and the headers of all Pods before it, and these are finished.
EntriesInTurn ==
  \A i \in DOMAIN log :
    /\ log[i][2] <= since[log[i][1]]
    /\ \A p \in Pods : p <= log[i][1] => HasHeader(p)
    /\ \A p \in Pods : p < log[i][1] => Finished(p)

\* The same of the Pods the pass at work has dealt with, and of the one it is at.
PassInTurn ==
  lpc \in {"pods", "copy"} /\ uncopied # <<>> =>
    /\ \A p \in Pods : p < uncopied[1].pod => HasHeader(p) /\ Finished(p)
    /\ lpc = "copy" => HasHeader(uncopied[1].pod)

LogInv ==
  errors = 0 /\ crashes = 0 =>
    /\ pc \notin {"off", "find", "recover", "capture"}
    /\ EntriesInTurn /\ PassInTurn

WatchInv ==
  /\ TypeOK /\ PodsInTurn /\ SinceWritten /\ ListsInTurn
  /\ CopiesReported /\ AttemptOrder /\ LoggerOver /\ PodStatusSettled
  /\ LogInv /\ LogInOrder

-----------------------------------------------------------------------------
(* Operators. *)

\* The elements of a list a goroutine goes through: the head, and the rest shifted by one.
LEMMA RestOf ==
  ASSUME NEW q \in Seq(PodView), q # <<>>
  PROVE  /\ Head(q) = q[1] /\ q[1] \in PodView /\ Tail(q) \in Seq(PodView)
         /\ Len(q) \in Nat /\ Len(q) >= 1 /\ DOMAIN q = 1..Len(q)
         /\ Len(Tail(q)) = Len(q) - 1 /\ DOMAIN Tail(q) = 1..(Len(q) - 1)
         /\ \A i \in DOMAIN Tail(q) : i \in Nat /\ i >= 1 /\ Tail(q)[i] = q[i + 1]
                                      /\ i + 1 \in DOMAIN q
<1>1. Head(q) \in PodView /\ Tail(q) \in Seq(PodView) /\ Len(Tail(q)) = Len(q) - 1
      /\ \A i \in 1..Len(Tail(q)) : Tail(q)[i] = q[i + 1]
  BY HeadTailProperties
<1>2. Len(q) \in Nat /\ Len(q) # 0 /\ DOMAIN q = 1..Len(q) /\ DOMAIN Tail(q) = 1..Len(Tail(q))
  BY <1>1, LenProperties, EmptySeq
<1>3. Head(q) = q[1]
  OBVIOUS
<1>. QED  BY <1>1, <1>2, <1>3

\* What a list of the Pods returns.
LEMMA ListingType ==
  ASSUME phase \in Seq(Phases), Len(phase) <= MaxPods, WatchAssumption
  PROVE  /\ Listing \in Seq(PodView) /\ DOMAIN Listing = 1..Len(phase)
         /\ Len(Listing) = Len(phase) /\ DOMAIN phase = 1..Len(phase) /\ Len(phase) \in Nat
         /\ \A p \in DOMAIN phase : Listing[p] = [pod |-> p, phase |-> phase[p]]
<1>1. /\ DOMAIN phase = 1..Len(phase) /\ Len(phase) \in Nat
      /\ \A p \in DOMAIN phase : phase[p] \in Phases
  BY LenProperties
<1>2. MaxPods \in Nat
  BY DEF MaxPods, WatchAssumption
<1>3. ASSUME NEW p \in 1..Len(phase)
      PROVE  [pod |-> p, phase |-> phase[p]] \in PodView
  BY <1>1, <1>2, <1>3 DEF PodView, Pods
<1>4. Listing \in [1..Len(phase) -> PodView]
  BY <1>1, <1>3 DEF Listing
<1>5. Listing \in Seq(PodView)
  BY <1>1, <1>4, SeqDef
<1>6. DOMAIN Listing = 1..Len(phase) /\ DOMAIN Listing = 1..Len(Listing) /\ Len(Listing) \in Nat
  BY <1>4, <1>5, LenProperties
<1>7. Len(Listing) = Len(phase)
  BY <1>1, <1>6
<1>. QED  BY <1>1, <1>5, <1>6, <1>7 DEF Listing

\* A Pod that is an attempt of the task or the next to become one is merged in its place.
LEMMA MergeInOrder ==
  ASSUME NEW t \in TaskRecord, \A i \in DOMAIN t.attempts : t.attempts[i].pod = i,
         NEW view \in PodView, view.pod <= Len(t.attempts) + 1
  PROVE  /\ Merge(t, view) \in TaskRecord
         /\ \A i \in DOMAIN Merge(t, view).attempts : Merge(t, view).attempts[i].pod = i
         /\ Len(Merge(t, view).attempts) >= Len(t.attempts)
         /\ Len(Merge(t, view).attempts) >= view.pod
         /\ Len(Merge(t, view).attempts) \in Nat
<1>. DEFINE a == t.attempts
            m == IF \E i \in DOMAIN a : a[i].pod = view.pod
                 THEN [i \in DOMAIN a |-> IF a[i].pod = view.pod THEN view ELSE a[i]]
                 ELSE Append(a, view)
<1>1. a \in Seq(PodView) /\ DOMAIN a = 1..Len(a) /\ Len(a) \in Nat
      /\ \A i \in DOMAIN a : a[i] \in PodView
  BY LenProperties DEF TaskRecord
<1>2. view.pod \in Nat /\ view.pod >= 1
  BY DEF PodView, Pods
<1>3. Merge(t, view).attempts = m /\ (m \in Seq(PodView) => Merge(t, view) \in TaskRecord)
  BY DEF Merge, TaskRecord, PodView
<1>4. /\ m \in Seq(PodView) /\ \A i \in DOMAIN m : m[i].pod = i
      /\ Len(m) >= Len(a) /\ Len(m) >= view.pod /\ Len(m) \in Nat
  <2>1. CASE \E i \in DOMAIN a : a[i].pod = view.pod
    <3>1. m = [i \in 1..Len(a) |-> IF a[i].pod = view.pod THEN view ELSE a[i]]
      BY <1>1, <2>1
    <3>2. m \in [1..Len(a) -> PodView]
      BY <1>1, <3>1
    <3>3. m \in Seq(PodView)
      BY <1>1, <3>2, SeqDef
    <3>4. DOMAIN m = 1..Len(a) /\ DOMAIN m = 1..Len(m) /\ Len(m) \in Nat
      BY <3>2, <3>3, LenProperties
    <3>5. Len(m) = Len(a)
      BY <1>1, <3>4
    <3>6. view.pod <= Len(a)
      BY <1>1, <2>1
    <3>7. \A i \in DOMAIN m : m[i].pod = i
      BY <1>1, <3>1, <3>4
    <3>. QED  BY <1>1, <3>3, <3>4, <3>5, <3>6, <3>7
  <2>2. CASE ~\E i \in DOMAIN a : a[i].pod = view.pod
    <3>1. m = Append(a, view)
      BY <2>2
    <3>2. m \in Seq(PodView) /\ Len(m) = Len(a) + 1 /\ m[Len(a) + 1] = view
          /\ \A i \in 1..Len(a) : m[i] = a[i]
      BY <1>1, <3>1, AppendProperties
    <3>3. view.pod = Len(a) + 1
      BY <1>1, <1>2, <2>2
    <3>4. DOMAIN m = 1..(Len(a) + 1)
      BY <3>2, LenProperties
    <3>5. \A i \in DOMAIN m : m[i].pod = i
      BY <1>1, <3>2, <3>3, <3>4
    <3>. QED  BY <1>1, <3>2, <3>3, <3>5
  <2>. QED  BY <2>1, <2>2
<1>. HIDE DEF m
<1>. QED  BY <1>1, <1>3, <1>4

\* A header is written once, at the end.
LEMMA HeaderWritten ==
  ASSUME NEW S, log \in Seq(S), NEW p, <<p, 0>> \in S
  PROVE  /\ WithHeader(p) \in Seq(S)
         /\ HasHeader(p) => WithHeader(p) = log
         /\ ~HasHeader(p) =>
              /\ DOMAIN WithHeader(p) = 1..(Len(log) + 1) /\ DOMAIN log = 1..Len(log)
              /\ Len(log) \in Nat /\ WithHeader(p)[Len(log) + 1] = <<p, 0>>
              /\ \A i \in DOMAIN log : WithHeader(p)[i] = log[i]
<1>1. DOMAIN log = 1..Len(log) /\ Len(log) \in Nat
  BY LenProperties
<1>2. HasHeader(p) <=> Contains(log, <<p, 0>>)
  BY <1>1 DEF HasHeader, Contains
<1>3. CASE HasHeader(p)
  BY <1>2, <1>3 DEF WithHeader
<1>4. CASE ~HasHeader(p)
  <2>1. WithHeader(p) = Append(log, <<p, 0>>)
    BY <1>2, <1>4 DEF WithHeader
  <2>2. /\ WithHeader(p) \in Seq(S) /\ Len(WithHeader(p)) = Len(log) + 1
        /\ \A i \in 1..Len(log) : WithHeader(p)[i] = log[i]
        /\ WithHeader(p)[Len(log) + 1] = <<p, 0>>
    BY <2>1, AppendProperties
  <2>. QED  BY <1>1, <1>4, <2>2, LenProperties
<1>. QED  BY <1>3, <1>4

-----------------------------------------------------------------------------
(* Types. *)

\* The first Pod of a list at work is an attempt of the task, or the next to become one.
LEMMA HeadKnown ==
  ASSUME WatchInv, NEW q \in {unreported, uncopied}, q # <<>>
  PROVE  /\ q \in Seq(PodView) /\ Head(q) = q[1] /\ q[1] \in PodView
         /\ q[1].pod \in Pods /\ q[1].pod <= Len(task.attempts) + 1 /\ q[1].pod <= Len(phase)
         /\ Merge(task, q[1]) \in TaskRecord
         /\ \A i \in DOMAIN Merge(task, q[1]).attempts : Merge(task, q[1]).attempts[i].pod = i
         /\ Len(Merge(task, q[1]).attempts) >= Len(task.attempts)
         /\ Len(Merge(task, q[1]).attempts) >= q[1].pod
         /\ Len(Merge(task, q[1]).attempts) \in Nat
<1>1. q \in Seq(PodView)
  BY DEF WatchInv, TypeOK
<1>2. Head(q) = q[1] /\ q[1] \in PodView /\ 1 \in DOMAIN q
  BY <1>1, RestOf
<1>3. q[1].pod <= Len(task.attempts) + 1 /\ q[1].pod <= Len(phase)
  BY <1>2 DEF WatchInv, ListsInTurn
<1>4. task \in TaskRecord /\ \A i \in DOMAIN task.attempts : task.attempts[i].pod = i
  BY DEF WatchInv, TypeOK, AttemptOrder
<1>. QED  BY <1>1, <1>2, <1>3, <1>4, MergeInOrder DEF PodView

\* Kubernetes changes the phase of one Pod, adds a Pod, writes a line or ends the Job.
LEMMA KubernetesTypes ==
  ASSUME WatchAssumption, WatchInv, Kubernetes
  PROVE  TypeOK'
<1>. USE DEF kube, waiter, logger, others
<1>0. TypeOK /\ MaxPods \in Nat /\ DOMAIN phase = 1..Len(phase) /\ Len(phase) \in Nat
  BY LenProperties DEF WatchInv, TypeOK, MaxPods, WatchAssumption
<1>1. CASE PodCreated
  <2>1. phase' \in Seq(Phases) /\ Len(phase') = Len(phase) + 1
    BY <1>0, <1>1, AppendProperties DEF TypeOK, PodCreated, Phases
  <2>. QED  BY <1>0, <1>1, <2>1 DEF TypeOK, PodCreated
<1>2. CASE JobEnds
  BY <1>0, <1>2 DEF TypeOK, JobEnds
<1>3. ASSUME NEW p \in DOMAIN phase, PodStarts(p) \/ PodEnds(p)
      PROVE  TypeOK'
  <2>1. PICK f \in Phases : phase' = [phase EXCEPT ![p] = f]
    BY <1>3 DEF PodStarts, PodEnds, Phases
  <2>2. phase' \in Seq(Phases) /\ Len(phase') = Len(phase)
    BY <1>0, <2>1, ExceptSeq DEF TypeOK
  <2>. QED  BY <1>0, <1>3, <2>2 DEF TypeOK, PodStarts, PodEnds
<1>4. ASSUME NEW p \in DOMAIN phase, PodWrites(p)
      PROVE  TypeOK'
  <2>1. p \in Pods
    BY <1>0 DEF TypeOK, Pods
  <2>2. lines[p] + 1 \in 0..MaxLines
    BY <1>0, <1>4, <2>1 DEF TypeOK, PodWrites, WatchAssumption
  <2>3. lines' \in [Pods -> 0..MaxLines]
    BY <1>0, <1>4, <2>1, <2>2 DEF TypeOK, PodWrites
  <2>. QED  BY <1>0, <1>4, <2>3 DEF TypeOK, PodWrites
<1>. QED  BY <1>1, <1>2, <1>3, <1>4 DEF Kubernetes

\* The goroutine of the task reports a Pod it listed, or records how the task ended.
LEMMA WaiterTypes ==
  ASSUME WatchAssumption, WatchInv, Waiter
  PROVE  TypeOK'
<1>. USE DEF kube, waiter, logger, others
<1>0. TypeOK /\ Listing \in Seq(PodView)
  BY ListingType DEF WatchInv, TypeOK
<1>a. ASSUME unreported # <<>>
      PROVE  Merge(task, Head(unreported)) \in TaskRecord /\ Tail(unreported) \in Seq(PodView)
  BY <1>0, <1>a, HeadKnown, RestOf
<1>b. ASSUME Request
      PROVE  errors' \in 0..MaxFaults
  <2>. DEFINE k == IF canceled THEN 1 ELSE 0
  <2>1. k \in 0..1 /\ errors \in Nat /\ crashes \in Nat /\ MaxFaults \in Nat
    BY <1>0 DEF TypeOK, WatchAssumption
  <2>2. errors + crashes + k < MaxFaults /\ errors' = errors + 1
    BY <1>b DEF Request, FaultsLeft
  <2>. QED  BY <2>1, <2>2
<1>1. CASE WaitList
  BY <1>0, <1>1 DEF TypeOK, WaitList
<1>2. CASE WaitReport
  BY <1>0, <1>2, <1>a DEF TypeOK, WaitReport
<1>3. CASE WaitReported
  BY <1>0, <1>3 DEF TypeOK, WaitReported
<1>4. CASE WaitJob
  BY <1>0, <1>4 DEF TypeOK, WaitJob, WaitEnds
<1>5. CASE WaitTick
  BY <1>0, <1>5 DEF TypeOK, WaitTick
<1>6. CASE WaitFails
  BY <1>0, <1>6, <1>b DEF TypeOK, WaitFails, WaitEnds
<1>7. CASE WaitCanceled
  BY <1>0, <1>7 DEF TypeOK, WaitCanceled, WaitEnds
<1>8. CASE Collect
  BY <1>0, <1>8 DEF TypeOK, Collect
<1>9. CASE Settle
  <2>1. errors' \in 0..MaxFaults
    BY <1>0, <1>9, <1>b DEF TypeOK, Settle
  <2>2. task' \in TaskRecord
    BY <1>0, <1>9 DEF TypeOK, Settle, TaskRecord, Phases
  <2>3. result' \in {"none", "succeeded", "failed", "error"}
    BY <1>0, <1>9 DEF TypeOK, Settle
  <2>. QED  BY <1>0, <1>9, <2>1, <2>2, <2>3 DEF TypeOK, Settle
<1>10. CASE Record
  <2>1. task' \in TaskRecord
    BY <1>0, <1>10 DEF TypeOK, Record, TaskRecord, Phases
  <2>. QED  BY <1>0, <1>10, <2>1 DEF TypeOK, Record
<1>11. CASE Resume
  BY <1>0, <1>11 DEF TypeOK, Resume
<1>12. CASE FindPods
  BY <1>0, <1>12 DEF TypeOK, FindPods
<1>13. CASE FindReport
  <2>1. unreported # <<>>
    BY <1>13 DEF FindReport
  <2>. QED  BY <1>0, <1>13, <1>a, <2>1 DEF TypeOK, FindReport
<1>14. CASE RecoveryFails
  BY <1>0, <1>14 DEF TypeOK, RecoveryFails
<1>. QED  BY <1>1, <1>2, <1>3, <1>4, <1>5, <1>6, <1>7, <1>8, <1>9, <1>10, <1>11, <1>12, <1>13,
             <1>14 DEF Waiter

\* The lines a copy appends: those written since the last one.
LEMMA LinesCopied ==
  ASSUME WatchAssumption, WatchInv, NEW p \in Pods
  PROVE  /\ NewLines(p) \in Seq(Pods \X (0..MaxLines))
         /\ lines[p] - since[p] \in Nat /\ Len(NewLines(p)) = lines[p] - since[p]
         /\ \A i \in 1..(lines[p] - since[p]) : NewLines(p)[i] = <<p, since[p] + i>>
<1>1. lines[p] \in 0..MaxLines /\ since[p] \in 0..MaxLines /\ since[p] <= lines[p] /\ MaxLines \in Nat
  BY DEF WatchInv, TypeOK, SinceWritten, WatchAssumption
<1>. DEFINE n == lines[p] - since[p]
<1>2. n \in Nat /\ \A i \in 1..n : since[p] + i \in 0..MaxLines
  BY <1>1
<1>3. NewLines(p) \in [1..n -> Pods \X (0..MaxLines)]
  BY <1>2 DEF NewLines
<1>4. NewLines(p) \in Seq(Pods \X (0..MaxLines))
  BY <1>2, <1>3, SeqDef
<1>5. DOMAIN NewLines(p) = 1..n /\ DOMAIN NewLines(p) = 1..Len(NewLines(p)) /\ Len(NewLines(p)) \in Nat
  BY <1>3, <1>4, LenProperties
<1>6. Len(NewLines(p)) = n
  BY <1>2, <1>5
<1>. QED  BY <1>2, <1>4, <1>6 DEF NewLines

\* The log goroutine reports Pods, and appends headers and lines.
LEMMA LoggerTypes ==
  ASSUME WatchAssumption, WatchInv, Logger
  PROVE  TypeOK'
<1>. USE DEF kube, waiter, logger, others
<1>. DEFINE Entry == Pods \X (0..MaxLines)
<1>0. TypeOK /\ Listing \in Seq(PodView) /\ MaxLines \in Nat
  BY ListingType DEF WatchInv, TypeOK, WatchAssumption
<1>a. ASSUME uncopied # <<>>
      PROVE  /\ Merge(task, Head(uncopied)) \in TaskRecord /\ Tail(uncopied) \in Seq(PodView)
             /\ Head(uncopied).pod \in Pods
  BY <1>0, <1>a, HeadKnown, RestOf
<1>b. ASSUME Request
      PROVE  errors' \in 0..MaxFaults
  <2>. DEFINE k == IF canceled THEN 1 ELSE 0
  <2>1. k \in 0..1 /\ errors \in Nat /\ crashes \in Nat /\ MaxFaults \in Nat
    BY <1>0 DEF TypeOK, WatchAssumption
  <2>2. errors + crashes + k < MaxFaults /\ errors' = errors + 1
    BY <1>b DEF Request, FaultsLeft
  <2>. QED  BY <2>1, <2>2
<1>1. CASE LogList
  BY <1>0, <1>1 DEF TypeOK, LogList
<1>2. CASE LogListFails
  <2>1. errors' \in 0..MaxFaults
    BY <1>0, <1>2, <1>b DEF TypeOK, LogListFails
  <2>. QED  BY <1>0, <1>2, <2>1 DEF TypeOK, LogListFails
<1>3. CASE LogReport
  <2>1. <<Head(uncopied).pod, 0>> \in Entry
    BY <1>0, <1>3, <1>a DEF LogReport
  <2>2. log' \in Seq(Entry)
    BY <1>0, <1>3, <2>1, HeaderWritten DEF TypeOK, LogReport
  <2>. QED  BY <1>0, <1>3, <1>a, <2>2 DEF TypeOK, LogReport
<1>4. CASE LogCopy
  <2>1. uncopied # <<>>
    BY <1>4 DEF WatchInv, CopiesReported, LogCopy
  <2>2. PICK p \in Pods : p = Head(uncopied).pod
    BY <1>a, <2>1
  <2>3. log' = log \o NewLines(p) /\ since' = [since EXCEPT ![p] = lines[p]]
    BY <1>4, <2>2 DEF LogCopy
  <2>4. log' \in Seq(Entry)
    BY <1>0, <2>3, LinesCopied, ConcatProperties DEF TypeOK
  <2>5. since' \in [Pods -> 0..MaxLines]
    BY <1>0, <2>3 DEF TypeOK
  <2>. QED  BY <1>0, <1>4, <1>a, <2>1, <2>4, <2>5 DEF TypeOK, LogCopy
<1>5. CASE LogCopyFails
  <2>1. errors' \in 0..MaxFaults
    BY <1>0, <1>5, <1>b DEF TypeOK, LogCopyFails
  <2>2. uncopied # <<>>
    BY <1>5 DEF WatchInv, CopiesReported, LogCopyFails
  <2>. QED  BY <1>0, <1>5, <1>a, <2>1, <2>2 DEF TypeOK, LogCopyFails
<1>6. CASE LogPassEnds
  BY <1>0, <1>6 DEF TypeOK, LogPassEnds
<1>7. CASE LogSelect
  BY <1>0, <1>7 DEF TypeOK, LogSelect
<1>8. CASE LogWait
  BY <1>0, <1>8 DEF TypeOK, LogWait
<1>. QED  BY <1>1, <1>2, <1>3, <1>4, <1>5, <1>6, <1>7, <1>8 DEF Logger

\* The run is cancelled, or the process killed.
LEMMA FaultTypes ==
  ASSUME WatchAssumption, WatchInv, Cancel \/ Crash
  PROVE  TypeOK'
<1>. USE DEF kube, waiter, logger, others
<1>0. TypeOK /\ MaxLines \in Nat
  BY DEF WatchInv, WatchAssumption
<1>1. CASE Cancel
  BY <1>0, <1>1 DEF TypeOK, Cancel
<1>2. CASE Crash
  <2>. DEFINE k == IF canceled THEN 1 ELSE 0
  <2>1. k \in 0..1 /\ errors \in Nat /\ crashes \in Nat /\ MaxFaults \in Nat
    BY <1>0 DEF TypeOK, WatchAssumption
  <2>2. errors + crashes + k < MaxFaults /\ crashes' = crashes + 1
    BY <1>2 DEF Crash, FaultsLeft
  <2>3. crashes' \in 0..MaxFaults
    BY <2>1, <2>2
  <2>4. unreported' \in Seq(PodView) /\ uncopied' \in Seq(PodView)
    BY <1>2, EmptySeq DEF Crash
  <2>5. since' \in [Pods -> 0..MaxLines]
    BY <1>0, <1>2 DEF Crash
  <2>. QED  BY <1>0, <1>2, <2>3, <2>4, <2>5 DEF TypeOK, Crash
<1>. QED  BY <1>1, <1>2

\* The state keeps its type.
LEMMA WatchTypes ==
  ASSUME WatchAssumption, WatchInv, Next
  PROVE  TypeOK'
BY KubernetesTypes, WaiterTypes, LoggerTypes, FaultTypes DEF Next

-----------------------------------------------------------------------------
(* Pods, lists and attempts. *)

\* A Pod that has failed stays so, and another one comes only after it.
LEMMA PodsKeepTurn ==
  ASSUME WatchAssumption, WatchInv, Next
  PROVE  /\ PodsInTurn'
         /\ Len(phase) \in Nat /\ Len(phase') \in Nat /\ Len(phase') >= Len(phase)
         /\ \A p \in DOMAIN phase : p \in DOMAIN phase' /\ (phase[p] = "failed" => phase'[p] = "failed")
<1>. USE DEF kube, waiter, logger, others
<1>0. /\ phase \in Seq(Phases) /\ DOMAIN phase = 1..Len(phase) /\ Len(phase) \in Nat
      /\ \A p \in 1..Len(phase) : p < Len(phase) => phase[p] = "failed"
  BY LenProperties DEF WatchInv, TypeOK, PodsInTurn
<1>1. CASE PodCreated
  <2>1. /\ phase' \in Seq(Phases) /\ Len(phase') = Len(phase) + 1
        /\ \A p \in 1..Len(phase) : phase'[p] = phase[p]
    BY <1>0, <1>1, AppendProperties DEF PodCreated, Phases
  <2>2. DOMAIN phase' = 1..(Len(phase) + 1)
    BY <2>1, LenProperties
  <2>3. Len(phase) # 0 => phase[Len(phase)] = "failed"
    <3>1. Len(phase) # 0 => NewestPhase = phase[Len(phase)] /\ NewestPhase # "none"
      <4>1. Len(phase) # 0 => phase # <<>>
        BY EmptySeq
      <4>2. Len(phase) # 0 => phase[Len(phase)] \in Phases
        BY <1>0
      <4>. QED  BY <4>1, <4>2 DEF NewestPhase, Last, Phases
    <3>. QED  BY <1>1, <3>1 DEF PodCreated
  <2>4. \A p \in 1..Len(phase) : phase[p] = "failed"
    BY <1>0, <2>3
  <2>. QED  BY <1>0, <2>1, <2>2, <2>4 DEF PodsInTurn
<1>2. ASSUME NEW q \in DOMAIN phase, PodStarts(q) \/ PodEnds(q)
      PROVE  /\ PodsInTurn' /\ Len(phase') = Len(phase)
             /\ \A p \in DOMAIN phase : p \in DOMAIN phase' /\ (phase[p] = "failed" => phase'[p] = "failed")
  <2>1. PICK f \in Phases : phase' = [phase EXCEPT ![q] = f]
    BY <1>2 DEF PodStarts, PodEnds, Phases
  <2>2. phase[q] # "failed"
    BY <1>2 DEF PodStarts, PodEnds
  <2>3. Len(phase') = Len(phase) /\ DOMAIN phase' = DOMAIN phase
    BY <1>0, <2>1, ExceptSeq
  <2>4. \A p \in DOMAIN phase : p # q => phase'[p] = phase[p]
    BY <2>1
  <2>. QED  BY <1>0, <2>2, <2>3, <2>4 DEF PodsInTurn
<1>3. CASE phase' = phase
  BY <1>0, <1>3 DEF PodsInTurn
<1>4. \/ PodCreated \/ phase' = phase \/ \E q \in DOMAIN phase : PodStarts(q) \/ PodEnds(q)
  BY DEF Next, Kubernetes, Waiter, Logger, JobEnds, PodWrites, WaitList, WaitReport, WaitReported,
         WaitJob, WaitTick, WaitFails, WaitCanceled, WaitEnds, Collect, Settle, Record, Resume,
         FindPods, FindReport, RecoveryFails, LogList, LogListFails, LogReport, LogCopy,
         LogCopyFails, LogPassEnds, LogSelect, LogWait, Cancel, Crash
<1>. QED  BY <1>0, <1>1, <1>2, <1>3, <1>4

\* Lines are remembered as copied only once they are written.
LEMMA SinceStaysWritten ==
  ASSUME WatchAssumption, WatchInv, Next
  PROVE  SinceWritten'
<1>. USE DEF kube, waiter, logger, others
<1>0. lines \in [Pods -> 0..MaxLines] /\ since \in [Pods -> 0..MaxLines] /\ SinceWritten /\ MaxLines \in Nat
  BY DEF WatchInv, TypeOK, WatchAssumption
<1>1. ASSUME NEW p \in DOMAIN phase, PodWrites(p)
      PROVE  SinceWritten'
  <2>1. \A q \in Pods : lines'[q] \in Nat /\ lines[q] \in Nat /\ since[q] \in Nat /\ lines'[q] >= lines[q]
    BY <1>0, <1>1 DEF PodWrites
  <2>. QED  BY <1>0, <1>1, <2>1 DEF SinceWritten, PodWrites
<1>2. CASE LogCopy
  <2>1. PICK p : p = Head(uncopied).pod
    OBVIOUS
  <2>2. since' = [since EXCEPT ![p] = lines[p]] /\ lines' = lines
    BY <1>2, <2>1 DEF LogCopy
  <2>3. \A q \in Pods : since'[q] = lines[q] \/ since'[q] = since[q]
    BY <1>0, <2>2
  <2>. QED  BY <1>0, <2>2, <2>3 DEF SinceWritten
<1>3. CASE Crash
  BY <1>0, <1>3 DEF SinceWritten, Crash
<1>4. CASE UNCHANGED <<lines, since>>
  BY <1>0, <1>4 DEF SinceWritten
<1>5. LogCopy \/ Crash \/ UNCHANGED <<lines, since>> \/ \E p \in DOMAIN phase : PodWrites(p)
  BY DEF Next, Kubernetes, Waiter, Logger, PodCreated, PodStarts, PodEnds, JobEnds, WaitList,
         WaitReport, WaitReported, WaitJob, WaitTick, WaitFails, WaitCanceled, WaitEnds, Collect,
         Settle, Record, Resume, FindPods, FindReport, RecoveryFails, LogList, LogListFails,
         LogReport, LogCopyFails, LogPassEnds, LogSelect, LogWait, Cancel
<1>. QED  BY <1>1, <1>2, <1>3, <1>4, <1>5

\* Attempts keep the order of the Pods, and none is dropped.
LEMMA AttemptsGrow ==
  ASSUME WatchAssumption, WatchInv, Next
  PROVE  /\ AttemptOrder' /\ Len(task.attempts) \in Nat /\ Len(task'.attempts) \in Nat
         /\ Len(task'.attempts) >= Len(task.attempts)
<1>. USE DEF kube, waiter, logger, others
<1>0. /\ task \in TaskRecord /\ Len(task.attempts) \in Nat
      /\ \A i \in DOMAIN task.attempts : task.attempts[i].pod = i
  BY LenProperties DEF WatchInv, TypeOK, AttemptOrder, TaskRecord
<1>1. ASSUME NEW q \in {unreported, uncopied}, q # <<>>, task' = Merge(task, Head(q))
      PROVE  /\ AttemptOrder' /\ Len(task'.attempts) \in Nat
             /\ Len(task'.attempts) >= Len(task.attempts)
  BY <1>1, HeadKnown DEF AttemptOrder
<1>2. CASE task'.attempts = task.attempts
  BY <1>0, <1>2 DEF AttemptOrder
<1>3. CASE Settle \/ Record
  <2>1. task'.attempts = task.attempts
    BY <1>0, <1>3 DEF Settle, Record, TaskRecord
  <2>. QED  BY <1>2, <2>1
<1>4. CASE WaitReport \/ FindReport \/ LogReport
  <2>1. \E q \in {unreported, uncopied} : q # <<>> /\ task' = Merge(task, Head(q))
    BY <1>4 DEF WaitReport, FindReport, LogReport
  <2>. QED  BY <1>0, <1>1, <2>1
<1>5. task' = task \/ Settle \/ Record \/ WaitReport \/ FindReport \/ LogReport
  BY DEF Next, Kubernetes, Waiter, Logger, PodCreated, PodStarts, PodEnds, PodWrites, JobEnds,
         WaitList, WaitReported, WaitJob, WaitTick, WaitFails, WaitCanceled, WaitEnds, Collect,
         Resume, FindPods, RecoveryFails, LogList, LogListFails, LogCopy, LogCopyFails,
         LogPassEnds, LogSelect, LogWait, Cancel, Crash
<1>. QED  BY <1>0, <1>2, <1>3, <1>4, <1>5

\* A list at work is a new one, or an old one, or an old one whose first Pod is reported.
LEMMA ListSources ==
  ASSUME WatchAssumption, WatchInv, Next, NEW q \in {unreported', uncopied'}
  PROVE  \/ q = Listing /\ phase' = phase
         \/ q = <<>>
         \/ q \in {unreported, uncopied}
         \/ \E old \in {unreported, uncopied} :
              old # <<>> /\ q = Tail(old) /\ old[1].pod <= Len(task'.attempts)
<1>. USE DEF kube, waiter, logger, others
<1>1. ASSUME NEW old \in {unreported, uncopied}, old # <<>>, task' = Merge(task, Head(old))
      PROVE  old[1].pod <= Len(task'.attempts)
  BY <1>1, HeadKnown DEF PodView, Pods
<1>2. CASE WaitReport \/ FindReport
  <2>1. unreported # <<>> /\ task' = Merge(task, Head(unreported)) /\ unreported' = Tail(unreported)
        /\ uncopied' = uncopied
    BY <1>2 DEF WaitReport, FindReport
  <2>. QED  BY <1>1, <2>1
<1>3. CASE LogReport
  <2>1. uncopied # <<>> /\ task' = Merge(task, Head(uncopied))
        /\ (uncopied' = Tail(uncopied) \/ uncopied' = uncopied) /\ unreported' = unreported
    BY <1>3 DEF LogReport
  <2>. QED  BY <1>1, <2>1
<1>4. CASE LogCopy \/ LogCopyFails
  <2>1. uncopied # <<>> /\ uncopied[1].pod <= Len(task.attempts) /\ task' = task
        /\ (uncopied' = Tail(uncopied) \/ uncopied' = uncopied) /\ unreported' = unreported
    BY <1>4 DEF WatchInv, CopiesReported, LogCopy, LogCopyFails
  <2>. QED  BY <2>1
<1>5. \/ WaitReport \/ FindReport \/ LogReport \/ LogCopy \/ LogCopyFails
      \/ /\ unreported' \in {unreported, <<>>} \/ (unreported' = Listing /\ phase' = phase)
         /\ uncopied' \in {uncopied, <<>>} \/ (uncopied' = Listing /\ phase' = phase)
  BY DEF Next, Kubernetes, Waiter, Logger, PodCreated, PodStarts, PodEnds, PodWrites, JobEnds,
         WaitList, WaitReported, WaitJob, WaitTick, WaitFails, WaitCanceled, WaitEnds, Collect,
         Settle, Record, Resume, FindPods, RecoveryFails, LogList, LogListFails,
         LogPassEnds, LogSelect, LogWait, Cancel, Crash
<1>. QED  BY <1>2, <1>3, <1>4, <1>5

\* Lists stay stretches of the Pods, the next of which is known.
LEMMA ListsKeepTurn ==
  ASSUME WatchAssumption, WatchInv, Next
  PROVE  ListsInTurn'
<1>. SUFFICES ASSUME NEW q \in {unreported', uncopied'}, NEW i \in DOMAIN q
              PROVE  /\ q[i].pod = q[1].pod + i - 1 /\ q[i].pod <= Len(phase')
                     /\ q[1].pod <= Len(task'.attempts) + 1
                     /\ i < Len(q) => q[i].phase = "failed"
  BY DEF ListsInTurn
<1>0. /\ Len(phase) \in Nat /\ Len(phase') \in Nat /\ Len(phase') >= Len(phase)
      /\ Len(task.attempts) \in Nat /\ Len(task'.attempts) \in Nat
      /\ Len(task'.attempts) >= Len(task.attempts)
  BY PodsKeepTurn, AttemptsGrow
<1>1. CASE q = Listing /\ phase' = phase
  <2>1. /\ DOMAIN q = 1..Len(phase) /\ Len(q) = Len(phase) /\ DOMAIN phase = 1..Len(phase)
        /\ \A p \in DOMAIN phase : q[p] = [pod |-> p, phase |-> phase[p]]
    BY <1>1, ListingType DEF WatchInv, TypeOK
  <2>2. q[i].pod = i /\ q[1].pod = 1 /\ q[i].phase = phase[i] /\ i \in 1..Len(phase)
    BY <1>0, <2>1
  <2>3. i < Len(phase) => phase[i] = "failed"
    BY <2>1, <2>2 DEF WatchInv, PodsInTurn
  <2>. QED  BY <1>0, <1>1, <2>1, <2>2, <2>3
<1>2. CASE q = <<>>
  BY <1>2
<1>3. CASE q \in {unreported, uncopied}
  <2>1. q \in Seq(PodView) /\ q # <<>>
    BY <1>3 DEF WatchInv, TypeOK
  <2>2. q[i].pod \in Nat /\ q[1].pod \in Nat
    <3>1. DOMAIN q = 1..Len(q) /\ Len(q) \in Nat /\ \A k \in DOMAIN q : q[k] \in PodView
      BY <2>1, LenProperties
    <3>2. q[i] \in PodView /\ q[1] \in PodView
      BY <3>1
    <3>. QED  BY <3>2 DEF PodView, Pods
  <2>3. /\ q[i].pod = q[1].pod + i - 1 /\ q[i].pod <= Len(phase)
        /\ q[1].pod <= Len(task.attempts) + 1 /\ (i < Len(q) => q[i].phase = "failed")
    BY <1>3 DEF WatchInv, ListsInTurn
  <2>. QED  BY <1>0, <2>2, <2>3
<1>4. ASSUME NEW old \in {unreported, uncopied}, old # <<>>, q = Tail(old),
             old[1].pod <= Len(task'.attempts)
      PROVE  /\ q[i].pod = q[1].pod + i - 1 /\ q[i].pod <= Len(phase')
             /\ q[1].pod <= Len(task'.attempts) + 1
             /\ i < Len(q) => q[i].phase = "failed"
  <2>1. old \in Seq(PodView)
    BY DEF WatchInv, TypeOK
  <2>2. /\ i \in Nat /\ i >= 1 /\ i + 1 \in DOMAIN old /\ q[i] = old[i + 1] /\ Len(q) = Len(old) - 1
        /\ old[1] \in PodView /\ Len(old) \in Nat /\ DOMAIN q = 1..(Len(old) - 1)
        /\ \A k \in DOMAIN q : k \in Nat /\ q[k] = old[k + 1] /\ k + 1 \in DOMAIN old
    BY <1>4, <2>1, RestOf
  <2>3. 1 \in DOMAIN q /\ q[1] = old[2] /\ 2 \in DOMAIN old
    BY <2>2
  <2>4. /\ old[i + 1].pod = old[1].pod + (i + 1) - 1 /\ old[i + 1].pod <= Len(phase)
        /\ i + 1 < Len(old) => old[i + 1].phase = "failed"
        /\ old[2].pod = old[1].pod + 2 - 1
    BY <2>2, <2>3 DEF WatchInv, ListsInTurn
  <2>5. old[1].pod \in Nat
    BY <2>2 DEF PodView, Pods
  <2>6. q[i].pod = old[1].pod + i /\ q[1].pod = old[1].pod + 1 /\ q[i].pod <= Len(phase)
    BY <2>2, <2>3, <2>4, <2>5
  <2>7. q[i].pod = q[1].pod + i - 1 /\ q[i].pod <= Len(phase') /\ q[1].pod <= Len(task'.attempts) + 1
    <3>1. i \in Nat
      BY <2>2
    <3>2. q[i].pod \in Nat /\ q[1].pod \in Nat
      BY <2>5, <2>6, <3>1
    <3>3. q[i].pod = q[1].pod + i - 1
      BY <2>5, <2>6, <3>1
    <3>4. q[i].pod <= Len(phase')
      BY <1>0, <2>6, <3>2
    <3>5. q[1].pod <= Len(task'.attempts) + 1
      BY <1>0, <1>4, <2>5, <2>6
    <3>. QED  BY <3>3, <3>4, <3>5
  <2>8. i < Len(q) => q[i].phase = "failed"
    BY <2>2, <2>4
  <2>. QED  BY <2>7, <2>8
<1>. QED  BY <1>1, <1>2, <1>3, <1>4, ListSources

\* What is copied is reported before.
LEMMA CopiesStayReported ==
  ASSUME WatchAssumption, WatchInv, Next
  PROVE  CopiesReported'
<1>. USE DEF kube, waiter, logger, others
<1>0. Len(task.attempts) \in Nat /\ Len(task'.attempts) \in Nat
      /\ Len(task'.attempts) >= Len(task.attempts)
  BY AttemptsGrow
<1>1. CASE LogReport
  <2>1. uncopied # <<>> /\ task' = Merge(task, uncopied[1])
    BY <1>1, HeadKnown DEF LogReport
  <2>2. uncopied[1].pod <= Len(task'.attempts)
    BY <2>1, HeadKnown DEF PodView, Pods
  <2>. QED  BY <1>1, <2>1, <2>2 DEF LogReport, CopiesReported
<1>2. CASE UNCHANGED <<lpc, uncopied>>
  <2>1. lpc = "copy" => uncopied # <<>> /\ uncopied[1].pod <= Len(task.attempts)
    BY DEF WatchInv, CopiesReported
  <2>2. uncopied # <<>> => uncopied[1].pod \in Nat
    BY HeadKnown DEF Pods
  <2>. QED  BY <1>0, <1>2, <2>1, <2>2 DEF CopiesReported
<1>3. LogReport \/ UNCHANGED <<lpc, uncopied>> \/ lpc' # "copy"
  BY DEF Next, Kubernetes, Waiter, Logger, PodCreated, PodStarts, PodEnds, PodWrites, JobEnds,
         WaitList, WaitReport, WaitReported, WaitJob, WaitTick, WaitFails, WaitCanceled, WaitEnds,
         Collect, Settle, Record, Resume, FindPods, FindReport, RecoveryFails, LogList,
         LogListFails, LogCopy, LogCopyFails, LogPassEnds, LogSelect, LogWait, Cancel, Crash
<1>. QED  BY <1>1, <1>2, <1>3 DEF CopiesReported

-----------------------------------------------------------------------------
(* The end of the task. *)

\* The log goroutine is over when the task goes on without having given it up.
LEMMA LoggerStaysOver ==
  ASSUME WatchAssumption, WatchInv, Next
  PROVE  LoggerOver'
<1>. USE DEF kube, waiter, logger, others
<1>0. LoggerOver /\ late \in BOOLEAN
  BY DEF WatchInv, TypeOK
<1>1. CASE Kubernetes
  BY <1>0, <1>1 DEF LoggerOver, Kubernetes, PodCreated, PodStarts, PodEnds, PodWrites, JobEnds
<1>2. CASE WaitList \/ WaitReport \/ WaitReported \/ WaitJob \/ WaitTick \/ WaitFails \/ WaitCanceled
  BY <1>0, <1>2 DEF LoggerOver, WaitList, WaitReport, WaitReported, WaitJob, WaitTick, WaitFails,
     WaitCanceled, WaitEnds
<1>3. CASE Collect \/ Settle \/ Record
  BY <1>0, <1>3 DEF LoggerOver, Collect, Settle, Record
<1>4. CASE Resume \/ FindPods \/ FindReport \/ RecoveryFails
  BY <1>0, <1>4 DEF LoggerOver, Resume, FindPods, FindReport, RecoveryFails
<1>5. CASE Logger
  <2>1. lpc \notin {"done", "off"} /\ pc' = pc /\ late' = late
    BY <1>5 DEF Logger, LogList, LogListFails, LogReport, LogCopy, LogCopyFails, LogPassEnds,
       LogSelect, LogWait
  <2>. QED  BY <1>0, <2>1 DEF LoggerOver
<1>6. CASE Cancel \/ Crash
  BY <1>0, <1>6 DEF LoggerOver, Cancel, Crash
<1>. QED  BY <1>1, <1>2, <1>3, <1>4, <1>5, <1>6 DEF Next, Waiter

\* The PodStatus of an ended task stays as it was recorded.
LEMMA StatusStaysSettled ==
  ASSUME WatchAssumption, WatchInv, Next
  PROVE  PodStatusSettled'
<1>. USE DEF kube, waiter, logger, others
<1>0. LoggerOver /\ PodStatusSettled /\ task \in TaskRecord
  BY DEF WatchInv, TypeOK
<1>1. CASE Record
  <2>1. /\ task'.status = IF canceled THEN "cancelled" ELSE IF result = "succeeded" THEN result ELSE "failed"
        /\ task'.podStatus = IF canceled THEN "terminating" ELSE IF result = "succeeded" THEN result ELSE "failed"
    BY <1>0, <1>1 DEF Record, TaskRecord
  <2>. QED  BY <2>1 DEF PodStatusSettled
<1>2. CASE LogReport
  BY <1>0, <1>2 DEF LoggerOver, PodStatusSettled, LogReport
<1>3. CASE UNCHANGED <<pc, late, task>>
  BY <1>0, <1>3 DEF PodStatusSettled
<1>4. Record \/ LogReport \/ UNCHANGED <<pc, late, task>> \/ pc' # "ended"
  BY DEF Next, Kubernetes, Waiter, Logger, PodCreated, PodStarts, PodEnds, PodWrites, JobEnds,
         WaitList, WaitReport, WaitReported, WaitJob, WaitTick, WaitFails, WaitCanceled, WaitEnds,
         Collect, Settle, Resume, FindPods, FindReport, RecoveryFails, LogList, LogListFails,
         LogCopy, LogCopyFails, LogPassEnds, LogSelect, LogWait, Cancel, Crash
<1>. QED  BY <1>1, <1>2, <1>3, <1>4 DEF PodStatusSettled

-----------------------------------------------------------------------------
(* The log. *)

\* The entries of the log are those of Pods.
LEMMA EntryTypes ==
  ASSUME WatchAssumption, WatchInv
  PROVE  /\ Len(log) \in Nat /\ DOMAIN log = 1..Len(log) /\ Pods \subseteq Nat
         /\ \A i \in DOMAIN log : /\ i \in Nat /\ log[i] = <<log[i][1], log[i][2]>>
                                  /\ log[i][1] \in Pods /\ log[i][1] \in Nat /\ log[i][2] \in Nat
         /\ \A p \in Pods : lines[p] \in Nat /\ since[p] \in Nat /\ since[p] <= lines[p]
<1>1. log \in Seq(Pods \X (0..MaxLines)) /\ MaxLines \in Nat
      /\ lines \in [Pods -> 0..MaxLines] /\ since \in [Pods -> 0..MaxLines] /\ SinceWritten
  BY DEF WatchInv, TypeOK, WatchAssumption
<1>2. DOMAIN log = 1..Len(log) /\ Len(log) \in Nat
      /\ \A i \in DOMAIN log : log[i] \in Pods \X (0..MaxLines)
  BY <1>1, LenProperties
<1>3. Pods \subseteq Nat
  BY DEF Pods
<1>4. ASSUME NEW e \in Pods \X (0..MaxLines)
      PROVE  e = <<e[1], e[2]>> /\ e[1] \in Pods /\ e[2] \in Nat
  BY <1>1
<1>5. \A i \in DOMAIN log : /\ i \in Nat /\ log[i] = <<log[i][1], log[i][2]>>
                            /\ log[i][1] \in Pods /\ log[i][1] \in Nat /\ log[i][2] \in Nat
  <2>. SUFFICES ASSUME NEW i \in DOMAIN log
                PROVE  /\ i \in Nat /\ log[i] = <<log[i][1], log[i][2]>>
                       /\ log[i][1] \in Pods /\ log[i][1] \in Nat /\ log[i][2] \in Nat
    OBVIOUS
  <2>1. log[i] \in Pods \X (0..MaxLines) /\ i \in Nat
    BY <1>2
  <2>2. log[i] = <<log[i][1], log[i][2]>> /\ log[i][1] \in Pods /\ log[i][2] \in Nat
    BY <1>4, <2>1
  <2>. QED  BY <1>3, <2>1, <2>2
<1>6. \A p \in Pods : lines[p] \in Nat /\ since[p] \in Nat /\ since[p] <= lines[p]
  BY <1>1 DEF SinceWritten
<1>. QED  BY <1>2, <1>3, <1>5, <1>6

\* Nothing is taken out of the log.
LEMMA LogGrows ==
  ASSUME WatchAssumption, WatchInv, Next
  PROVE  /\ \A i \in DOMAIN log : i \in DOMAIN log' /\ log'[i] = log[i]
         /\ \A p : HasHeader(p) => HasHeader(p)'
<1>. USE DEF kube, waiter, logger, others
<1>0. /\ log \in Seq(Pods \X (0..MaxLines)) /\ DOMAIN log = 1..Len(log) /\ Len(log) \in Nat
  BY LenProperties DEF WatchInv, TypeOK
<1>1. CASE LogReport
  <2>1. PICK p \in Pods : p = Head(uncopied).pod
    BY <1>1, HeadKnown DEF LogReport
  <2>2. log' = WithHeader(p) /\ <<p, 0>> \in Pods \X (0..MaxLines)
    BY <1>1, <2>1 DEF LogReport, WatchAssumption
  <2>3. CASE HasHeader(p)
    <3>1. log' = log
      BY <1>0, <2>2, <2>3, HeaderWritten
    <3>. QED  BY <3>1 DEF HasHeader
  <2>4. CASE ~HasHeader(p)
    <3>1. /\ DOMAIN log' = 1..(Len(log) + 1) /\ \A i \in DOMAIN log : log'[i] = log[i]
      BY <1>0, <2>2, <2>4, HeaderWritten
    <3>2. \A i \in DOMAIN log : i \in DOMAIN log' /\ log'[i] = log[i]
      BY <1>0, <3>1
    <3>. QED  BY <3>2 DEF HasHeader
  <2>. QED  BY <2>3, <2>4
<1>2. CASE LogCopy
  <2>1. uncopied # <<>>
    BY <1>2 DEF WatchInv, CopiesReported, LogCopy
  <2>2. PICK p \in Pods : p = Head(uncopied).pod
    BY <2>1, HeadKnown
  <2>3. log' = log \o NewLines(p) /\ NewLines(p) \in Seq(Pods \X (0..MaxLines)) /\ Len(NewLines(p)) \in Nat
    BY <1>2, <2>2, LinesCopied DEF LogCopy
  <2>4. Len(log') = Len(log) + Len(NewLines(p)) /\ log' \in Seq(Pods \X (0..MaxLines))
        /\ \A i \in 1..(Len(log) + Len(NewLines(p))) :
             log'[i] = IF i <= Len(log) THEN log[i] ELSE NewLines(p)[i - Len(log)]
    BY <1>0, <2>3, ConcatProperties
  <2>5. DOMAIN log' = 1..(Len(log) + Len(NewLines(p)))
    BY <2>4, LenProperties
  <2>6. \A i \in DOMAIN log : i \in DOMAIN log' /\ log'[i] = log[i]
    BY <1>0, <2>3, <2>4, <2>5
  <2>. QED  BY <2>6 DEF HasHeader
<1>3. CASE log' = log
  BY <1>3 DEF HasHeader
<1>4. LogReport \/ LogCopy \/ log' = log
  BY DEF Next, Kubernetes, Waiter, Logger, PodCreated, PodStarts, PodEnds, PodWrites, JobEnds,
         WaitList, WaitReport, WaitReported, WaitJob, WaitTick, WaitFails, WaitCanceled, WaitEnds,
         Collect, Settle, Record, Resume, FindPods, FindReport, RecoveryFails, LogList,
         LogListFails, LogCopyFails, LogPassEnds, LogSelect, LogWait, Cancel, Crash
<1>. QED  BY <1>1, <1>2, <1>3, <1>4

\* Without a failed request or a restart, copying that has stopped has stopped for good.
LEMMA StopsForGood ==
  ASSUME WatchAssumption, WatchInv, Next, errors' = 0, crashes' = 0
  PROVE  /\ errors = 0 /\ crashes = 0 /\ ~Crash
         /\ pc' \notin {"off", "find", "recover", "capture"}
         /\ LogStopped => LogStopped'
<1>. USE DEF kube, waiter, logger, others
<1>0. errors \in Nat /\ crashes \in Nat
  BY DEF WatchInv, TypeOK
<1>1. errors' = errors \/ errors' = errors + 1
  BY DEF Next, Kubernetes, Waiter, Logger, PodCreated, PodStarts, PodEnds, PodWrites, JobEnds,
         WaitList, WaitReport, WaitReported, WaitJob, WaitTick, WaitFails, WaitCanceled, WaitEnds,
         Collect, Settle, Record, Resume, FindPods, FindReport, RecoveryFails, LogList,
         LogListFails, LogReport, LogCopy, LogCopyFails, LogPassEnds, LogSelect, LogWait, Cancel,
         Crash, Request
<1>2. ~Crash
  BY <1>0 DEF Crash
<1>3. crashes' = crashes
  BY <1>2 DEF Next, Kubernetes, Waiter, Logger, PodCreated, PodStarts, PodEnds, PodWrites, JobEnds,
         WaitList, WaitReport, WaitReported, WaitJob, WaitTick, WaitFails, WaitCanceled, WaitEnds,
         Collect, Settle, Record, Resume, FindPods, FindReport, RecoveryFails, LogList,
         LogListFails, LogReport, LogCopy, LogCopyFails, LogPassEnds, LogSelect, LogWait, Cancel
<1>4. errors = 0 /\ crashes = 0
  BY <1>0, <1>1, <1>3
<1>5. pc \notin {"off", "find", "recover", "capture"}
  BY <1>4 DEF WatchInv, LogInv
<1>6. pc' \notin {"off", "find", "recover", "capture"} /\ (LogStopped => LogStopped')
  <2>1. CASE Waiter
    BY <1>5, <2>1 DEF Waiter, WaitList, WaitReport, WaitReported, WaitJob, WaitTick, WaitFails,
       WaitCanceled, WaitEnds, Collect, Settle, Record, Resume, FindPods, FindReport,
       RecoveryFails, LogStopped
  <2>2. CASE pc' = pc /\ (canceled' = canceled \/ canceled' = TRUE)
    BY <1>5, <2>2 DEF LogStopped
  <2>3. Waiter \/ (pc' = pc /\ (canceled' = canceled \/ canceled' = TRUE))
    BY <1>2 DEF Next, Kubernetes, Logger, PodCreated, PodStarts, PodEnds, PodWrites, JobEnds,
       LogList, LogListFails, LogReport, LogCopy, LogCopyFails, LogPassEnds, LogSelect, LogWait, Cancel
  <2>. QED  BY <2>1, <2>2, <2>3
<1>. QED  BY <1>2, <1>4, <1>6

\* A Pod that nothing more can come of stays so.
LEMMA FinishedStays ==
  ASSUME WatchAssumption, WatchInv, Next, errors' = 0, crashes' = 0,
         NEW p \in Pods, Finished(p)
  PROVE  Finished(p)'
<1>. USE DEF kube, waiter, logger, others
<1>1. CASE LogStopped
  BY <1>1, StopsForGood DEF Finished
<1>2. CASE p < Len(phase) /\ since[p] = lines[p]
  <2>1. p \in Nat /\ p >= 1 /\ Len(phase) \in Nat /\ Len(phase') \in Nat /\ Len(phase') >= Len(phase)
        /\ DOMAIN phase = 1..Len(phase)
    BY PodsKeepTurn, LenProperties DEF Pods, WatchInv, TypeOK
  <2>2. p < Len(phase') /\ p \in DOMAIN phase
    BY <1>2, <2>1
  <2>3. phase[p] = "failed"
    BY <1>2, <2>2 DEF WatchInv, PodsInTurn
  <2>4. lines'[p] = lines[p]
    <3>1. lines \in [Pods -> 0..MaxLines]
      BY DEF WatchInv, TypeOK
    <3>2. ASSUME NEW q \in DOMAIN phase, PodWrites(q) PROVE lines'[p] = lines[p]
      BY <2>3, <3>1, <3>2 DEF PodWrites
    <3>3. lines' = lines \/ \E q \in DOMAIN phase : PodWrites(q)
      BY DEF Next, Kubernetes, Waiter, Logger, PodCreated, PodStarts, PodEnds, JobEnds, WaitList,
         WaitReport, WaitReported, WaitJob, WaitTick, WaitFails, WaitCanceled, WaitEnds, Collect,
         Settle, Record, Resume, FindPods, FindReport, RecoveryFails, LogList, LogListFails,
         LogReport, LogCopy, LogCopyFails, LogPassEnds, LogSelect, LogWait, Cancel, Crash
    <3>. QED  BY <3>2, <3>3
  <2>5. since'[p] = since[p] \/ since'[p] = lines[p]
    <3>1. since \in [Pods -> 0..MaxLines]
      BY DEF WatchInv, TypeOK
    <3>2. CASE LogCopy
      <4>1. PICK h : h = Head(uncopied).pod
        OBVIOUS
      <4>2. since' = [since EXCEPT ![h] = lines[h]]
        BY <3>2, <4>1 DEF LogCopy
      <4>. QED  BY <3>1, <4>2
    <3>3. since' = since \/ LogCopy
      BY StopsForGood DEF Next, Kubernetes, Waiter, Logger, PodCreated, PodStarts, PodEnds, PodWrites,
         JobEnds, WaitList, WaitReport, WaitReported, WaitJob, WaitTick, WaitFails, WaitCanceled,
         WaitEnds, Collect, Settle, Record, Resume, FindPods, FindReport, RecoveryFails, LogList,
         LogListFails, LogReport, LogCopyFails, LogPassEnds, LogSelect, LogWait, Cancel
    <3>. QED  BY <3>2, <3>3
  <2>. QED  BY <1>2, <2>2, <2>4, <2>5 DEF Finished
<1>. QED  BY <1>1, <1>2 DEF Finished

\* The header of the Pod a pass comes to is not preceded by anything of it or of a later Pod.
LEMMA HeaderComesFirst ==
  ASSUME WatchAssumption, WatchInv, errors = 0, crashes = 0, NEW h \in Pods, ~HasHeader(h),
         NEW i \in DOMAIN log
  PROVE  log[i][1] < h
<1>1. log[i][1] \in Nat /\ h \in Nat /\ \A p \in Pods : p <= log[i][1] => HasHeader(p)
  BY EntryTypes DEF WatchInv, LogInv, EntriesInTurn
<1>2. ~(h <= log[i][1])
  BY <1>1
<1>. QED  BY <1>1, <1>2

\* A pass that reports a Pod writes its header in its place.
LEMMA ReportInTurn ==
  ASSUME WatchAssumption, WatchInv, Next, errors' = 0, crashes' = 0, LogReport
  PROVE  EntriesInTurn' /\ PassInTurn' /\ LogInOrder'
<1>. USE DEF kube, waiter, logger, others
<1>0. errors = 0 /\ crashes = 0 /\ EntriesInTurn /\ PassInTurn /\ LogInOrder
  BY StopsForGood DEF WatchInv, LogInv
<1>1. PICK h \in Pods : h = Head(uncopied).pod /\ h = uncopied[1].pod
  BY HeadKnown DEF LogReport
<1>2. /\ uncopied # <<>> /\ lpc = "pods" /\ log' = WithHeader(h) /\ since' = since
      /\ IF Head(uncopied).phase = "pending" THEN uncopied' = Tail(uncopied)
         ELSE lpc' = "copy" /\ uncopied' = uncopied
      /\ <<h, 0>> \in Pods \X (0..MaxLines)
  BY <1>1 DEF LogReport, WatchAssumption
<1>3. \A p \in Pods : /\ HasHeader(p) => HasHeader(p)'
                      /\ Finished(p) => Finished(p)'
                      /\ p < h => HasHeader(p) /\ Finished(p)
  BY <1>0, <1>1, <1>2, LogGrows, FinishedStays DEF PassInTurn
<1>4. /\ log \in Seq(Pods \X (0..MaxLines)) /\ Len(log) \in Nat /\ DOMAIN log = 1..Len(log)
      /\ \A i \in DOMAIN log : log[i][1] \in Pods /\ log[i][1] \in Nat /\ log[i][2] \in Nat /\ i \in Nat
      /\ Pods \subseteq Nat /\ \A p \in Pods : since[p] \in Nat
  BY EntryTypes DEF WatchInv, TypeOK
<1>5. HasHeader(h)'
  <2>1. CASE HasHeader(h)
    BY <1>3, <2>1
  <2>2. CASE ~HasHeader(h)
    <3>1. Len(log) + 1 \in DOMAIN log' /\ log'[Len(log) + 1] = <<h, 0>>
      BY <1>2, <1>4, <2>2, HeaderWritten
    <3>. QED  BY <3>1 DEF HasHeader
  <2>. QED  BY <2>1, <2>2
<1>6. EntriesInTurn' /\ LogInOrder'
  <2>1. CASE HasHeader(h)
    <3>1. log' = log
      BY <1>2, <1>4, <2>1, HeaderWritten
    <3>2. EntriesInTurn'
      BY <1>0, <1>2, <1>3, <1>4, <3>1 DEF EntriesInTurn
    <3>. QED  BY <1>0, <3>1, <3>2 DEF LogInOrder
  <2>2. CASE ~HasHeader(h)
    <3>1. /\ DOMAIN log' = 1..(Len(log) + 1) /\ log'[Len(log) + 1] = <<h, 0>>
          /\ \A i \in DOMAIN log : log'[i] = log[i]
      BY <1>2, <1>4, <2>2, HeaderWritten
    <3>2. EntriesInTurn'
      <4>. SUFFICES ASSUME NEW i \in DOMAIN log'
                    PROVE  /\ log'[i][2] <= since'[log'[i][1]]
                           /\ \A p \in Pods : p <= log'[i][1] => HasHeader(p)'
                           /\ \A p \in Pods : p < log'[i][1] => Finished(p)'
        BY DEF EntriesInTurn
      <4>1. CASE i \in DOMAIN log
        BY <1>0, <1>2, <1>3, <3>1, <4>1 DEF EntriesInTurn
      <4>2. CASE i = Len(log) + 1
        <5>1. log'[i][1] = h /\ log'[i][2] = 0
          BY <3>1, <4>2
        <5>2. \A p \in Pods : p <= h => p < h \/ p = h
          BY <1>4
        <5>. QED  BY <1>2, <1>3, <1>4, <1>5, <5>1, <5>2
      <4>. QED  BY <1>4, <3>1, <4>1, <4>2
    <3>3. LogInOrder'
      <4>. SUFFICES ASSUME NEW i \in DOMAIN log', NEW j \in DOMAIN log', i < j
                    PROVE  \/ log'[i][1] < log'[j][1]
                           \/ log'[i][1] = log'[j][1] /\ log'[i][2] < log'[j][2]
        BY DEF LogInOrder
      <4>1. i \in DOMAIN log
        BY <1>4, <3>1
      <4>2. CASE j \in DOMAIN log
        BY <1>0, <3>1, <4>1, <4>2 DEF LogInOrder
      <4>3. CASE j = Len(log) + 1
        <5>1. log[i][1] < h
          BY <1>0, <2>2, <4>1, HeaderComesFirst
        <5>. QED  BY <3>1, <4>1, <4>3, <5>1
      <4>. QED  BY <1>4, <3>1, <4>2, <4>3
    <3>. QED  BY <3>2, <3>3
  <2>. QED  BY <2>1, <2>2
<1>7. PassInTurn'
  <2>1. CASE uncopied' = uncopied
    BY <1>1, <1>3, <1>5, <2>1 DEF PassInTurn
  <2>2. CASE uncopied' # uncopied
    <3>1. Head(uncopied).phase = "pending" /\ uncopied' = Tail(uncopied)
      BY <1>2, <2>2
    <3>2. uncopied \in Seq(PodView)
      BY DEF WatchInv, TypeOK
    <3>3. /\ 1 \in DOMAIN uncopied /\ Len(uncopied) \in Nat /\ Len(uncopied) >= 1 /\ Head(uncopied) = uncopied[1]
          /\ Tail(uncopied) \in Seq(PodView) /\ Len(Tail(uncopied)) = Len(uncopied) - 1
      BY <1>2, <3>2, RestOf
    <3>4. 1 < Len(uncopied) => uncopied[1].phase = "failed"
      BY <3>3 DEF WatchInv, ListsInTurn
    <3>5. Len(Tail(uncopied)) = 0
      BY <3>1, <3>3, <3>4
    <3>6. uncopied' = <<>>
      BY <3>1, <3>3, <3>5, EmptySeq
    <3>. QED  BY <3>6 DEF PassInTurn
  <2>. QED  BY <2>1, <2>2
<1>. QED  BY <1>6, <1>7

\* The next Pod of a pass comes right after the one the pass is done with.
LEMMA NextPod ==
  ASSUME WatchAssumption, WatchInv, uncopied # <<>>, Tail(uncopied) # <<>>
  PROVE  /\ Tail(uncopied)[1].pod = uncopied[1].pod + 1
         /\ uncopied[1].pod \in Pods /\ uncopied[1].pod \in Nat
         /\ uncopied[1].pod < Len(phase)
<1>1. uncopied \in Seq(PodView)
  BY DEF WatchInv, TypeOK
<1>2. Tail(uncopied) \in Seq(PodView) /\ DOMAIN Tail(uncopied) = 1..(Len(uncopied) - 1)
      /\ Len(Tail(uncopied)) = Len(uncopied) - 1 /\ Len(uncopied) \in Nat
      /\ \A i \in DOMAIN Tail(uncopied) : Tail(uncopied)[i] = uncopied[i + 1] /\ i + 1 \in DOMAIN uncopied
  BY <1>1, RestOf
<1>3. Len(uncopied) - 1 # 0
  BY <1>2, EmptySeq
<1>4. 1 \in DOMAIN Tail(uncopied) /\ 2 \in DOMAIN uncopied /\ Tail(uncopied)[1] = uncopied[2]
  BY <1>2, <1>3
<1>5. uncopied[2].pod = uncopied[1].pod + 2 - 1 /\ uncopied[2].pod <= Len(phase)
  BY <1>4 DEF WatchInv, ListsInTurn
<1>6. uncopied[1].pod \in Pods /\ Pods \subseteq Nat /\ Len(phase) \in Nat
  <2>1. phase \in Seq(Phases)
    BY DEF WatchInv, TypeOK
  <2>2. Len(phase) \in Nat
    BY <2>1, LenProperties
  <2>. QED  BY <2>2, HeadKnown DEF Pods
<1>7. uncopied[1].pod \in Nat
  BY <1>6
<1>8. uncopied[2].pod = uncopied[1].pod + 1 /\ uncopied[1].pod < Len(phase)
  BY <1>5, <1>6, <1>7
<1>. QED  BY <1>4, <1>6, <1>7, <1>8

\* A pass that copies a Pod appends the lines it has not copied, to the end of the log.
LEMMA CopyInTurn ==
  ASSUME WatchAssumption, WatchInv, Next, errors' = 0, crashes' = 0, LogCopy
  PROVE  EntriesInTurn' /\ PassInTurn' /\ LogInOrder'
<1>. USE DEF kube, waiter, logger, others
<1>0. errors = 0 /\ crashes = 0 /\ EntriesInTurn /\ PassInTurn /\ LogInOrder
  BY StopsForGood DEF WatchInv, LogInv
<1>a. uncopied # <<>>
  BY DEF LogCopy, WatchInv, CopiesReported
<1>1. PICK h \in Pods : h = Head(uncopied).pod /\ h = uncopied[1].pod
  BY <1>a, HeadKnown
<1>2. /\ lpc = "copy" /\ ~LogStopped /\ lines' = lines
      /\ log' = log \o NewLines(h) /\ since' = [since EXCEPT ![h] = lines[h]]
      /\ uncopied' = Tail(uncopied) /\ lpc' = "pods"
  BY <1>1 DEF LogCopy
<1>3. \A p \in Pods : /\ HasHeader(p) => HasHeader(p)'
                      /\ Finished(p) => Finished(p)'
                      /\ p < h => HasHeader(p) /\ Finished(p)
  BY <1>0, <1>1, <1>2, <1>a, LogGrows, FinishedStays DEF PassInTurn
<1>3a. HasHeader(h)
  BY <1>0, <1>1, <1>2, <1>a DEF PassInTurn
<1>4. /\ log \in Seq(Pods \X (0..MaxLines)) /\ Len(log) \in Nat /\ DOMAIN log = 1..Len(log)
      /\ \A i \in DOMAIN log : log[i][1] \in Pods /\ log[i][1] \in Nat /\ log[i][2] \in Nat /\ i \in Nat
      /\ Pods \subseteq Nat
      /\ \A p \in Pods : since[p] \in Nat /\ lines[p] \in Nat /\ since[p] <= lines[p]
      /\ since \in [Pods -> 0..MaxLines]
  BY EntryTypes DEF WatchInv, TypeOK
<1>. DEFINE n == Len(log)
            k == lines[h] - since[h]
<1>5. /\ k \in Nat /\ NewLines(h) \in Seq(Pods \X (0..MaxLines)) /\ Len(NewLines(h)) = k
      /\ \A i \in 1..k : NewLines(h)[i] = <<h, since[h] + i>>
  BY LinesCopied
<1>6. /\ DOMAIN log' = 1..(n + k)
      /\ \A i \in 1..(n + k) : log'[i] = IF i <= n THEN log[i] ELSE NewLines(h)[i - n]
  <2>1. /\ log' \in Seq(Pods \X (0..MaxLines)) /\ Len(log') = n + k
        /\ \A i \in 1..(n + k) : log'[i] = IF i <= n THEN log[i] ELSE NewLines(h)[i - n]
    BY <1>2, <1>4, <1>5, ConcatProperties
  <2>. QED  BY <2>1, LenProperties
<1>7. \A i \in DOMAIN log : i \in DOMAIN log' /\ log'[i] = log[i]
  BY LogGrows
<1>8. ASSUME NEW i \in DOMAIN log', i \notin DOMAIN log
      PROVE  /\ i \in Nat /\ i > n /\ k # 0
             /\ log'[i][1] = h /\ log'[i][2] = since[h] + (i - n)
             /\ since[h] + (i - n) > since[h] /\ since[h] + (i - n) <= lines[h]
  <2>1. i \in Nat /\ i > n /\ i - n \in 1..k /\ i \in 1..(n + k)
    BY <1>4, <1>5, <1>6, <1>8
  <2>2. log'[i] = <<h, since[h] + (i - n)>>
    <3>1. log'[i] = NewLines(h)[i - n]
      BY <1>4, <1>6, <2>1
    <3>. QED  BY <1>5, <2>1, <3>1
  <2>3. since[h] \in Nat /\ lines[h] \in Nat
    BY <1>4
  <2>4. i - n \in Nat /\ i - n >= 1 /\ i - n <= lines[h] - since[h] /\ k # 0
    BY <1>4, <1>5, <2>1
  <2>. QED  BY <2>1, <2>2, <2>3, <2>4
<1>9. \A p \in Pods : since'[p] = (IF p = h THEN lines[h] ELSE since[p]) /\ since'[p] >= since[p]
  BY <1>2, <1>4
<1>10. EntriesInTurn'
  <2>. SUFFICES ASSUME NEW i \in DOMAIN log'
                PROVE  /\ log'[i][2] <= since'[log'[i][1]]
                       /\ \A p \in Pods : p <= log'[i][1] => HasHeader(p)'
                       /\ \A p \in Pods : p < log'[i][1] => Finished(p)'
    BY DEF EntriesInTurn
  <2>1. CASE i \in DOMAIN log
    <3>1. log'[i] = log[i] /\ log[i][1] \in Pods /\ log[i][2] \in Nat
      BY <1>4, <1>7, <2>1
    <3>2. /\ log[i][2] <= since[log[i][1]]
          /\ \A p \in Pods : p <= log[i][1] => HasHeader(p)
          /\ \A p \in Pods : p < log[i][1] => Finished(p)
      BY <1>0, <2>1 DEF EntriesInTurn
    <3>3. since[log[i][1]] \in Nat /\ since'[log[i][1]] \in Nat /\ since'[log[i][1]] >= since[log[i][1]]
      BY <1>4, <1>9, <3>1
    <3>4. log[i][2] <= since'[log[i][1]]
      BY <3>1, <3>2, <3>3
    <3>. QED  BY <1>3, <3>1, <3>2, <3>4
  <2>2. CASE i \notin DOMAIN log
    <3>1. log'[i][1] = h /\ log'[i][2] <= lines[h] /\ since'[h] = lines[h]
      BY <1>8, <1>9, <2>2
    <3>2. \A p \in Pods : p <= h => p < h \/ p = h
      BY <1>4
    <3>. QED  BY <1>3, <1>3a, <3>1, <3>2
  <2>. QED  BY <2>1, <2>2
<1>11. LogInOrder'
  <2>. SUFFICES ASSUME NEW i \in DOMAIN log', NEW j \in DOMAIN log', i < j
                PROVE  \/ log'[i][1] < log'[j][1]
                       \/ log'[i][1] = log'[j][1] /\ log'[i][2] < log'[j][2]
    BY DEF LogInOrder
  <2>1. CASE j \in DOMAIN log
    <3>1. i \in DOMAIN log
      BY <1>4, <1>6, <1>5, <2>1
    <3>. QED  BY <1>0, <1>7, <2>1, <3>1 DEF LogInOrder
  <2>2. CASE j \notin DOMAIN log /\ i \notin DOMAIN log
    <3>1. log'[i][1] = h /\ log'[j][1] = h /\ log'[i][2] = since[h] + (i - n)
          /\ log'[j][2] = since[h] + (j - n) /\ i \in Nat /\ j \in Nat
      BY <1>8, <2>2
    <3>2. since[h] \in Nat /\ n \in Nat
      BY <1>4
    <3>3. since[h] + (i - n) < since[h] + (j - n)
      BY <3>1, <3>2
    <3>. QED  BY <3>1, <3>3
  <2>3. CASE j \notin DOMAIN log /\ i \in DOMAIN log
    <3>1. log'[j][1] = h /\ log'[j][2] > since[h] /\ k # 0 /\ log'[j][2] = since[h] + (j - n) /\ j \in Nat
      BY <1>8, <2>3
    <3>2. log'[i] = log[i] /\ log[i][1] \in Nat /\ log[i][2] \in Nat /\ h \in Nat /\ since[h] \in Nat
          /\ lines[h] \in Nat /\ n \in Nat
      BY <1>4, <1>7, <2>3
    <3>3. log[i][2] <= since[log[i][1]] /\ (h < log[i][1] => Finished(h))
      BY <1>0, <2>3 DEF EntriesInTurn
    <3>4. ~(h < log[i][1])
      <4>1. ~Finished(h)
        BY <1>2, <3>1, <3>2 DEF Finished
      <4>. QED  BY <3>3, <4>1
    <3>5. CASE log[i][1] < h
      BY <3>1, <3>2, <3>5
    <3>6. CASE log[i][1] = h
      <4>1. log[i][2] <= since[h]
        BY <3>3, <3>6
      <4>2. log[i][2] < log'[j][2]
        BY <3>1, <3>2, <4>1
      <4>. QED  BY <3>1, <3>2, <3>6, <4>2
    <3>. QED  BY <3>2, <3>4, <3>5, <3>6
  <2>. QED  BY <2>1, <2>2, <2>3
<1>12. PassInTurn'
  <2>. SUFFICES ASSUME Tail(uncopied) # <<>>, NEW p \in Pods, p < Tail(uncopied)[1].pod
                PROVE  HasHeader(p)' /\ Finished(p)'
    BY <1>2 DEF PassInTurn
  <2>1. Tail(uncopied)[1].pod = h + 1 /\ h < Len(phase) /\ h \in Nat
    BY <1>1, <1>a, NextPod
  <2>2. CASE p < h
    BY <1>3, <2>2
  <2>3. CASE p = h
    <3>1. h < Len(phase') /\ since'[h] = lines'[h]
      <4>1. Len(phase') >= Len(phase) /\ Len(phase') \in Nat /\ Len(phase) \in Nat
        BY PodsKeepTurn
      <4>. QED  BY <1>2, <1>9, <2>1, <4>1
    <3>2. Finished(p)'
      BY <2>3, <3>1 DEF Finished
    <3>. QED  BY <1>3, <1>3a, <2>3, <3>2
  <2>4. p < h \/ p = h
    BY <1>4, <2>1
  <2>. QED  BY <2>2, <2>3, <2>4
<1>. QED  BY <1>10, <1>11, <1>12

\* Nothing else writes the log; a pass begins, ends, or goes on to the next Pod because
\* copying has stopped.
LEMMA OthersKeepLog ==
  ASSUME WatchAssumption, WatchInv, Next, errors' = 0, crashes' = 0, ~LogReport, ~LogCopy
  PROVE  EntriesInTurn' /\ PassInTurn' /\ LogInOrder'
<1>. USE DEF kube, waiter, logger, others
<1>0. errors = 0 /\ crashes = 0 /\ EntriesInTurn /\ PassInTurn /\ LogInOrder /\ ~Crash
  BY StopsForGood DEF WatchInv, LogInv
<1>1. log' = log /\ since' = since
  BY <1>0 DEF Next, Kubernetes, Waiter, Logger, PodCreated, PodStarts, PodEnds, PodWrites, JobEnds,
     WaitList, WaitReport, WaitReported, WaitJob, WaitTick, WaitFails, WaitCanceled, WaitEnds,
     Collect, Settle, Record, Resume, FindPods, FindReport, RecoveryFails, LogList,
     LogListFails, LogCopyFails, LogPassEnds, LogSelect, LogWait, Cancel
<1>2. \A p \in Pods : (HasHeader(p) => HasHeader(p)') /\ (Finished(p) => Finished(p)')
  BY LogGrows, FinishedStays
<1>3. \A i \in DOMAIN log : log[i][1] \in Pods
  BY EntryTypes
<1>4. EntriesInTurn' /\ LogInOrder'
  BY <1>0, <1>1, <1>2 DEF EntriesInTurn, LogInOrder
<1>5. PassInTurn'
  <2>1. CASE LogList
    <3>1. uncopied' # <<>> => uncopied'[1].pod = 1
      <4>1. /\ uncopied' = Listing /\ Listing \in Seq(PodView) /\ DOMAIN Listing = 1..Len(phase)
            /\ Len(Listing) = Len(phase) /\ DOMAIN phase = 1..Len(phase) /\ Len(phase) \in Nat
            /\ \A p \in DOMAIN phase : Listing[p] = [pod |-> p, phase |-> phase[p]]
        BY <2>1, ListingType DEF LogList, WatchInv, TypeOK
      <4>2. uncopied' # <<>> => Len(phase) # 0
        BY <4>1, EmptySeq
      <4>. QED  BY <4>1, <4>2
    <3>2. \A p \in Pods : ~(p < 1)
      BY DEF Pods
    <3>3. lpc' = "pods"
      BY <2>1 DEF LogList
    <3>. QED  BY <3>1, <3>2, <3>3 DEF PassInTurn
  <2>2. CASE LogCopyFails
    <3>1. lpc = "copy" /\ uncopied # <<>> /\ LogStopped
      BY <1>0, <2>2 DEF LogCopyFails, Request, WatchInv, CopiesReported
    <3>2. LogStopped'
      BY <3>1, StopsForGood
    <3>3. \A p \in Pods : Finished(p)'
      BY <3>2 DEF Finished
    <3>4. HasHeader(uncopied[1].pod) /\ \A p \in Pods : p < uncopied[1].pod => HasHeader(p)
      BY <1>0, <3>1 DEF PassInTurn
    <3>5. CASE lpc' = "done"
      BY <3>5 DEF PassInTurn
    <3>6. CASE lpc' = "pods" /\ uncopied' = Tail(uncopied)
      <4>. SUFFICES ASSUME Tail(uncopied) # <<>>, NEW p \in Pods, p < Tail(uncopied)[1].pod
                    PROVE  HasHeader(p)' /\ Finished(p)'
        BY <3>6 DEF PassInTurn
      <4>1. p < uncopied[1].pod \/ p = uncopied[1].pod
        BY <3>1, NextPod DEF Pods
      <4>. QED  BY <1>2, <3>3, <3>4, <4>1
    <3>. QED  BY <2>2, <3>5, <3>6 DEF LogCopyFails
  <2>3. CASE UNCHANGED <<lpc, uncopied>>
    <3>1. uncopied # <<>> => uncopied[1].pod \in Pods
      BY HeadKnown
    <3>. QED  BY <1>0, <1>2, <2>3, <3>1 DEF PassInTurn
  <2>4. CASE lpc' \notin {"pods", "copy"}
    BY <2>4 DEF PassInTurn
  <2>5. LogList \/ LogCopyFails \/ UNCHANGED <<lpc, uncopied>> \/ lpc' \notin {"pods", "copy"}
    BY <1>0 DEF Next, Kubernetes, Waiter, Logger, PodCreated, PodStarts, PodEnds, PodWrites, JobEnds,
       WaitList, WaitReport, WaitReported, WaitJob, WaitTick, WaitFails, WaitCanceled, WaitEnds,
       Collect, Settle, Record, Resume, FindPods, FindReport, RecoveryFails,
       LogListFails, LogPassEnds, LogSelect, LogWait, Cancel
  <2>. QED  BY <2>1, <2>2, <2>3, <2>4, <2>5
<1>. QED  BY <1>4, <1>5

\* The log stays in order.
LEMMA LogStaysInOrder ==
  ASSUME WatchAssumption, WatchInv, Next
  PROVE  LogInv' /\ LogInOrder'
<1>1. ASSUME errors' = 0, crashes' = 0
      PROVE  /\ pc' \notin {"off", "find", "recover", "capture"}
             /\ EntriesInTurn' /\ PassInTurn' /\ LogInOrder'
  BY <1>1, StopsForGood, ReportInTurn, CopyInTurn, OthersKeepLog
<1>. QED  BY <1>1 DEF LogInv, LogInOrder

-----------------------------------------------------------------------------
\* At first nothing is listed, reported or written.
LEMMA WatchInit == ASSUME WatchAssumption, Init PROVE WatchInv
<1>1. TypeOK
  <2>1. MaxPods \in Nat
    BY DEF MaxPods, WatchAssumption
  <2>2. phase \in Seq(Phases) /\ Len(phase) = 0 /\ unreported \in Seq(PodView)
        /\ uncopied \in Seq(PodView) /\ log \in Seq(Pods \X (0..MaxLines)) /\ task.attempts \in Seq(PodView)
    BY EmptySeq DEF Init
  <2>3. task \in TaskRecord
    BY <2>2 DEF Init, TaskRecord, Phases
  <2>4. lines \in [Pods -> 0..MaxLines] /\ since \in [Pods -> 0..MaxLines]
        /\ errors \in 0..MaxFaults /\ crashes \in 0..MaxFaults
    BY DEF Init, WatchAssumption
  <2>5. Len(phase) <= MaxPods
    BY <2>1, <2>2
  <2>6. /\ verdict = "none" /\ result = "none" /\ pc = "list" /\ lpc = "list"
        /\ {jobDone, canceled, lastPass, late} \subseteq BOOLEAN
    BY DEF Init
  <2>. QED  BY <2>2, <2>3, <2>4, <2>5, <2>6 DEF TypeOK
<1>2. PodsInTurn /\ ListsInTurn /\ AttemptOrder /\ LogInOrder /\ EntriesInTurn /\ PassInTurn
  BY DEF Init, PodsInTurn, ListsInTurn, AttemptOrder, LogInOrder, EntriesInTurn, PassInTurn
<1>3. SinceWritten /\ CopiesReported /\ LoggerOver /\ PodStatusSettled
  BY DEF Init, SinceWritten, CopiesReported, LoggerOver, PodStatusSettled
<1>. QED  BY <1>1, <1>2, <1>3 DEF WatchInv, LogInv, Init

\* Every step keeps the invariant.
LEMMA WatchStep ==
  ASSUME WatchAssumption, WatchInv, [Next]_vars
  PROVE  WatchInv'
<1>1. CASE UNCHANGED vars
  <2>. USE <1>1 DEF vars, kube, waiter, logger, others
  <2>1. TypeOK'
    BY DEF WatchInv, TypeOK
  <2>2. PodsInTurn' /\ SinceWritten' /\ ListsInTurn'
    BY DEF WatchInv, PodsInTurn, SinceWritten, ListsInTurn
  <2>3. CopiesReported' /\ AttemptOrder' /\ LoggerOver' /\ PodStatusSettled'
    BY DEF WatchInv, CopiesReported, AttemptOrder, LoggerOver, PodStatusSettled
  <2>4. \A p : HasHeader(p)' = HasHeader(p) /\ Finished(p)' = Finished(p)
    BY DEF HasHeader, Finished, LogStopped
  <2>5. (EntriesInTurn => EntriesInTurn') /\ (PassInTurn => PassInTurn') /\ LogInOrder'
    BY <2>4 DEF WatchInv, EntriesInTurn, PassInTurn, LogInOrder
  <2>6. LogInv'
    BY <2>5 DEF WatchInv, LogInv
  <2>. QED  BY <2>1, <2>2, <2>3, <2>5, <2>6 DEF WatchInv
<1>2. CASE Next
  <2>1. TypeOK' /\ PodsInTurn' /\ SinceWritten' /\ ListsInTurn'
    BY <1>2, WatchTypes, PodsKeepTurn, SinceStaysWritten, ListsKeepTurn
  <2>2. CopiesReported' /\ AttemptOrder' /\ LoggerOver' /\ PodStatusSettled'
    BY <1>2, CopiesStayReported, AttemptsGrow, LoggerStaysOver, StatusStaysSettled
  <2>3. LogInv' /\ LogInOrder'
    BY <1>2, LogStaysInOrder
  <2>. QED  BY <2>1, <2>2, <2>3 DEF WatchInv
<1>. QED  BY <1>1, <1>2

-----------------------------------------------------------------------------
\* Two goroutines report and copy for one task, through failed requests, restarts and
\* cancellation: its attempts keep the order of the Pods (runner.go:312-327); without a failed
\* request or a restart no line of the log is there twice or out of order, although each pass
\* asks for the logs of every Pod again (kubernetes.go:372-446); and the PodStatus of an ended
\* task is the one recorded (runner.go:287-310), unless log collection was given up.
THEOREM RecordStaysInOrder == Spec => []RecordInOrder
<1>1. Init => WatchInv
  BY WatchInit, WatchAssumption
<1>2. WatchInv /\ [Next]_vars => WatchInv'
  BY WatchStep, WatchAssumption
<1>3. WatchInv => RecordInOrder
  BY DEF WatchInv, RecordInOrder
<1>. QED  BY <1>1, <1>2, <1>3, PTL DEF Spec
=============================================================================
