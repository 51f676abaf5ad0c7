--------------------------- MODULE FeedsProofs ---------------------------
(***************************************************************************)
(* Proofs about two of the feeds.  RailBoard: what boards tell of a train agrees with what VSTP   *)
(* and Darwin told of it last, for any routes, days and numbers of messages,   *)
(* and any order in which the two processes and the board reach the database. *)
(* SubscriptionCache: which days the copy of the subscriptions can be for.     *)
(***************************************************************************)
EXTENDS RailBoard, SubscriptionCache, FiniteSetTheorems, TLAPS

-----------------------------------------------------------------------------
(* The invariant. *)

\* A realtime record hides the timetable's train exactly on days the overlay runs.
HidesReplaced == suppressed # None => overlay # None /\ suppressed = overlay.days

\* A VSTP message in progress, and what its first write has left.
VstpInTurn ==
  vstp # None =>
    /\ vstp.kind \in {"overlay", "cancel"} => vstp.mask \in Masks
    /\ vstp.kind = "overlay" /\ overlay # None => vstp.mask = overlay.days
    /\ vstp.kind = "overlay" /\ vstp.step = 2 => overlay # None
    /\ vstp.kind = "delete overlay" /\ vstp.step = 2 => suppressed = None
    /\ vstp.kind = "cancel" /\ vstp.step = 2 => off # {}

\* The alerts of VSTP are of the days it cancelled, and its record is not there without one
\* unless a message was abandoned.
AlertsOfVstp ==
  /\ \A day \in Days : <<"vstp", "original", day>> \in alerts <=> day \in off
  /\ \A day \in Days : <<"vstp", "overlay", day>> \notin alerts
  /\ torn \/ withdrawn = None \/ off # {}
       \/ (vstp # None /\ vstp.kind = "delete cancel" /\ vstp.step = 2)

\* What a board has loaded is of one time, and of the overlay's as long as that has not changed.
BoardIsOne ==
  board # None =>
    /\ board.overlay = None => \A day \in Days : board.amended[<<"overlay", day>>] = None
    /\ "board" \notin moved => board.overlay = overlay

\* The Darwin schedule of this journey and day is being written.
Writing(j, day) == darwin # None /\ darwin.kind = "schedule" /\ darwin.run.of = j /\ darwin.day = day

\* The overlay is still the one that Darwin read.
Fresh == darwin.run.of = "original" \/ "darwin" \notin moved

\* The route of a journey is the one last told, unless a schedule has amended it and is not
\* saved yet.
RouteTold ==
  \A j \in Journeys, day \in Days :
    told[<<j, day>>] # None /\ (j = "original" \/ overlay # None)
    /\ ~(Writing(j, day) /\ darwin.step \in {"alerts", "save"})
      => PathOf(j, day) = told[<<j, day>>].path

\* The alert of a journey and day is the one last told, unless a schedule has changed it and is
\* not saved yet.
AlertTold ==
  \A j \in Journeys, day \in Days :
    told[<<j, day>>] # None /\ ~(Writing(j, day) /\ darwin.step = "save")
      => (<<"full", j, day>> \in alerts <=> told[<<j, day>>].cancelled = DOMAIN told[<<j, day>>].path)

\* The calls told are calls of their route.
CallsTold ==
  \A j \in Journeys, day \in Days :
    told[<<j, day>>] # None => told[<<j, day>>].cancelled \subseteq DOMAIN told[<<j, day>>].path

\* A run has the route and calls last told of its journey, unless it was made anew, and none before.
Follows(run, day) ==
  LET t == told[<<run.of, day>>] IN
  /\ t # None => /\ run.path = t.path /\ run.calls \in {{}, t.cancelled}
                 /\ run.cancelled <=> run.calls = DOMAIN run.path
  /\ t = None /\ run.of = "original" => run.calls = {}

RunsFollow == \A day \in Days : runs[day] # None => Follows(runs[day], day)

\* Amendments of the timetable's journey are found at all its stops.
AffectsImported ==
  \A day \in Days : amended[<<"original", day>>] # None
    => amended[<<"original", day>>].affects = Range(Imported)

\* A Darwin message in progress: what it has read, amended and changed of the alerts.
DarwinInTurn ==
  darwin # None =>
    /\ darwin.run.of = "overlay" /\ "darwin" \notin moved => overlay # None
    /\ darwin.cancelled \subseteq DOMAIN darwin.path
    /\ darwin.kind = "status" => darwin.step = "save" /\ Follows(darwin.run, darwin.day)
    /\ darwin.step = "amend" /\ darwin.run.of = "original" => darwin.affects = Range(Imported)
    /\ darwin.kind = "schedule" /\ darwin.step \in {"alerts", "save"} =>
         /\ darwin.run.path = darwin.path
         /\ Fresh => PathOf(darwin.run.of, darwin.day) = darwin.path
    /\ darwin.kind = "schedule" /\ darwin.step = "save" =>
         /\ <<"full", darwin.run.of, darwin.day>> \in alerts <=> darwin.cancelled = DOMAIN darwin.path
         /\ darwin.run.calls = darwin.cancelled
         /\ darwin.run.cancelled <=> darwin.cancelled = DOMAIN darwin.path

RailInv ==
  /\ TypeOK /\ HidesReplaced /\ VstpInTurn /\ AlertsOfVstp /\ BoardIsOne
  /\ RouteTold /\ AlertTold /\ CallsTold /\ RunsFollow /\ AffectsImported /\ DarwinInTurn

-----------------------------------------------------------------------------
(* Routes, and what is made of them. *)

LEMMA RouteFacts ==
  ASSUME NEW p \in Paths
  PROVE  /\ p \in Seq(Range(p)) /\ Len(p) \in Nat /\ DOMAIN p = 1..Len(p) /\ 1 \in DOMAIN p
         /\ DOMAIN p \subseteq Nat /\ DOMAIN p # {}
         /\ Range(p) \subseteq Stops /\ Origins(p) \subseteq Range(p)
<1>1. p \in Seq(Range(p)) /\ Len(p) > 1
  BY RailAssumption
<1>2. Len(p) \in Nat /\ DOMAIN p = 1..Len(p) /\ 1 \in DOMAIN p
  BY <1>1
<1>3. Range(p) \subseteq Stops
  BY DEF Stops
<1>4. Front(p) \in Seq(Range(p)) /\ Len(Front(p)) = Len(p) - 1
      /\ \A i \in 1..(Len(p) - 1) : Front(p)[i] = p[i]
  BY <1>1, <1>2 DEF Front
<1>5. DOMAIN Front(p) = 1..(Len(p) - 1)
  BY <1>2, <1>4
<1>6. Origins(p) \subseteq Range(p)
  BY <1>2, <1>4, <1>5 DEF Origins, Range
<1>. QED  BY <1>1, <1>2, <1>3, <1>6

\* A call is told apart from the others at its stop by how many there are up to it.
LEMMA RemappedInPlace ==
  ASSUME NEW p \in Paths, NEW calls \in SUBSET DOMAIN p
  PROVE  Remapped(calls, p, p) = calls
<1>1. DOMAIN p \subseteq Nat
  BY RouteFacts
<1>2. ASSUME NEW k \in DOMAIN p, NEW i \in DOMAIN p, p[k] = p[i], k < i
      PROVE  Occurrence(p, k) # Occurrence(p, i)
  <2>. DEFINE K == {n \in 1..k : p[n] = p[k]}
              I == {n \in 1..i : p[n] = p[i]}
  <2>1. IsFiniteSet(1..i)
    BY <1>1, FS_Interval
  <2>2. IsFiniteSet(I)
    BY <2>1, FS_Subset
  <2>3. K \subseteq I /\ i \in I /\ i \notin K
    BY <1>1, <1>2
  <2>4. Cardinality(K) # Cardinality(I)
    BY <2>2, <2>3, FS_Subset
  <2>. QED  BY <2>4 DEF Occurrence
<1>3. ASSUME NEW k \in DOMAIN p, NEW i \in DOMAIN p, p[k] = p[i], Occurrence(p, k) = Occurrence(p, i)
      PROVE  k = i
  BY <1>1, <1>2, <1>3
<1>. QED  BY <1>3 DEF Remapped

LEMMA RemappedCalls ==
  ASSUME NEW calls, NEW old, NEW new
  PROVE  Remapped(calls, old, new) \subseteq DOMAIN new /\ Remapped({}, old, new) = {}
BY DEF Remapped

LEMMA EffectiveFacts ==
  ASSUME TypeOK, NEW day \in Days
  PROVE  /\ Effective(day) \in Journeys
         /\ Effective(day) = "overlay" <=> overlay # None /\ day \in overlay.days
BY DEF Effective, RunsOn, Journeys

LEMMA PathOfFacts ==
  ASSUME TypeOK, NEW j \in Journeys, NEW day \in Days, j = "original" \/ overlay # None
  PROVE  OwnPath(j) \in Paths /\ PathOf(j, day) \in Paths
<1>1. OwnPath(j) \in Paths
  BY RailAssumption DEF OwnPath, TypeOK, Overlay
<1>2. amended[<<j, day>>] # None => amended[<<j, day>>].path \in Paths
  BY DEF TypeOK, Amended, Amendment
<1>. QED  BY <1>1, <1>2 DEF PathOf

LEMMA ReconciledFacts ==
  ASSUME TypeOK, NEW day \in Days
  PROVE  /\ Reconciled(day) \in Run /\ Reconciled(day).of = Effective(day)
         /\ Reconciled(day).path = PathOf(Effective(day), day)
<1>. DEFINE j == Effective(day)
            path == PathOf(j, day)
<1>1. j \in Journeys /\ path \in Paths
  BY EffectiveFacts, PathOfFacts DEF Journeys
<1>2. DOMAIN path \subseteq Nat
  BY <1>1, RouteFacts
<1>3. CASE runs[day] # None /\ runs[day].of = j
  <2>1. runs[day] \in Run
    BY <1>3 DEF TypeOK
  <2>2. Remapped(runs[day].calls, runs[day].path, path) \in SUBSET Nat
    BY <1>2, RemappedCalls
  <2>3. Reconciled(day) = [runs[day] EXCEPT !.path = path,
                             !.calls = Remapped(runs[day].calls, runs[day].path, path)]
    BY <1>3 DEF Reconciled
  <2>. QED  BY <1>1, <1>3, <2>1, <2>2, <2>3 DEF Run
<1>4. CASE ~(runs[day] # None /\ runs[day].of = j)
  <2>1. Reconciled(day) = [of |-> j, path |-> path, cancelled |-> FALSE, calls |-> {}]
    BY <1>4 DEF Reconciled
  <2>. QED  BY <1>1, <2>1 DEF Run
<1>. QED  BY <1>3, <1>4

-----------------------------------------------------------------------------
(* The steps. *)

\* The messages that are received, with what they may be about.
SomeVstp ==
  \E kind \in VstpKinds, mask \in SUBSET Days, path \in Paths :
    Receive(kind, mask, path) /\ (kind \in {"overlay", "cancel"} => mask \in Masks)
SomeDarwin ==
  \E kind \in {"status", "schedule"}, day \in Days, path \in Paths :
    \E cancelled \in SUBSET DOMAIN path : Read(kind, day, path, cancelled)

\* What each process does, with the variables of the others it leaves alone.
VstpStep ==
  /\ SomeVstp \/ CreateOverlay \/ Cancel \/ DeleteOverlay \/ DeleteCancellation \/ VstpCrash
  /\ UNCHANGED <<runs, darwin, board>>
DarwinStep ==
  /\ SomeDarwin \/ ReadBase \/ Amend \/ Alert \/ Save
  /\ UNCHANGED <<overlay, suppressed, withdrawn, vstp, board, off, torn>>
BoardStep ==
  /\ Load \/ Answer
  /\ UNCHANGED <<overlay, amended, alerts, runs, suppressed, withdrawn, mapping, vstp, darwin,
                 told, off, torn, sent>>

LEMMA StepCases ==
  ASSUME Next
  PROVE  VstpStep \/ DarwinStep \/ BoardStep
<1>1. Masks \subseteq SUBSET Days /\ Imported \in Paths
  BY RailAssumption
<1>2. \A path \in Paths : {} \in SUBSET DOMAIN path /\ {1} \in SUBSET DOMAIN path
  BY RouteFacts
<1>3. ASSUME NEW mask \in Masks, NEW path \in Paths, Receive("overlay", mask, path)
      PROVE  SomeVstp
  BY <1>1, <1>3 DEF VstpKinds, SomeVstp
<1>4. ASSUME NEW mask \in Masks, Receive("cancel", mask, Imported)
      PROVE  SomeVstp
  BY <1>1, <1>4 DEF VstpKinds, SomeVstp
<1>5. ASSUME NEW kind \in {"delete overlay", "delete cancel"}, Receive(kind, Days, Imported)
      PROVE  SomeVstp
  BY <1>1, <1>5 DEF VstpKinds, SomeVstp
<1>6. ASSUME NEW day \in Days, Read("status", day, Imported, {})
      PROVE  SomeDarwin
  BY <1>1, <1>2, <1>6 DEF SomeDarwin
<1>7. ASSUME NEW day \in Days, NEW way \in Paths, NEW off0 \in {{}, {1}} \cup {DOMAIN way},
             Read("schedule", day, way, off0)
      PROVE  SomeDarwin
  <2>1. off0 \in SUBSET DOMAIN way
    BY <1>2
  <2>. QED  BY <1>7, <2>1 DEF SomeDarwin
<1>8. CASE SomeVstp
  BY <1>8 DEF VstpStep, SomeVstp, Receive
<1>9. CASE SomeDarwin
  BY <1>9 DEF DarwinStep, SomeDarwin, Read
<1>10. CASE CreateOverlay \/ Cancel \/ DeleteOverlay \/ DeleteCancellation \/ VstpCrash
  BY <1>10 DEF VstpStep, CreateOverlay, Cancel, DeleteOverlay, DeleteCancellation, VstpCrash
<1>11. CASE ReadBase \/ Amend \/ Alert \/ Save
  BY <1>11 DEF DarwinStep, ReadBase, Amend, Alert, Save
<1>12. CASE Load \/ Answer
  BY <1>12 DEF BoardStep, Load, Answer
<1>. QED  BY <1>3, <1>4, <1>5, <1>6, <1>7, <1>8, <1>9, <1>10, <1>11, <1>12 DEF Next, SomeVstp, SomeDarwin

-----------------------------------------------------------------------------
(* Types. *)

LEMMA TypeInit == Init => TypeOK
<1>. SUFFICES ASSUME Init PROVE TypeOK
  OBVIOUS
<1>1. amended \in Amended /\ told \in [Journeys \X Days -> Told \cup {None}]
  BY DEF Init, Amended
<1>2. runs \in [Days -> Run \cup {None}]
      /\ mapping \in [Journeys -> {None, Suppressing, Withdrawing} \cup ({"run"} \X Days)]
  BY DEF Init
<1>. QED  BY <1>1, <1>2 DEF Init, TypeOK

LEMMA StoredTypes ==
  ASSUME TypeOK
  PROVE  /\ vstp # None => vstp \in VstpMessage
         /\ darwin # None => darwin \in DarwinMessage
         /\ overlay # None => overlay \in Overlay
         /\ DOMAIN amended = Journeys \X Days /\ DOMAIN told = Journeys \X Days
BY DEF TypeOK, Amended

LEMMA TypeVstp ==
  ASSUME TypeOK, VstpInTurn, VstpStep
  PROVE  TypeOK'
<1>. USE DEF TypeOK
<1>t. vstp # None => vstp \in VstpMessage
  BY StoredTypes
<1>a. ASSUME vstp # None, Advance
      PROVE  vstp' \in VstpMessage \cup {None}
  BY <1>t, <1>a DEF Advance, VstpMessage
<1>b. "original" \in Journeys
  BY DEF Journeys
<1>1. ASSUME NEW kind \in VstpKinds, NEW mask \in SUBSET Days, NEW path \in Paths, Receive(kind, mask, path)
      PROVE  TypeOK'
  <2>1. vstp' \in VstpMessage
    BY <1>1 DEF Receive, VstpMessage
  <2>2. sent' \in [vstp : Nat, darwin : Nat]
    BY <1>1 DEF Receive
  <2>. QED  BY <1>1, <2>1, <2>2 DEF Receive
<1>2. CASE CreateOverlay
  <2>1. vstp' \in VstpMessage \cup {None}
    BY <1>2, <1>a DEF CreateOverlay
  <2>2. vstp.mask \in SUBSET Days /\ vstp.mask \in Masks /\ vstp.path \in Paths
    BY <1>2, <1>t DEF CreateOverlay, VstpInTurn, VstpMessage
  <2>3. overlay' \in Overlay \cup {None}
    BY <1>2, <2>2 DEF CreateOverlay, Overlay
  <2>4. told' \in [Journeys \X Days -> Told \cup {None}]
    BY <1>2 DEF CreateOverlay
  <2>5. suppressed' \in {None} \cup SUBSET Days
        /\ mapping' \in [Journeys -> {None, Suppressing, Withdrawing} \cup ({"run"} \X Days)]
    BY <1>2, <1>b, <2>2 DEF CreateOverlay
  <2>6. moved' \subseteq {"board", "darwin"}
    BY <1>2 DEF CreateOverlay, Moved
  <2>. QED  BY <1>2, <2>1, <2>3, <2>4, <2>5, <2>6 DEF CreateOverlay
<1>3. CASE Cancel
  <2>1. vstp' \in VstpMessage \cup {None} /\ vstp.mask \in SUBSET Days
    BY <1>3, <1>a, <1>t DEF Cancel, VstpMessage
  <2>2. alerts' \subseteq {"vstp", "full", "partial"} \X Journeys \X Days
    BY <1>3, <1>b, <2>1 DEF Cancel
  <2>3. withdrawn' \in {None} \cup SUBSET Days /\ off' \in SUBSET Days
        /\ mapping' \in [Journeys -> {None, Suppressing, Withdrawing} \cup ({"run"} \X Days)]
    BY <1>3, <1>b, <2>1 DEF Cancel
  <2>. QED  BY <1>3, <2>1, <2>2, <2>3 DEF Cancel
<1>4. CASE DeleteOverlay
  <2>1. vstp' \in VstpMessage \cup {None}
    BY <1>4, <1>a DEF DeleteOverlay
  <2>2. amended' \in Amended
    BY <1>4 DEF DeleteOverlay, Amended
  <2>3. moved' \subseteq {"board", "darwin"} /\ suppressed' \in {None} \cup SUBSET Days
    BY <1>4 DEF DeleteOverlay, Moved
  <2>4. overlay' \in Overlay \cup {None}
    BY <1>4 DEF DeleteOverlay
  <2>. QED  BY <1>4, <2>1, <2>2, <2>3, <2>4 DEF DeleteOverlay
<1>5. CASE DeleteCancellation
  <2>1. vstp' \in VstpMessage \cup {None}
    BY <1>5, <1>a DEF DeleteCancellation
  <2>2. alerts' \subseteq {"vstp", "full", "partial"} \X Journeys \X Days
    BY <1>5 DEF DeleteCancellation
  <2>3. withdrawn' \in {None} \cup SUBSET Days /\ off' \in SUBSET Days
    BY <1>5 DEF DeleteCancellation
  <2>. QED  BY <1>5, <2>1, <2>2, <2>3 DEF DeleteCancellation
<1>6. CASE VstpCrash
  BY <1>6 DEF VstpCrash
<1>. QED  BY <1>1, <1>2, <1>3, <1>4, <1>5, <1>6 DEF VstpStep, SomeVstp

\* A schedule that has amended the journey or raised its alert is still in progress.
LEMMA MessageGoesOn ==
  ASSUME TypeOK, Amend \/ Alert
  PROVE  darwin' \in DarwinMessage /\ darwin' # None
<1>1. darwin \in DarwinMessage /\ darwin.run \in Run /\ darwin.path \in Paths /\ darwin.cancelled \in SUBSET Nat
  BY StoredTypes DEF Amend, Alert, DarwinMessage
<1>2. CASE Amend
  <2>. DEFINE run == [darwin.run EXCEPT !.path = darwin.path,
                        !.calls = Remapped(darwin.run.calls, darwin.run.path, darwin.path)]
  <2>1. Remapped(darwin.run.calls, darwin.run.path, darwin.path) \in SUBSET Nat
    BY <1>1, RemappedCalls, RouteFacts
  <2>2. run \in Run /\ darwin' = [darwin EXCEPT !.step = "alerts", !.run = run]
    BY <1>1, <1>2, <2>1 DEF Amend, Run
  <2>. HIDE DEF run
  <2>3. darwin' \in DarwinMessage
    BY <1>1, <2>2 DEF DarwinMessage
  <2>. QED  BY <2>3, RailAssumption
<1>3. CASE Alert
  <2>. DEFINE verdict == Verdict(darwin.path, darwin.cancelled)
              run == [darwin.run EXCEPT !.calls = darwin.cancelled, !.cancelled = (verdict = "full")]
  <2>1. run \in Run /\ darwin' = [darwin EXCEPT !.step = "save", !.run = run]
    BY <1>1, <1>3 DEF Alert, Run
  <2>. HIDE DEF run
  <2>2. darwin' \in DarwinMessage
    BY <1>1, <2>1 DEF DarwinMessage
  <2>. QED  BY <2>2, RailAssumption
<1>. QED  BY <1>2, <1>3

LEMMA TypeDarwin ==
  ASSUME TypeOK, DarwinInTurn, DarwinStep \/ BoardStep
  PROVE  TypeOK'
<1>. USE DEF TypeOK
<1>t. /\ darwin # None => darwin \in DarwinMessage /\ darwin.run \in Run
      /\ darwin # None => /\ darwin.run.of \in Journeys /\ darwin.day \in Days /\ darwin.path \in Paths
                          /\ darwin.cancelled \in SUBSET Nat
  BY StoredTypes DEF DarwinMessage, Run
<1>1. ASSUME NEW kind \in {"status", "schedule"}, NEW day \in Days, NEW path \in Paths,
             NEW cancelled \in SUBSET DOMAIN path, Read(kind, day, path, cancelled)
      PROVE  TypeOK'
  <2>1. Reconciled(day) \in Run /\ cancelled \in SUBSET Nat
    BY ReconciledFacts, RouteFacts
  <2>2. darwin' \in DarwinMessage
    BY <1>1, <2>1 DEF Read, DarwinMessage
  <2>3. sent' \in [vstp : Nat, darwin : Nat] /\ moved' \subseteq {"board", "darwin"}
    BY <1>1 DEF Read
  <2>. QED  BY <1>1, <2>2, <2>3 DEF Read
<1>2. CASE ReadBase
  <2>1. darwin.run.of # "overlay" \/ overlay # None
        => Affects(OwnPath(darwin.run.of)) \in SUBSET Stops
    BY <1>2, <1>t, PathOfFacts, RouteFacts DEF ReadBase, Affects, Journeys
  <2>2. darwin' \in DarwinMessage \cup {None}
    BY <1>2, <1>t, <2>1 DEF ReadBase, DarwinMessage
  <2>. QED  BY <1>2, <2>2 DEF ReadBase
<1>3. CASE Amend
  <2>1. [path |-> darwin.path, affects |-> darwin.affects] \in Amendment
    BY <1>3, <1>t DEF Amend, Amendment, DarwinMessage
  <2>2. amended' \in Amended
    BY <1>3, <1>t, <2>1 DEF Amend, Amended
  <2>3. darwin' \in DarwinMessage
    BY <1>3, MessageGoesOn
  <2>. QED  BY <1>3, <2>2, <2>3 DEF Amend
<1>4. CASE Alert
  <2>. DEFINE verdict == Verdict(darwin.path, darwin.cancelled)
  <2>1. verdict \in {"full", "partial", "none"}
    BY DEF Verdict
  <2>2. alerts' \subseteq {"vstp", "full", "partial"} \X Journeys \X Days
    BY <1>4, <1>t, <2>1 DEF Alert, AlertsAfter
  <2>3. darwin' \in DarwinMessage
    BY <1>4, MessageGoesOn
  <2>. QED  BY <1>4, <2>2, <2>3 DEF Alert
<1>5. CASE Save
  <2>1. runs' \in [Days -> Run \cup {None}]
    BY <1>5, <1>t DEF Save
  <2>2. mapping' \in [Journeys -> {None, Suppressing, Withdrawing} \cup ({"run"} \X Days)]
    BY <1>5, <1>t DEF Save
  <2>3. [path |-> darwin.path, cancelled |-> darwin.cancelled] \in Told
    BY <1>5, <1>t DEF Save, Told
  <2>4. told' \in [Journeys \X Days -> Told \cup {None}]
    BY <1>5, <1>t, <2>3 DEF Save
  <2>. QED  BY <1>5, <2>1, <2>2, <2>4 DEF Save
<1>6. CASE Load
  <2>1. board' \in BoardQuery
    BY <1>6 DEF Load, BoardQuery, Amended
  <2>2. moved' \subseteq {"board", "darwin"}
    BY <1>6 DEF Load
  <2>. QED  BY <1>6, <2>1, <2>2 DEF Load
<1>7. CASE Answer
  BY <1>7 DEF Answer
<1>. QED  BY <1>1, <1>2, <1>3, <1>4, <1>5, <1>6, <1>7 DEF DarwinStep, BoardStep, SomeDarwin

LEMMA TypeStep ==
  ASSUME RailInv, [Next]_vars
  PROVE  TypeOK'
<1>1. CASE Next
  BY <1>1, StepCases, TypeVstp, TypeDarwin DEF RailInv
<1>2. CASE UNCHANGED vars
  BY <1>2 DEF RailInv, TypeOK, vars
<1>. QED  BY <1>1, <1>2

-----------------------------------------------------------------------------
(* What VSTP writes. *)

LEMMA HidesReplacedStep ==
  ASSUME RailInv, VstpStep
  PROVE  HidesReplaced'
<1>. USE DEF HidesReplaced
<1>1. HidesReplaced /\ VstpInTurn /\ (vstp # None => vstp \in VstpMessage)
  BY StoredTypes DEF RailInv
<1>2. CASE CreateOverlay
  <2>1. overlay' # None
    <3>1. CASE vstp.step = 1
      <4>1. overlay' \in Overlay
        BY <1>1, <1>2, <3>1, TypeVstp DEF CreateOverlay, VstpInTurn, VstpMessage, Overlay
      <4>. QED  BY <4>1, RailAssumption
    <3>2. CASE vstp.step = 2
      BY <1>1, <1>2, <3>2 DEF CreateOverlay, VstpInTurn
    <3>. QED  BY <1>2, <3>1, <3>2 DEF CreateOverlay
  <2>. QED  BY <1>1, <1>2, <2>1 DEF CreateOverlay, VstpInTurn
<1>3. CASE DeleteOverlay
  BY <1>1, <1>3 DEF DeleteOverlay, VstpInTurn
<1>4. CASE ~CreateOverlay /\ ~DeleteOverlay
  <2>1. UNCHANGED <<overlay, suppressed>>
    BY <1>4 DEF VstpStep, SomeVstp, Receive, Cancel, DeleteCancellation, VstpCrash
  <2>. QED  BY <1>1, <2>1
<1>. QED  BY <1>2, <1>3, <1>4

\* A message goes from its first write to its second, and then is done.
LEMMA Advanced ==
  ASSUME TypeOK, vstp # None, Advance
  PROVE  /\ vstp.step \in {1, 2}
         /\ vstp.step = 2 => vstp' = None
         /\ vstp.step = 1 => /\ vstp' # None /\ vstp'.step = 2
                             /\ vstp'.kind = vstp.kind /\ vstp'.mask = vstp.mask
<1>1. vstp \in VstpMessage
  BY StoredTypes
<1>2. vstp.step = 1 => vstp' \in VstpMessage
  BY <1>1 DEF Advance, VstpMessage
<1>3. vstp.step = 1 => vstp' # None
  BY <1>2, RailAssumption
<1>. QED  BY <1>1, <1>3 DEF Advance, VstpMessage

LEMMA VstpInTurnStep ==
  ASSUME RailInv, VstpStep
  PROVE  VstpInTurn'
<1>1. VstpInTurn /\ HidesReplaced /\ (vstp # None => vstp \in VstpMessage)
  BY StoredTypes DEF RailInv
<1>t. TypeOK
  BY DEF RailInv
<1>2. CASE SomeVstp
  <2>. PICK kind \in VstpKinds, mask \in SUBSET Days, path \in Paths :
         Receive(kind, mask, path) /\ (kind \in {"overlay", "cancel"} => mask \in Masks)
    BY <1>2 DEF SomeVstp
  <2>. QED  BY DEF Receive, VstpInTurn
<1>3. CASE CreateOverlay
  <2>1. vstp.step = 1 => overlay' # None
    <3>1. vstp.step = 1 => overlay' \in Overlay
      BY <1>1, <1>3 DEF CreateOverlay, VstpInTurn, VstpMessage, Overlay
    <3>. QED  BY <3>1, RailAssumption
  <2>2. vstp' # None => overlay'.days = vstp.mask
    <3>1. vstp' # None => overlay' = [path |-> vstp.path, days |-> vstp.mask]
      BY <1>3, <1>t, Advanced DEF CreateOverlay
    <3>. QED  BY <3>1
  <2>3. vstp' # None => vstp.step = 1 /\ vstp'.kind = "overlay" /\ vstp'.mask = vstp.mask
                        /\ vstp'.mask \in Masks
    BY <1>1, <1>3, <1>t, Advanced DEF CreateOverlay, VstpInTurn
  <2>. QED  BY <2>1, <2>2, <2>3 DEF VstpInTurn
<1>4. CASE Cancel
  BY <1>1, <1>4, <1>t, Advanced, RailAssumption DEF Cancel, VstpInTurn
<1>5. CASE DeleteOverlay
  BY <1>1, <1>5 DEF DeleteOverlay, Advance, VstpInTurn, VstpMessage, HidesReplaced
<1>6. CASE DeleteCancellation
  BY <1>1, <1>6 DEF DeleteCancellation, Advance, VstpInTurn, VstpMessage
<1>7. CASE VstpCrash
  BY <1>7 DEF VstpCrash, VstpInTurn
<1>. QED  BY <1>2, <1>3, <1>4, <1>5, <1>6, <1>7 DEF VstpStep

LEMMA AlertsOfVstpStep ==
  ASSUME RailInv, VstpStep
  PROVE  AlertsOfVstp'
<1>1. AlertsOfVstp /\ VstpInTurn /\ (vstp # None => vstp \in VstpMessage)
  BY StoredTypes DEF RailInv
<1>t. TypeOK
  BY DEF RailInv
<1>2. CASE Cancel
  <2>1. vstp.mask \subseteq Days
    BY <1>1, <1>2 DEF Cancel, VstpMessage
  <2>2. vstp.mask # {}
    BY <1>1, <1>2, RailAssumption DEF Cancel, VstpInTurn
  <2>3. CASE vstp.step = 1
    <3>1. off' = vstp.mask
          /\ alerts' = {a \in alerts : a[1] # "vstp"} \cup {<<"vstp", "original", d>> : d \in vstp.mask}
      BY <1>2, <2>3 DEF Cancel
    <3>. QED  BY <2>1, <2>2, <3>1 DEF AlertsOfVstp
  <2>4. CASE vstp.step = 2
    <3>1. off # {} /\ UNCHANGED <<alerts, off>>
      BY <1>1, <1>2, <2>4 DEF Cancel, VstpInTurn
    <3>. QED  BY <1>1, <3>1 DEF AlertsOfVstp
  <2>. QED  BY <1>2, <1>t, <2>3, <2>4, Advanced DEF Cancel
<1>3. CASE DeleteCancellation
  <2>1. CASE vstp.step = 1
    <3>1. vstp' # None /\ vstp'.kind = "delete cancel" /\ vstp'.step = 2
      BY <1>3, <1>t, <2>1, Advanced DEF DeleteCancellation
    <3>2. off' = {} /\ alerts' = {a \in alerts : a[1] # "vstp"}
      <4>1. vstp.step # 2
        BY <2>1
      <4>. QED  BY <1>3, <4>1, Zenon DEF DeleteCancellation
    <3>3. \A day \in Days : (<<"vstp", "original", day>> \in alerts' <=> day \in off')
                             /\ <<"vstp", "overlay", day>> \notin alerts'
      BY <3>2
    <3>. QED  BY <3>1, <3>3 DEF AlertsOfVstp
  <2>2. CASE vstp.step = 2
    <3>1. vstp.step # 1
      BY <2>2
    <3>2. withdrawn' = None /\ alerts' = alerts /\ off' = off
      BY <1>3, <3>1, Zenon DEF DeleteCancellation
    <3>. QED  BY <1>1, <3>2 DEF AlertsOfVstp
  <2>. QED  BY <1>3, <2>1, <2>2, Zenon DEF DeleteCancellation
<1>4. CASE VstpCrash
  BY <1>1, <1>4 DEF VstpCrash, AlertsOfVstp, VstpMessage
<1>5. CASE SomeVstp \/ CreateOverlay \/ DeleteOverlay
  <2>1. UNCHANGED <<alerts, off, torn, withdrawn>>
    BY <1>5 DEF SomeVstp, Receive, CreateOverlay, DeleteOverlay
  <2>2. ~(vstp # None /\ vstp.kind = "delete cancel")
    BY <1>5 DEF SomeVstp, Receive, CreateOverlay, DeleteOverlay
  <2>. QED  BY <1>1, <2>1, <2>2 DEF AlertsOfVstp
<1>. QED  BY <1>2, <1>3, <1>4, <1>5 DEF VstpStep

LEMMA BoardIsOneStep ==
  ASSUME RailInv, Next
  PROVE  BoardIsOne'
<1>1. BoardIsOne /\ DOMAIN amended = Journeys \X Days
  BY StoredTypes DEF RailInv
<1>2. CASE VstpStep
  <2>1. "board" \in moved' \/ UNCHANGED <<overlay, moved>>
    BY <1>2 DEF VstpStep, SomeVstp, Receive, CreateOverlay, Cancel, DeleteOverlay, DeleteCancellation,
                VstpCrash, Moved
  <2>. QED  BY <1>1, <1>2, <2>1 DEF VstpStep, BoardIsOne
<1>3. CASE DarwinStep
  <2>1. "board" \in moved <=> "board" \in moved'
    BY <1>3 DEF DarwinStep, SomeDarwin, Read, ReadBase, Amend, Alert, Save
  <2>. QED  BY <1>1, <1>3, <2>1 DEF DarwinStep, BoardIsOne
<1>4. CASE Load
  BY <1>1, <1>4 DEF Load, BoardIsOne, Journeys
<1>5. CASE Answer
  BY <1>5 DEF Answer, BoardIsOne
<1>. QED  BY <1>2, <1>3, <1>4, <1>5, StepCases DEF BoardStep

-----------------------------------------------------------------------------
(* What VSTP leaves of the history of Darwin. *)

LEMMA VstpLeaves ==
  ASSUME RailInv, VstpStep
  PROVE  /\ UNCHANGED <<runs, darwin>>
         /\ \A j \in Journeys, day \in Days : <<"full", j, day>> \in alerts' <=> <<"full", j, day>> \in alerts
         /\ \A day \in Days : /\ told'[<<"original", day>>] = told[<<"original", day>>]
                              /\ amended'[<<"original", day>>] = amended[<<"original", day>>]
         /\ \/ UNCHANGED <<overlay, amended, told, moved>>
            \/ /\ "darwin" \in moved' /\ UNCHANGED amended
               /\ \A day \in Days : told'[<<"overlay", day>>] = None
            \/ /\ "darwin" \in moved' /\ overlay' = None /\ UNCHANGED told
<1>1. DOMAIN amended = Journeys \X Days /\ DOMAIN told = Journeys \X Days
  BY StoredTypes DEF RailInv
<1>2. UNCHANGED <<runs, darwin>>
  BY DEF VstpStep
<1>3. CASE CreateOverlay
  <2>1. UNCHANGED <<alerts, amended>>
    BY <1>3 DEF CreateOverlay
  <2>2. CASE vstp.step = 1
    <3>1. told' = [k \in DOMAIN told |-> IF k[1] = "overlay" THEN None ELSE told[k]] /\ "darwin" \in moved'
      BY <1>3, <2>2 DEF CreateOverlay, Moved
    <3>2. \A day \in Days : told'[<<"original", day>>] = told[<<"original", day>>]
                             /\ told'[<<"overlay", day>>] = None
      BY <1>1, <3>1 DEF Journeys
    <3>. QED  BY <1>2, <2>1, <3>1, <3>2
  <2>3. CASE vstp.step = 2
    <3>1. UNCHANGED <<overlay, told, moved>>
      BY <1>3, <2>3 DEF CreateOverlay
    <3>. QED  BY <1>2, <2>1, <3>1
  <2>. QED  BY <1>3, <2>2, <2>3 DEF CreateOverlay
<1>4. CASE DeleteOverlay
  <2>1. UNCHANGED <<alerts, told>>
    BY <1>4 DEF DeleteOverlay
  <2>2. CASE vstp.step = 1
    <3>1. vstp.step # 2
      BY <2>2
    <3>2. UNCHANGED <<overlay, amended, moved>>
      BY <1>4, <3>1, Zenon DEF DeleteOverlay
    <3>. QED  BY <1>2, <2>1, <3>2
  <2>3. CASE vstp.step = 2
    <3>0. vstp.step # 1
      BY <2>3
    <3>1. /\ amended' = [k \in DOMAIN amended |-> IF k[1] = "overlay" THEN None ELSE amended[k]]
          /\ overlay' = None /\ moved' = {"board", "darwin"}
      BY <1>4, <3>0, Zenon DEF DeleteOverlay, Moved
    <3>2. \A day \in Days : amended'[<<"original", day>>] = amended[<<"original", day>>]
      BY <1>1, <3>1 DEF Journeys
    <3>. QED  BY <1>2, <2>1, <3>1, <3>2
  <2>. QED  BY <1>4, <2>2, <2>3 DEF DeleteOverlay
<1>5. CASE ~CreateOverlay /\ ~DeleteOverlay
  <2>1. UNCHANGED <<overlay, amended, told, moved>>
    BY <1>5 DEF VstpStep, SomeVstp, Receive, Cancel, DeleteCancellation, VstpCrash
  <2>2. CASE Cancel
    <3>1. alerts' = alerts \/ alerts' = {a \in alerts : a[1] # "vstp"}
                                         \cup {<<"vstp", "original", d>> : d \in vstp.mask}
      BY <2>2, Zenon DEF Cancel
    <3>2. \A j \in Journeys, day \in Days : <<"full", j, day>> \in alerts' <=> <<"full", j, day>> \in alerts
      BY <3>1
    <3>. QED  BY <1>2, <2>1, <3>2
  <2>3. CASE DeleteCancellation
    <3>1. alerts' = alerts \/ alerts' = {a \in alerts : a[1] # "vstp"}
      BY <2>3, Zenon DEF DeleteCancellation
    <3>2. \A j \in Journeys, day \in Days : <<"full", j, day>> \in alerts' <=> <<"full", j, day>> \in alerts
      BY <3>1
    <3>. QED  BY <1>2, <2>1, <3>2
  <2>4. CASE SomeVstp \/ VstpCrash
    <3>1. UNCHANGED alerts
      BY <2>4 DEF SomeVstp, Receive, VstpCrash
    <3>. QED  BY <1>2, <2>1, <3>1
  <2>. QED  BY <1>5, <2>2, <2>3, <2>4 DEF VstpStep
<1>. QED  BY <1>3, <1>4, <1>5

LEMMA DarwinUnderVstp ==
  ASSUME RailInv, VstpStep
  PROVE  RouteTold' /\ AlertTold' /\ CallsTold' /\ RunsFollow' /\ AffectsImported' /\ DarwinInTurn'
<1>. USE VstpLeaves
<1>1. /\ RouteTold /\ AlertTold /\ CallsTold /\ RunsFollow /\ AffectsImported /\ DarwinInTurn
      /\ \A j \in Journeys : j = "original" \/ j = "overlay"
  BY DEF RailInv, Journeys
<1>2. RouteTold'
  BY <1>1 DEF RouteTold, PathOf, OwnPath, Writing
<1>3. AlertTold'
  BY <1>1 DEF AlertTold, Writing
<1>4. CallsTold'
  BY <1>1 DEF CallsTold
<1>5. \A run \in Run, day \in Days : Follows(run, day) => Follows(run, day)'
  <2>. SUFFICES ASSUME NEW run \in Run, NEW day \in Days, Follows(run, day)
                PROVE  Follows(run, day)'
    OBVIOUS
  <2>1. run.of = "original" \/ run.of = "overlay"
    BY DEF Run, Journeys
  <2>2. told'[<<run.of, day>>] = told[<<run.of, day>>] \/ (run.of = "overlay" /\ told'[<<run.of, day>>] = None)
    BY <2>1
  <2>. QED  BY <2>2 DEF Follows
<1>6. \A day \in Days : runs[day] # None => runs[day] \in Run
  BY DEF RailInv, TypeOK
<1>7. RunsFollow'
  BY <1>1, <1>5, <1>6 DEF RunsFollow
<1>8. AffectsImported'
  BY <1>1 DEF AffectsImported
<1>9. DarwinInTurn'
  <2>. SUFFICES ASSUME darwin # None PROVE DarwinInTurn'
    BY DEF DarwinInTurn
  <2>1. darwin.run \in Run /\ darwin.run.of \in Journeys /\ darwin.day \in Days
    BY StoredTypes DEF RailInv, DarwinMessage, Run
  <2>2. Fresh' => Fresh /\ PathOf(darwin.run.of, darwin.day)' = PathOf(darwin.run.of, darwin.day)
    BY <1>1, <2>1 DEF Fresh, PathOf, OwnPath
  <2>. QED  BY <1>1, <1>5, <2>1, <2>2 DEF DarwinInTurn, Fresh
<1>. QED  BY <1>2, <1>3, <1>4, <1>7, <1>8, <1>9

LEMMA DarwinUnderBoard ==
  ASSUME RailInv, BoardStep
  PROVE  RouteTold' /\ AlertTold' /\ CallsTold' /\ RunsFollow' /\ AffectsImported' /\ DarwinInTurn'
<1>1. UNCHANGED <<overlay, amended, alerts, runs, darwin, told>>
      /\ ("darwin" \in moved <=> "darwin" \in moved')
  BY DEF BoardStep, Load, Answer
<1>. QED  BY <1>1 DEF RailInv, RouteTold, AlertTold, CallsTold, RunsFollow, Follows, AffectsImported,
                      DarwinInTurn, PathOf, OwnPath, Writing, Fresh

-----------------------------------------------------------------------------
(* What Darwin writes. *)

\* The message in progress, and that it is of one journey and day.
LEMMA InProgress ==
  ASSUME RailInv, darwin # None
  PROVE  /\ darwin \in DarwinMessage /\ darwin.run \in Run /\ darwin.run.of \in Journeys
         /\ darwin.day \in Days /\ darwin.path \in Paths
         /\ darwin.kind \in {"status", "schedule"} /\ darwin.step \in {"base", "amend", "alerts", "save"}
         /\ \A j \in Journeys, day \in Days : Writing(j, day) =>
              <<j, day>> = <<darwin.run.of, darwin.day>>
BY StoredTypes DEF RailInv, DarwinMessage, Run, Writing

\* A run on the present path has what was last told of it.
LEMMA ReconciledFollows ==
  ASSUME RailInv, darwin = None, NEW day \in Days
  PROVE  Follows(Reconciled(day), day)
<1>. DEFINE j == Effective(day)
            path == PathOf(j, day)
            t == told[<<j, day>>]
<1>1. TypeOK /\ RouteTold /\ RunsFollow /\ CallsTold
  BY DEF RailInv
<1>2. j \in Journeys /\ (j = "original" \/ overlay # None) /\ path \in Paths
  BY <1>1, EffectiveFacts, PathOfFacts DEF Journeys
<1>3. t # None => path = t.path /\ t.cancelled \subseteq DOMAIN t.path
  BY <1>1, <1>2 DEF RouteTold, CallsTold, Writing
<1>4. CASE runs[day] # None /\ runs[day].of = j
  <2>. DEFINE old == runs[day]
              run == [old EXCEPT !.path = path, !.calls = Remapped(old.calls, old.path, path)]
  <2>1. old \in Run /\ Reconciled(day) = run
    BY <1>1, <1>4 DEF TypeOK, Reconciled
  <2>2. run.of = j /\ run.path = path /\ run.calls = Remapped(old.calls, old.path, path)
        /\ run.cancelled = old.cancelled
    BY <1>4, <2>1 DEF Run
  <2>3. Follows(old, day)
    BY <1>1, <1>4 DEF RunsFollow
  <2>4. t # None => Remapped(old.calls, old.path, path) = old.calls
    <3>. SUFFICES ASSUME t # None PROVE Remapped(old.calls, old.path, path) = old.calls
      OBVIOUS
    <3>1. old.path = path /\ old.calls \in SUBSET DOMAIN path
      BY <1>3, <1>4, <2>3 DEF Follows
    <3>. QED  BY <1>2, <3>1, RemappedInPlace
  <2>5. t = None /\ j = "original" => Remapped(old.calls, old.path, path) = {}
    BY <1>4, <2>3, RemappedCalls DEF Follows
  <2>. QED  BY <1>3, <1>4, <2>1, <2>2, <2>3, <2>4, <2>5 DEF Follows
<1>5. CASE ~(runs[day] # None /\ runs[day].of = j)
  <2>1. Reconciled(day) = [of |-> j, path |-> path, cancelled |-> FALSE, calls |-> {}]
    BY <1>5 DEF Reconciled
  <2>2. DOMAIN path # {}
    BY <1>2, RouteFacts
  <2>. QED  BY <1>3, <2>1, <2>2 DEF Follows
<1>. QED  BY <1>4, <1>5

LEMMA DarwinUnderRead ==
  ASSUME RailInv, SomeDarwin
  PROVE  RouteTold' /\ AlertTold' /\ CallsTold' /\ RunsFollow' /\ AffectsImported' /\ DarwinInTurn'
<1>. PICK kind \in {"status", "schedule"}, day \in Days, path \in Paths :
       \E cancelled \in SUBSET DOMAIN path : Read(kind, day, path, cancelled)
  BY DEF SomeDarwin
<1>. PICK cancelled \in SUBSET DOMAIN path : Read(kind, day, path, cancelled)
  OBVIOUS
<1>1. darwin = None /\ UNCHANGED <<overlay, amended, alerts, runs, told>>
  BY DEF Read
<1>2. RouteTold' /\ AlertTold' /\ CallsTold' /\ RunsFollow' /\ AffectsImported'
  BY <1>1 DEF RailInv, RouteTold, AlertTold, CallsTold, RunsFollow, Follows, AffectsImported,
              PathOf, OwnPath, Writing
<1>3. DarwinInTurn'
  <2>. DEFINE run == Reconciled(day)
  <2>1. /\ darwin'.kind = kind /\ darwin'.day = day /\ darwin'.path = path /\ darwin'.cancelled = cancelled
        /\ darwin'.run = run
        /\ darwin'.step = IF kind = "status" THEN "save" ELSE IF run.path # path THEN "base" ELSE "alerts"
    BY DEF Read
  <2>2. run.of = Effective(day) /\ run.path = PathOf(Effective(day), day)
        /\ (Effective(day) = "overlay" => overlay # None)
    BY ReconciledFacts, EffectiveFacts DEF RailInv
  <2>3. PathOf(darwin.run.of, darwin.day)' = PathOf(Effective(day), day)
    BY <1>1, <2>1, <2>2 DEF PathOf, OwnPath
  <2>4. Follows(darwin.run, darwin.day)'
    BY <1>1, <2>1, ReconciledFollows DEF Follows
  <2>5. darwin'.kind = "schedule" /\ darwin'.step \in {"alerts", "save"} => run.path = path /\ darwin'.step = "alerts"
    BY <2>1
  <2>6. kind = "status" => darwin'.step = "save"
    BY <2>1
  <2>7. darwin'.step # "amend"
    BY <2>1
  <2>. HIDE DEF run
  <2>. QED  BY <1>1, <2>1, <2>2, <2>3, <2>4, <2>5, <2>6, <2>7 DEF DarwinInTurn
<1>. QED  BY <1>2, <1>3

LEMMA DarwinUnderReadBase ==
  ASSUME RailInv, ReadBase
  PROVE  RouteTold' /\ AlertTold' /\ CallsTold' /\ RunsFollow' /\ AffectsImported' /\ DarwinInTurn'
<1>1. darwin # None /\ darwin.step = "base" /\ UNCHANGED <<overlay, amended, alerts, runs, told, moved>>
  BY DEF ReadBase
<1>2. darwin \in DarwinMessage
  BY <1>1, InProgress
<1>3. darwin' # None =>
        /\ darwin'.step = "amend" /\ darwin'.affects = Range(OwnPath(darwin.run.of))
        /\ darwin'.kind = darwin.kind /\ darwin'.run = darwin.run /\ darwin'.day = darwin.day
        /\ darwin'.path = darwin.path /\ darwin'.cancelled = darwin.cancelled
  BY <1>2 DEF ReadBase, DarwinMessage, Affects
<1>4. RouteTold' /\ AlertTold' /\ CallsTold' /\ RunsFollow' /\ AffectsImported'
  BY <1>1, <1>3 DEF RailInv, RouteTold, AlertTold, CallsTold, RunsFollow, Follows, AffectsImported,
              PathOf, OwnPath, Writing
<1>5. DarwinInTurn'
  BY <1>1, <1>3 DEF RailInv, DarwinInTurn, OwnPath
<1>. QED  BY <1>4, <1>5

LEMMA DarwinUnderAmend ==
  ASSUME RailInv, Amend
  PROVE  RouteTold' /\ AlertTold' /\ CallsTold' /\ RunsFollow' /\ AffectsImported' /\ DarwinInTurn'
<1>. DEFINE k == <<darwin.run.of, darwin.day>>
            new == [path |-> darwin.path, affects |-> darwin.affects]
<1>1. /\ darwin # None /\ darwin.step = "amend" /\ amended' = [amended EXCEPT ![k] = new]
      /\ UNCHANGED <<overlay, alerts, runs, told, moved>>
  BY DEF Amend
<1>2. darwin \in DarwinMessage /\ darwin.run \in Run /\ k \in Journeys \X Days
      /\ DOMAIN amended = Journeys \X Days
  BY <1>1, InProgress, StoredTypes DEF RailInv
<1>3. darwin.kind = "schedule"
  BY <1>1, <1>2 DEF RailInv, DarwinInTurn, DarwinMessage
<1>4. /\ darwin'.step = "alerts" /\ darwin'.run.of = darwin.run.of /\ darwin'.run.path = darwin.path
      /\ darwin'.kind = darwin.kind /\ darwin'.day = darwin.day
      /\ darwin'.path = darwin.path /\ darwin'.cancelled = darwin.cancelled
  BY <1>2 DEF Amend, DarwinMessage, Run
<1>5. darwin' # None
  BY MessageGoesOn DEF RailInv
<1>6. new # None
  <2>1. new \in Amendment
    BY <1>2 DEF DarwinMessage, Amendment
  <2>. QED  BY <2>1, RailAssumption
<1>7. /\ amended'[k] = new
      /\ \A j \in Journeys, day \in Days : <<j, day>> # k => amended'[<<j, day>>] = amended[<<j, day>>]
  BY <1>1, <1>2
<1>8. /\ PathOf(darwin.run.of, darwin.day)' = darwin.path
      /\ \A j \in Journeys, day \in Days : <<j, day>> # k => PathOf(j, day)' = PathOf(j, day)
  BY <1>1, <1>4, <1>6, <1>7 DEF PathOf, OwnPath
<1>9. /\ Writing(darwin.run.of, darwin.day)'
      /\ \A j \in Journeys, day \in Days : Writing(j, day)' => Writing(j, day) /\ <<j, day>> = k
  BY <1>1, <1>2, <1>3, <1>4, <1>5 DEF Writing
<1>10. RouteTold'
  <2>. SUFFICES ASSUME NEW j \in Journeys, NEW day \in Days, told[<<j, day>>] # None,
                       j = "original" \/ overlay # None, <<j, day>> # k
                PROVE  PathOf(j, day)' = told[<<j, day>>].path
    BY <1>1, <1>4, <1>9 DEF RouteTold
  <2>1. PathOf(j, day) = told[<<j, day>>].path
    BY <1>1 DEF RailInv, RouteTold
  <2>. QED  BY <1>8, <2>1
<1>11. AlertTold'
  BY <1>1, <1>4 DEF RailInv, AlertTold, Writing
<1>12. CallsTold' /\ RunsFollow'
  BY <1>1 DEF RailInv, CallsTold, RunsFollow, Follows
<1>13. AffectsImported'
  <2>1. darwin.run.of = "original" => darwin.affects = Range(Imported)
    BY <1>1 DEF RailInv, DarwinInTurn
  <2>2. \A day \in Days : amended[<<"original", day>>] # None
           => amended[<<"original", day>>].affects = Range(Imported)
    BY DEF RailInv, AffectsImported
  <2>3. "original" \in Journeys
    BY DEF Journeys
  <2>. QED  BY <1>7, <2>1, <2>2, <2>3 DEF AffectsImported
<1>14. DarwinInTurn'
  <2>1. darwin'.run.of = "overlay" /\ "darwin" \notin moved' => overlay' # None
    BY <1>1, <1>4 DEF RailInv, DarwinInTurn
  <2>2. darwin'.cancelled \subseteq DOMAIN darwin'.path
    BY <1>1, <1>4 DEF RailInv, DarwinInTurn
  <2>. QED  BY <1>3, <1>4, <1>8, <2>1, <2>2 DEF DarwinInTurn
<1>. QED  BY <1>10, <1>11, <1>12, <1>13, <1>14

LEMMA DarwinUnderAlert ==
  ASSUME RailInv, Alert
  PROVE  RouteTold' /\ AlertTold' /\ CallsTold' /\ RunsFollow' /\ AffectsImported' /\ DarwinInTurn'
<1>. DEFINE verdict == Verdict(darwin.path, darwin.cancelled)
<1>1. /\ darwin # None /\ darwin.step = "alerts"
      /\ alerts' = AlertsAfter(darwin.run.of, darwin.day, verdict)
      /\ UNCHANGED <<overlay, amended, runs, told, moved>>
  BY DEF Alert
<1>2. darwin \in DarwinMessage /\ darwin.run \in Run
  BY <1>1, InProgress
<1>3. darwin.kind = "schedule"
  BY <1>1, <1>2 DEF RailInv, DarwinInTurn, DarwinMessage
<1>4. /\ darwin'.step = "save" /\ darwin'.run.of = darwin.run.of /\ darwin'.run.path = darwin.run.path
      /\ darwin'.run.calls = darwin.cancelled /\ darwin'.run.cancelled = (verdict = "full")
      /\ darwin'.kind = darwin.kind /\ darwin'.day = darwin.day
      /\ darwin'.path = darwin.path /\ darwin'.cancelled = darwin.cancelled
  BY <1>2 DEF Alert, DarwinMessage, Run
<1>5. darwin' # None
  BY MessageGoesOn DEF RailInv
<1>6. verdict = "full" <=> darwin.cancelled = DOMAIN darwin.path
  BY DEF Verdict
<1>7. /\ <<"full", darwin.run.of, darwin.day>> \in alerts' <=> verdict = "full"
      /\ \A j \in Journeys, day \in Days : <<j, day>> # <<darwin.run.of, darwin.day>> =>
           (<<"full", j, day>> \in alerts' <=> <<"full", j, day>> \in alerts)
  BY <1>1 DEF AlertsAfter
<1>8. \A j \in Journeys, day \in Days :
        /\ PathOf(j, day)' = PathOf(j, day)
        /\ Writing(j, day)' <=> Writing(j, day)
        /\ Writing(j, day) <=> <<j, day>> = <<darwin.run.of, darwin.day>>
  BY <1>1, <1>3, <1>4, <1>5 DEF PathOf, OwnPath, Writing
<1>9. RouteTold'
  BY <1>1, <1>4, <1>8 DEF RailInv, RouteTold
<1>10. AlertTold'
  <2>. SUFFICES ASSUME NEW j \in Journeys, NEW day \in Days, told[<<j, day>>] # None,
                       <<j, day>> # <<darwin.run.of, darwin.day>>
                PROVE  <<"full", j, day>> \in alerts' <=> told[<<j, day>>].cancelled = DOMAIN told[<<j, day>>].path
    BY <1>1, <1>4, <1>8 DEF AlertTold
  <2>1. <<"full", j, day>> \in alerts <=> told[<<j, day>>].cancelled = DOMAIN told[<<j, day>>].path
    BY <1>1 DEF RailInv, AlertTold
  <2>. QED  BY <1>7, <2>1
<1>11. CallsTold' /\ RunsFollow' /\ AffectsImported'
  BY <1>1 DEF RailInv, CallsTold, RunsFollow, Follows, AffectsImported
<1>12. DarwinInTurn'
  <2>1. PathOf(darwin.run.of, darwin.day)' = PathOf(darwin.run.of, darwin.day)
    BY <1>1, <1>4 DEF PathOf, OwnPath
  <2>2. Fresh' <=> Fresh
    BY <1>1, <1>4 DEF Fresh
  <2>3. /\ darwin.run.of = "overlay" /\ "darwin" \notin moved => overlay # None
        /\ darwin.cancelled \subseteq DOMAIN darwin.path /\ darwin.run.path = darwin.path
        /\ Fresh => PathOf(darwin.run.of, darwin.day) = darwin.path
    BY <1>1, <1>3 DEF RailInv, DarwinInTurn
  <2>4. <<"full", darwin'.run.of, darwin'.day>> \in alerts' <=> darwin.cancelled = DOMAIN darwin.path
    BY <1>4, <1>6, <1>7
  <2>. QED  BY <1>1, <1>3, <1>4, <1>6, <2>1, <2>2, <2>3, <2>4 DEF DarwinInTurn
<1>. QED  BY <1>9, <1>10, <1>11, <1>12

LEMMA DarwinUnderSave ==
  ASSUME RailInv, Save
  PROVE  RouteTold' /\ AlertTold' /\ CallsTold' /\ RunsFollow' /\ AffectsImported' /\ DarwinInTurn'
<1>. DEFINE k == <<darwin.run.of, darwin.day>>
            new == IF darwin.run.of = "overlay" /\ "darwin" \in moved THEN None
                   ELSE [path |-> darwin.path, cancelled |-> darwin.cancelled]
<1>1. /\ darwin # None /\ darwin.step = "save" /\ darwin' = None
      /\ runs' = [runs EXCEPT ![darwin.day] = darwin.run]
      /\ told' = IF darwin.kind = "status" THEN told ELSE [told EXCEPT ![k] = new]
      /\ UNCHANGED <<overlay, amended, alerts>>
  BY DEF Save
<1>2. /\ darwin.run \in Run /\ darwin.day \in Days /\ darwin.run.of \in Journeys /\ k \in Journeys \X Days
      /\ DOMAIN told = Journeys \X Days /\ DOMAIN runs = Days
      /\ darwin.kind \in {"status", "schedule"}
      /\ \A j \in Journeys, day \in Days : Writing(j, day) <=> darwin.kind = "schedule" /\ <<j, day>> = k
  BY <1>1, InProgress, StoredTypes DEF RailInv, TypeOK, Writing
<1>3. \A j \in Journeys, day \in Days : PathOf(j, day)' = PathOf(j, day) /\ ~Writing(j, day)'
  BY <1>1 DEF PathOf, OwnPath, Writing
<1>4. darwin.kind = "schedule" =>
        /\ told'[k] = new
        /\ new # None => /\ PathOf(darwin.run.of, darwin.day) = new.path
                         /\ (<<"full", darwin.run.of, darwin.day>> \in alerts <=> new.cancelled = DOMAIN new.path)
                         /\ new.cancelled \subseteq DOMAIN new.path
                         /\ darwin.run.path = new.path /\ darwin.run.calls = new.cancelled
                         /\ (darwin.run.cancelled <=> darwin.run.calls = DOMAIN darwin.run.path)
        /\ new = None => darwin.run.of = "overlay"
  <2>. SUFFICES ASSUME darwin.kind = "schedule"
                PROVE  /\ told'[k] = new
                       /\ new # None => /\ PathOf(darwin.run.of, darwin.day) = new.path
                         /\ (<<"full", darwin.run.of, darwin.day>> \in alerts <=> new.cancelled = DOMAIN new.path)
                         /\ new.cancelled \subseteq DOMAIN new.path
                         /\ darwin.run.path = new.path /\ darwin.run.calls = new.cancelled
                         /\ (darwin.run.cancelled <=> darwin.run.calls = DOMAIN darwin.run.path)
                       /\ new = None => darwin.run.of = "overlay"
    OBVIOUS
  <2>1. told'[k] = new
    BY <1>1, <1>2
  <2>2. /\ darwin.cancelled \subseteq DOMAIN darwin.path
        /\ darwin.run.path = darwin.path /\ (Fresh => PathOf(darwin.run.of, darwin.day) = darwin.path)
        /\ <<"full", darwin.run.of, darwin.day>> \in alerts <=> darwin.cancelled = DOMAIN darwin.path
        /\ darwin.run.calls = darwin.cancelled
        /\ darwin.run.cancelled <=> darwin.cancelled = DOMAIN darwin.path
    BY <1>1 DEF RailInv, DarwinInTurn
  <2>3. new = None => darwin.run.of = "overlay"
    <3>1. [path |-> darwin.path, cancelled |-> darwin.cancelled] \in Told
      BY <1>1, InProgress DEF DarwinMessage, Told
    <3>. QED  BY <3>1, RailAssumption
  <2>4. new # None => Fresh /\ new.path = darwin.path /\ new.cancelled = darwin.cancelled
    BY <1>2 DEF Fresh, Journeys
  <2>. QED  BY <2>1, <2>2, <2>3, <2>4
<1>5. \A j \in Journeys, day \in Days : darwin.kind = "status" \/ <<j, day>> # k
        => told'[<<j, day>>] = told[<<j, day>>] /\ ~Writing(j, day)
  BY <1>1, <1>2
<1>. HIDE DEF new
<1>6. RouteTold'
  BY <1>1, <1>2, <1>3, <1>4, <1>5 DEF RailInv, RouteTold
<1>7. AlertTold'
  BY <1>1, <1>2, <1>3, <1>4, <1>5 DEF RailInv, AlertTold
<1>8. CallsTold'
  BY <1>1, <1>2, <1>4, <1>5 DEF RailInv, CallsTold
<1>9. RunsFollow'
  <2>. SUFFICES ASSUME NEW day \in Days, runs'[day] # None PROVE Follows(runs[day], day)'
    BY DEF RunsFollow
  <2>1. CASE day = darwin.day
    <3>1. runs'[day] = darwin.run
      BY <1>1, <1>2, <2>1
    <3>2. CASE darwin.kind = "schedule"
      BY <1>2, <1>4, <2>1, <3>1, <3>2 DEF Follows
    <3>3. CASE darwin.kind = "status"
      <4>1. Follows(darwin.run, darwin.day)
        BY <1>1, <3>3 DEF RailInv, DarwinInTurn
      <4>. QED  BY <1>1, <2>1, <3>1, <3>3, <4>1 DEF Follows
    <3>. QED  BY <1>2, <3>2, <3>3
  <2>2. CASE day # darwin.day
    <3>1. runs'[day] = runs[day] /\ runs[day] \in Run
      BY <1>1, <1>2, <2>2 DEF RailInv, TypeOK
    <3>2. told'[<<runs[day].of, day>>] = told[<<runs[day].of, day>>]
      BY <1>5, <2>2, <3>1 DEF Run
    <3>. QED  BY <3>1, <3>2 DEF RailInv, RunsFollow, Follows
  <2>. QED  BY <2>1, <2>2
<1>10. AffectsImported' /\ DarwinInTurn'
  BY <1>1 DEF RailInv, AffectsImported, DarwinInTurn
<1>. QED  BY <1>6, <1>7, <1>8, <1>9, <1>10

-----------------------------------------------------------------------------
(* The invariant holds. *)

LEMMA RailInit == Init => RailInv
<1>. SUFFICES ASSUME Init PROVE RailInv
  OBVIOUS
<1>1. TypeOK
  BY TypeInit
<1>2. \A j \in Journeys, day \in Days : told[<<j, day>>] = None /\ amended[<<j, day>>] = None
  BY DEF Init
<1>3. "original" \in Journeys
  BY DEF Journeys
<1>4. HidesReplaced /\ VstpInTurn /\ AlertsOfVstp /\ BoardIsOne /\ DarwinInTurn
  BY DEF Init, HidesReplaced, VstpInTurn, AlertsOfVstp, BoardIsOne, DarwinInTurn
<1>5. RouteTold /\ AlertTold /\ CallsTold /\ AffectsImported
  BY <1>2, <1>3 DEF RouteTold, AlertTold, CallsTold, AffectsImported
<1>6. RunsFollow
  BY DEF Init, RunsFollow
<1>. QED  BY <1>1, <1>4, <1>5, <1>6 DEF RailInv

\* What VSTP writes is not written by the other process, nor read by it here.
LEMMA VstpUnderOthers ==
  ASSUME RailInv, DarwinStep \/ BoardStep
  PROVE  HidesReplaced' /\ VstpInTurn' /\ AlertsOfVstp'
<1>1. UNCHANGED <<overlay, suppressed, withdrawn, vstp, off, torn>>
  BY DEF DarwinStep, BoardStep
<1>2. HidesReplaced' /\ VstpInTurn'
  BY <1>1 DEF RailInv, HidesReplaced, VstpInTurn
<1>3. \A j \in Journeys, day \in Days : <<"vstp", j, day>> \in alerts' <=> <<"vstp", j, day>> \in alerts
  <2>1. CASE Alert
    BY <2>1 DEF Alert, AlertsAfter, Verdict
  <2>2. CASE ~Alert
    <3>1. UNCHANGED alerts
      BY <2>2 DEF DarwinStep, BoardStep, SomeDarwin, Read, ReadBase, Amend, Save
    <3>. QED  BY <3>1
  <2>. QED  BY <2>1, <2>2
<1>4. AlertsOfVstp'
  BY <1>1, <1>3 DEF RailInv, AlertsOfVstp, Journeys
<1>. QED  BY <1>2, <1>4

LEMMA RailStep ==
  ASSUME RailInv, [Next]_vars
  PROVE  RailInv'
<1>1. CASE Next
  <2>1. TypeOK' /\ BoardIsOne'
    BY <1>1, TypeStep, BoardIsOneStep
  <2>2. CASE VstpStep
    BY <2>1, <2>2, HidesReplacedStep, VstpInTurnStep, AlertsOfVstpStep, DarwinUnderVstp DEF RailInv
  <2>3. CASE DarwinStep
    BY <2>1, <2>3, VstpUnderOthers, DarwinUnderRead, DarwinUnderReadBase, DarwinUnderAmend,
       DarwinUnderAlert, DarwinUnderSave DEF RailInv, DarwinStep
  <2>4. CASE BoardStep
    BY <2>1, <2>4, VstpUnderOthers, DarwinUnderBoard DEF RailInv
  <2>. QED  BY <1>1, <2>2, <2>3, <2>4, StepCases
<1>2. CASE UNCHANGED vars
  <2>. USE <1>2 DEF vars
  <2>1. TypeOK' /\ HidesReplaced' /\ VstpInTurn' /\ BoardIsOne'
    BY TypeStep DEF RailInv, HidesReplaced, VstpInTurn, BoardIsOne
  <2>2. AlertsOfVstp'
    BY Zenon DEF RailInv, AlertsOfVstp
  <2>3. RouteTold' /\ AlertTold' /\ CallsTold'
    BY DEF RailInv, RouteTold, AlertTold, CallsTold, PathOf, OwnPath, Writing
  <2>4. RunsFollow' /\ AffectsImported'
    BY DEF RailInv, RunsFollow, Follows, AffectsImported
  <2>5. DarwinInTurn'
    BY DEF RailInv, DarwinInTurn, Follows, PathOf, OwnPath, Fresh
  <2>. QED  BY <2>1, <2>2, <2>3, <2>4, <2>5 DEF RailInv
<1>. QED  BY <1>1, <1>2

\* In every reachable state, what is stored agrees with what was told.
THEOREM RailAgrees == Spec => []RailInv
BY RailInit, RailStep, PTL DEF Spec

-----------------------------------------------------------------------------
(* What a board makes of it. *)

\* The route a board has of a journey, given the journey's own.
RouteAt(j, own, stop, day) ==
  IF AmendmentActive(j, stop, day) THEN board.amended[<<j, day>>].path ELSE own

\* Which journeys a board merges, and the route of each.
LEMMA MergedCases ==
  ASSUME NEW stop, NEW day
  PROVE  /\ OverlayActive(stop, day) =>
              Merged(stop, day) = {<<"overlay", RouteAt("overlay", board.overlay.path, stop, day)>>}
         /\ ~OverlayActive(stop, day) /\ ~AmendmentActive("overlay", stop, day) =>
              Merged(stop, day) = {<<"original", RouteAt("original", Imported, stop, day)>>}
         /\ ~OverlayActive(stop, day) /\ AmendmentActive("overlay", stop, day) =>
              Merged(stop, day) = {<<"original", RouteAt("original", Imported, stop, day)>>,
                                   <<"overlay", board.amended[<<"overlay", day>>].path>>}
BY DEF Merged, Journeys, RouteAt

LEMMA MergedSome ==
  ASSUME NEW stop, NEW day
  PROVE  /\ OverlayActive(stop, day) =>
              <<"overlay", RouteAt("overlay", board.overlay.path, stop, day)>> \in Merged(stop, day)
         /\ ~OverlayActive(stop, day) =>
              <<"original", RouteAt("original", Imported, stop, day)>> \in Merged(stop, day)
         /\ \A j, path : <<j, path>> \in Merged(stop, day) =>
              \/ j = "overlay" /\ OverlayActive(stop, day) /\ path = RouteAt(j, board.overlay.path, stop, day)
              \/ j = "overlay" /\ AmendmentActive(j, stop, day) /\ path = board.amended[<<j, day>>].path
              \/ j = "original" /\ path = RouteAt(j, Imported, stop, day)
BY DEF Merged, Journeys, RouteAt

\* The entries of a board are the journeys merged, without those hidden or not departing there.
LEMMA BoardEntries ==
  ASSUME NEW stop, NEW day
  PROVE  /\ \A e \in Board(stop, day) :
              /\ <<e.journey, e.path>> \in Merged(stop, day) /\ stop \in Origins(e.path)
              /\ ~Hidden(e.journey, day) /\ e.cancelled = WholeCancelled(e.journey, day)
              /\ e = [journey |-> e.journey, path |-> e.path, cancelled |-> WholeCancelled(e.journey, day)]
         /\ \A j, path : <<j, path>> \in Merged(stop, day) /\ stop \in Origins(path) /\ ~Hidden(j, day)
              => [journey |-> j, path |-> path, cancelled |-> WholeCancelled(j, day)] \in Board(stop, day)
<1>1. ASSUME NEW m \in Merged(stop, day)
      PROVE  \E j, path : m = <<j, path>>
  BY <1>1 DEF Merged
<1>2. ASSUME NEW e \in Board(stop, day)
      PROVE  /\ <<e.journey, e.path>> \in Merged(stop, day) /\ stop \in Origins(e.path)
             /\ ~Hidden(e.journey, day) /\ e.cancelled = WholeCancelled(e.journey, day)
             /\ e = [journey |-> e.journey, path |-> e.path, cancelled |-> WholeCancelled(e.journey, day)]
  <2>. PICK m \in Merged(stop, day) :
         /\ stop \in Origins(m[2]) /\ ~Hidden(m[1], day)
         /\ e = [journey |-> m[1], path |-> m[2], cancelled |-> WholeCancelled(m[1], day)]
    BY <1>2 DEF Board
  <2>1. m = <<m[1], m[2]>>
    BY <1>1
  <2>. QED  BY <2>1
<1>3. ASSUME NEW j, NEW path, <<j, path>> \in Merged(stop, day), stop \in Origins(path), ~Hidden(j, day)
      PROVE  [journey |-> j, path |-> path, cancelled |-> WholeCancelled(j, day)] \in Board(stop, day)
  <2>. DEFINE m == <<j, path>>
  <2>1. m \in Merged(stop, day) /\ m[1] = j /\ m[2] = path
    BY <1>3
  <2>. QED  BY <1>3, <2>1 DEF Board
<1>. QED  BY <1>2, <1>3

\* Every route merged is one of the routes, of one of the two journeys.
LEMMA MergedTypes ==
  ASSUME TypeOK, board # None, NEW stop, NEW day \in Days
  PROVE  /\ \A j, path : <<j, path>> \in Merged(stop, day) => j \in Journeys /\ path \in Paths
         /\ \A j \in Journeys : board.amended[<<j, day>>] \in Amendment \cup {None}
         /\ board.overlay \in Overlay \cup {None}
<1>1. board \in BoardQuery
  BY DEF TypeOK
<1>2. /\ \A j \in Journeys : board.amended[<<j, day>>] \in Amendment \cup {None}
      /\ board.overlay \in Overlay \cup {None}
  BY <1>1 DEF BoardQuery, Amended
<1>3. \A j, path : <<j, path>> \in Merged(stop, day) => j \in Journeys /\ path \in Paths
  <2>1. \A j \in Journeys : AmendmentActive(j, stop, day) => board.amended[<<j, day>>].path \in Paths
    BY <1>2 DEF AmendmentActive, Amendment
  <2>2. OverlayActive(stop, day) => board.overlay.path \in Paths
    BY <1>2 DEF OverlayActive, Overlay
  <2>3. Imported \in Paths /\ "original" \in Journeys /\ "overlay" \in Journeys
    BY RailAssumption DEF Journeys
  <2>. QED  BY <2>1, <2>2, <2>3, MergedSome DEF RouteAt
<1>. QED  BY <1>2, <1>3

\* No board has the train twice.
LEMMA NotTwice ==
  ASSUME RailInv, board # None, NEW day \in Days, ~Orphaned(day), NEW stop, ~Diverted(stop, day)
  PROVE  Cardinality(Board(stop, day)) <= 1
<1>. DEFINE B == Board(stop, day)
<1>1. TypeOK /\ BoardIsOne
  BY DEF RailInv
<1>2. \A e \in B : <<e.journey, e.path>> \in Merged(stop, day) /\ stop \in Origins(e.path)
                   /\ e = [journey |-> e.journey, path |-> e.path, cancelled |-> WholeCancelled(e.journey, day)]
  BY BoardEntries
<1>3. \E j, path : \A e \in B : e.journey = j /\ e.path = path
  <2>1. CASE OverlayActive(stop, day) \/ ~AmendmentActive("overlay", stop, day)
    <3>1. \E j, path : Merged(stop, day) = {<<j, path>>}
      BY <1>1, <2>1, MergedCases
    <3>. QED  BY <1>2, <3>1
  <2>2. CASE ~OverlayActive(stop, day) /\ AmendmentActive("overlay", stop, day)
    <3>1. board.overlay # None /\ day \in board.overlay.days
      BY <1>1, <2>2 DEF AmendmentActive, BoardIsOne, Orphaned
    <3>2. stop \notin Range(Imported) /\ ~AmendmentActive("original", stop, day)
      BY <2>2, <3>1 DEF OverlayActive, Diverted
    <3>3. stop \notin Origins(Imported)
      BY <3>2, RouteFacts, RailAssumption
    <3>4. Merged(stop, day) = {<<"original", Imported>>, <<"overlay", board.amended[<<"overlay", day>>].path>>}
      BY <1>1, <2>2, <3>2, MergedCases DEF RouteAt
    <3>. QED  BY <1>2, <3>3, <3>4
  <2>. QED  BY <2>1, <2>2
<1>4. \A e \in B, f \in B : e = f
  BY <1>2, <1>3
<1>5. CASE B = {}
  BY <1>5, FS_EmptySet
<1>6. CASE B # {}
  <2>. PICK e \in B : TRUE
    BY <1>6
  <2>1. B = {e}
    BY <1>4
  <2>. QED  BY <2>1, FS_Singleton
<1>. QED  BY <1>5, <1>6

\* The route a board has of the train on a day is listed wherever it departs.
LEMMA RouteListed ==
  ASSUME RailInv, board # None, "board" \notin moved, NEW day \in Days
  PROVE  \E path \in Paths : \A stop \in Origins(path) : \E e \in Board(stop, day) : e.path = path
<1>. DEFINE j == Effective(day)
            a == board.amended[<<j, day>>]
            path == IF a # None THEN a.path ELSE OwnPath(j)
<1>1. TypeOK /\ board.overlay = overlay /\ (suppressed # None => overlay # None /\ suppressed = overlay.days)
  BY DEF RailInv, BoardIsOne, HidesReplaced
<1>2. j \in Journeys /\ (j = "overlay" <=> overlay # None /\ day \in overlay.days)
      /\ (j = "original" \/ j = "overlay")
  BY <1>1, EffectiveFacts DEF Journeys
<1>3. path \in Paths
  <2>1. a # None => a.path \in Paths
    BY <1>1, <1>2, MergedTypes DEF Amendment
  <2>2. OwnPath(j) \in Paths
    BY <1>1, <1>2, PathOfFacts
  <2>. QED  BY <2>1, <2>2
<1>4. ~Hidden(j, day)
  BY <1>1, <1>2 DEF Hidden
<1>5. ASSUME NEW stop \in Origins(path)
      PROVE  <<j, path>> \in Merged(stop, day)
  <2>1. a # None => AmendmentActive(j, stop, day)
    BY <1>5 DEF AmendmentActive
  <2>2. a = None => ~AmendmentActive(j, stop, day)
    BY DEF AmendmentActive
  <2>3. CASE j = "original"
    <3>1. ~OverlayActive(stop, day) /\ OwnPath(j) = Imported
      BY <1>1, <1>2, <2>3 DEF OverlayActive, OwnPath
    <3>2. path = RouteAt(j, Imported, stop, day)
      BY <2>1, <2>2, <3>1 DEF RouteAt
    <3>. QED  BY <2>3, <3>1, <3>2, MergedSome
  <2>4. CASE j = "overlay"
    <3>1. OwnPath(j) = board.overlay.path
      BY <1>1, <2>4 DEF OwnPath
    <3>2. CASE OverlayActive(stop, day)
      <4>1. path = RouteAt(j, board.overlay.path, stop, day)
        BY <2>1, <2>2, <3>1 DEF RouteAt
      <4>. QED  BY <2>4, <3>2, <4>1, MergedSome
    <3>3. CASE ~OverlayActive(stop, day)
      <4>1. a # None
        BY <1>1, <1>2, <1>5, <2>4, <3>1, <3>3 DEF OverlayActive
      <4>2. AmendmentActive("overlay", stop, day) /\ path = board.amended[<<"overlay", day>>].path
        BY <2>1, <2>4, <4>1
      <4>. QED  BY <2>4, <3>3, <4>2, MergedCases
    <3>. QED  BY <3>2, <3>3
  <2>. QED  BY <1>2, <2>3, <2>4
<1>. HIDE DEF path
<1>6. \A stop \in Origins(path) : \E e \in Board(stop, day) : e.path = path
  <2>. SUFFICES ASSUME NEW stop \in Origins(path)
                PROVE  \E e \in Board(stop, day) : e.path = path
    OBVIOUS
  <2>1. [journey |-> j, path |-> path, cancelled |-> WholeCancelled(j, day)] \in Board(stop, day)
    BY <1>4, <1>5, BoardEntries
  <2>. QED  BY <2>1
<1>. QED  BY <1>3, <1>6

LEMMA ListedAgrees == RailInv => ListedOnce
BY NotTwice, RouteListed DEF ListedOnce

\* The routes of a board are those merged that depart there and are not hidden.
LEMMA BoardPaths ==
  ASSUME NEW stop, NEW day
  PROVE  \A path : path \in {e.path : e \in Board(stop, day)} <=>
           \E j : <<j, path>> \in Merged(stop, day) /\ stop \in Origins(path) /\ ~Hidden(j, day)
<1>1. ASSUME NEW e \in Board(stop, day)
      PROVE  \E j : <<j, e.path>> \in Merged(stop, day) /\ stop \in Origins(e.path) /\ ~Hidden(j, day)
  BY BoardEntries
<1>2. ASSUME NEW j, NEW path, <<j, path>> \in Merged(stop, day), stop \in Origins(path), ~Hidden(j, day)
      PROVE  \E e \in Board(stop, day) : e.path = path
  <2>1. [journey |-> j, path |-> path, cancelled |-> WholeCancelled(j, day)] \in Board(stop, day)
    BY <1>2, BoardEntries
  <2>. QED  BY <2>1
<1>. QED  BY <1>1, <1>2

LEMMA FollowsDarwin ==
  ASSUME RailInv, board # None, "board" \notin moved, darwin = None, NEW day \in Days,
         told[<<Effective(day), day>>] # None,
         board.amended[<<Effective(day), day>>] = amended[<<Effective(day), day>>],
         IF Effective(day) = "overlay" THEN ~Outdated(day) ELSE ~Orphaned(day),
         NEW stop, ~Diverted(stop, day)
  PROVE  {e.path : e \in Board(stop, day)} =
           IF stop \in Origins(told[<<Effective(day), day>>].path)
           THEN {told[<<Effective(day), day>>].path} ELSE {}
<1>. DEFINE j == Effective(day)
            p == told[<<j, day>>].path
            a == board.amended[<<j, day>>]
            paths == {e.path : e \in Board(stop, day)}
<1>1. TypeOK /\ RouteTold /\ AffectsImported /\ board.overlay = overlay /\ Imported \in Paths
      /\ (board.overlay = None => board.amended[<<"overlay", day>>] = None)
      /\ (suppressed # None => overlay # None /\ suppressed = overlay.days)
  BY RailAssumption DEF RailInv, BoardIsOne, HidesReplaced
<1>2. j \in Journeys /\ (j = "overlay" <=> overlay # None /\ day \in overlay.days)
      /\ (j = "original" \/ j = "overlay")
  BY <1>1, EffectiveFacts DEF Journeys
<1>3. p = PathOf(j, day)
  BY <1>1, <1>2 DEF RouteTold, Writing
<1>4. p = IF a # None THEN a.path ELSE OwnPath(j)
  BY <1>3 DEF PathOf
<1>5. (a # None => a.path \in Paths) /\ OwnPath(j) \in Paths /\ p \in Paths
  <2>1. a # None => a.path \in Paths
    BY <1>1, <1>2, MergedTypes DEF Amendment
  <2>2. OwnPath(j) \in Paths
    BY <1>1, <1>2, PathOfFacts
  <2>. QED  BY <1>4, <2>1, <2>2
<1>6. \A path \in Paths : stop \in Origins(path) => stop \in Range(path)
  BY RouteFacts
<1>7. ~Hidden("overlay", day)
  BY DEF Hidden
<1>b. \A path : path \in paths <=>
        \E k : <<k, path>> \in Merged(stop, day) /\ stop \in Origins(path) /\ ~Hidden(k, day)
  BY BoardPaths
<1>. SUFFICES paths = IF stop \in Origins(p) THEN {p} ELSE {}
  OBVIOUS
<1>. HIDE DEF p, paths
<1>8. CASE j = "overlay"
  <2>1. OwnPath(j) = overlay.path /\ overlay # None /\ day \in overlay.days
    BY <1>2, <1>8 DEF OwnPath
  <2>2. CASE OverlayActive(stop, day)
    <3>1. Merged(stop, day) = {<<"overlay", RouteAt("overlay", overlay.path, stop, day)>>}
      BY <1>1, <1>8, <2>2, MergedCases
    <3>2. CASE AmendmentActive("overlay", stop, day) \/ a = None
      <4>1. Merged(stop, day) = {<<"overlay", p>>}
        BY <1>4, <1>8, <2>1, <3>1, <3>2 DEF AmendmentActive, RouteAt
      <4>. QED  BY <1>7, <4>1, <1>b
    <3>3. CASE ~AmendmentActive("overlay", stop, day) /\ a # None
      <4>1. stop \notin Origins(a.path) /\ stop \notin a.affects
        BY <1>8, <3>3 DEF AmendmentActive, RouteAt
      <4>2. Origins(overlay.path) \subseteq a.affects
        BY <1>1, <1>8, <2>1, <3>3 DEF Outdated
      <4>3. stop \notin Origins(p) /\ stop \notin Origins(overlay.path)
        BY <1>4, <1>5, <1>6, <2>1, <3>3, <4>1, <4>2
      <4>4. \A path : path \notin paths
        BY <3>1, <3>3, <4>3, <1>b DEF RouteAt
      <4>. QED  BY <4>3, <4>4
    <3>. QED  BY <3>2, <3>3
  <2>3. CASE ~OverlayActive(stop, day)
    <3>1. stop \notin Origins(overlay.path) /\ stop \notin Range(Imported)
      BY <1>1, <2>1, <2>3 DEF OverlayActive
    <3>2. ~AmendmentActive("original", stop, day)
      BY <1>1, <2>1, <2>3 DEF Diverted
    <3>3. stop \notin Origins(Imported) /\ stop \notin Origins(overlay.path)
      BY <1>1, <1>5, <1>6, <2>1, <3>1
    <3>4. CASE AmendmentActive("overlay", stop, day)
      <4>1. Merged(stop, day) = {<<"original", Imported>>, <<"overlay", p>>}
        BY <1>1, <1>4, <1>8, <2>3, <3>2, <3>4, MergedCases DEF AmendmentActive, RouteAt
      <4>2. \A path : path \in paths <=> path = p /\ stop \in Origins(p)
        BY <1>7, <3>3, <4>1, <1>b
      <4>. QED  BY <4>2
    <3>5. CASE ~AmendmentActive("overlay", stop, day)
      <4>1. Merged(stop, day) = {<<"original", Imported>>}
        BY <1>1, <2>3, <3>2, <3>5, MergedCases DEF RouteAt
      <4>2. \A path : path \notin paths
        BY <3>3, <4>1, <1>b
      <4>3. stop \notin Origins(p)
        BY <1>4, <1>5, <1>6, <1>8, <2>1, <3>3, <3>5 DEF AmendmentActive, RouteAt
      <4>. QED  BY <4>2, <4>3
    <3>. QED  BY <3>4, <3>5
  <2>. QED  BY <2>2, <2>3
<1>9. CASE j = "original"
  <2>1. ~(overlay # None /\ day \in overlay.days) /\ OwnPath(j) = Imported
    BY <1>2, <1>9 DEF OwnPath
  <2>2. ~OverlayActive(stop, day) /\ ~Hidden("original", day)
    BY <1>1, <2>1 DEF OverlayActive, Hidden
  <2>3. ~AmendmentActive("overlay", stop, day)
    BY <1>1, <1>9, <2>1 DEF AmendmentActive, Orphaned
  <2>4. Merged(stop, day) = {<<"original", RouteAt("original", Imported, stop, day)>>}
    BY <1>1, <1>9, <2>2, <2>3, MergedCases
  <2>5. CASE AmendmentActive("original", stop, day) \/ a = None
    <3>1. Merged(stop, day) = {<<"original", p>>}
      BY <1>4, <1>9, <2>1, <2>4, <2>5 DEF AmendmentActive, RouteAt
    <3>. QED  BY <2>2, <3>1, <1>b
  <2>6. CASE ~AmendmentActive("original", stop, day) /\ a # None
    <3>1. a.affects = Range(Imported)
      BY <1>1, <1>9, <2>6 DEF AffectsImported
    <3>2. stop \notin Origins(a.path) /\ stop \notin Range(Imported)
      BY <1>9, <2>6, <3>1 DEF AmendmentActive, RouteAt
    <3>3. stop \notin Origins(p) /\ stop \notin Origins(Imported)
      BY <1>1, <1>4, <1>5, <1>6, <2>6, <3>2
    <3>4. \A path : path \notin paths
      BY <2>4, <2>6, <3>3, <1>b DEF RouteAt
    <3>. QED  BY <3>3, <3>4
  <2>. QED  BY <2>5, <2>6
<1>. QED  BY <1>2, <1>8, <1>9

LEMMA FollowsAgrees == RailInv => BoardFollowsDarwin
BY FollowsDarwin DEF BoardFollowsDarwin

\* A train of the board is cancelled by Darwin's alert or run, or by VSTP's alert; the record of a
\* VSTP cancellation adds nothing while all messages are complete.
LEMMA CancelledAgrees == RailInv => CancelledAsTold
<1>. SUFFICES ASSUME RailInv, board # None, "board" \notin moved, vstp = None, darwin = None, ~torn,
                     NEW day \in Days, NEW stop \in Stops, NEW e \in Board(stop, day),
                     told[<<e.journey, day>>] # None
              PROVE  e.cancelled <=>
                       (told[<<e.journey, day>>].cancelled = DOMAIN told[<<e.journey, day>>].path
                          \/ (e.journey = "original" /\ day \in off))
  BY DEF CancelledAsTold
<1>. DEFINE j == e.journey
            t == told[<<j, day>>]
<1>1. TypeOK /\ AlertsOfVstp /\ AlertTold /\ RunsFollow
  BY DEF RailInv
<1>2. e.cancelled = WholeCancelled(j, day) /\ j \in Journeys /\ (j = "original" \/ j = "overlay")
  <2>1. <<j, e.path>> \in Merged(stop, day) /\ e.cancelled = WholeCancelled(j, day)
    BY BoardEntries
  <2>2. j = "original" \/ j = "overlay"
    BY <2>1, MergedSome
  <2>. QED  BY <2>1, <2>2 DEF Journeys
<1>3. <<"full", j, day>> \in alerts <=> t.cancelled = DOMAIN t.path
  BY <1>1, <1>2 DEF AlertTold, Writing
<1>4. <<"vstp", j, day>> \in alerts <=> j = "original" /\ day \in off
  BY <1>1, <1>2 DEF AlertsOfVstp
<1>5. ~Legacy(j, day)
  <2>1. withdrawn = None \/ off # {}
    BY <1>1 DEF AlertsOfVstp
  <2>2. off \subseteq Days
    BY <1>1 DEF TypeOK
  <2>. QED  BY <1>1, <2>1, <2>2 DEF AlertsOfVstp, Legacy
<1>6. FoundRun(j, day) /\ runs[day].cancelled => t.cancelled = DOMAIN t.path
  <2>. SUFFICES ASSUME FoundRun(j, day), runs[day].cancelled PROVE t.cancelled = DOMAIN t.path
    OBVIOUS
  <2>1. runs[day] \in Run /\ runs[day].of = j /\ runs[day].path \in Paths
    BY <1>1 DEF TypeOK, FoundRun, Run
  <2>2. runs[day].path = t.path /\ runs[day].calls \in {{}, t.cancelled}
        /\ runs[day].calls = DOMAIN runs[day].path
    BY <1>1, <2>1 DEF RunsFollow, Follows, FoundRun
  <2>3. DOMAIN t.path # {}
    BY <2>1, <2>2, RouteFacts
  <2>. QED  BY <2>2, <2>3
<1>. QED  BY <1>2, <1>3, <1>4, <1>5, <1>6 DEF WholeCancelled

LEMMA RunsAgree == RailInv => RunFollowsSchedule
BY DEF RailInv, RunsFollow, Follows, RunFollowsSchedule

\* Boards list the train once, at the stops of the route that Darwin last gave, in any state of the
\* two processes' writes.
THEOREM ListedAsTold == Spec => []TrainsListed
<1>1. RailInv => TrainsListed
  BY ListedAgrees, FollowsAgrees DEF TrainsListed, RailInv
<1>. QED  BY <1>1, RailAgrees, PTL

\* Boards show the train cancelled exactly when it is, and its runs have the calls Darwin cancelled.
THEOREM CancelledWhenTold == Spec => []CancellationsShown
<1>1. RailInv => CancellationsShown
  BY CancelledAgrees, RunsAgree DEF CancellationsShown
<1>. QED  BY <1>1, RailAgrees, PTL

-----------------------------------------------------------------------------
(* SubscriptionCache: of which moment a copy is, and when it will have been replaced. *)

\* The copy was compiled at a time from which the next reload is not far, and unless the day
\* ended before it was installed the next reload begins with the next day at the latest.
NextReload == IF phase = "wait" THEN due ELSE begun

CompiledAt(c) ==
  /\ cache = DaysAt(c)
  /\ NextReload <= c + MaxReload + Interval
  /\ ~late => NextReload <= DayLength * (Day(c) + 1)

CacheInv ==
  /\ now \in Nat /\ due \in Nat /\ begun \in Nat /\ phase \in {"wait", "read", "plan"} /\ late \in BOOLEAN
  /\ phase = "wait" => now <= due
  /\ phase # "wait" => begun <= now /\ now <= begun + MaxReload
  /\ phase = "plan" => \E c \in Nat : begun <= c /\ c <= now /\ compiled = DaysAt(c)
  /\ ~failed => \E c \in Nat : c <= now /\ CompiledAt(c)

LEMMA DivisionBy ==
  ASSUME NEW t \in Nat, NEW m \in Nat \ {0}
  PROVE  \E q \in Nat, r \in Nat : q = t \div m /\ r = t % m /\ t = m * q + r /\ r < m
<1>1. t \div m \in Nat /\ t % m \in 0..(m - 1) /\ t = m * (t \div m) + (t % m)
  OBVIOUS
<1>. QED  BY <1>1

LEMMA Division ==
  ASSUME NEW t \in Nat
  PROVE  \E q \in Nat, r \in Nat : q = Day(t) /\ r = t % DayLength /\ t = DayLength * q + r /\ r < DayLength
BY DivisionBy, CacheAssumption DEF Day

LEMMA Multiples ==
  ASSUME NEW p \in Nat, NEW q \in Nat, p <= q
  PROVE  DayLength * p <= DayLength * q /\ DayLength * p \in Nat /\ DayLength * q \in Nat
BY CacheAssumption

\* A time that is not on the day, but not long after its end.
LEMMA IntoTheDay ==
  ASSUME NEW t \in Nat, NEW c \in Nat, c <= t, Day(t) # Day(c),
         NEW over \in Nat, t <= DayLength * (Day(c) + 1) + over
  PROVE  t % DayLength <= over
<1>1. PICK q \in Nat, r \in Nat : q = Day(t) /\ r = t % DayLength /\ t = DayLength * q + r
  BY Division
<1>2. PICK p \in Nat, s \in Nat : p = Day(c) /\ c = DayLength * p + s /\ s < DayLength
  BY Division
<1>3. p + 1 <= q
  <2>. SUFFICES ASSUME q < p  PROVE  FALSE
    BY <1>1, <1>2
  <2>1. DayLength * (q + 1) <= DayLength * p /\ DayLength * p \in Nat
    BY Multiples
  <2>2. r < DayLength
    BY <1>1, Division
  <2>3. DayLength * (q + 1) = DayLength * q + DayLength /\ DayLength * q \in Nat /\ DayLength \in Nat
    BY CacheAssumption
  <2>. QED  BY <1>1, <1>2, <2>1, <2>2, <2>3
<1>4. DayLength * (p + 1) <= DayLength * q /\ DayLength * (p + 1) \in Nat /\ DayLength * q \in Nat
  BY <1>3, Multiples
<1>. QED  BY <1>1, <1>2, <1>4

\* The timer fires within the interval and no later than the day ends.
LEMMA WaitEnds ==
  ASSUME NEW t \in Nat
  PROVE  Wait(t) \in Nat /\ Wait(t) <= Interval /\ t + Wait(t) <= DayLength * (Day(t) + 1)
<1>1. PICK q \in Nat, r \in Nat : q = Day(t) /\ r = t % DayLength /\ t = DayLength * q + r /\ r < DayLength
  BY Division
<1>2. DayLength * (q + 1) = DayLength * q + DayLength /\ DayLength * q \in Nat /\ DayLength \in Nat /\ Interval \in Nat
  BY CacheAssumption
<1>. QED  BY <1>1, <1>2 DEF Wait, UntilNextDay

LEMMA CacheStarts == CacheInit => CacheInv
<1>. SUFFICES ASSUME CacheInit  PROVE  CacheInv
  OBVIOUS
<1>1. now \in Nat
  BY CacheAssumption DEF CacheInit
<1>2. Wait(now) \in Nat /\ Wait(now) <= Interval /\ now + Wait(now) <= DayLength * (Day(now) + 1)
  BY <1>1, WaitEnds
<1>3. CompiledAt(now)
  BY <1>1, <1>2, CacheAssumption DEF CacheInit, CompiledAt, NextReload
<1>4. due = now + Wait(now) /\ due \in Nat /\ now <= due /\ begun = now /\ phase = "wait" /\ late = FALSE
  BY <1>1, <1>2 DEF CacheInit
<1>5. \E c \in Nat : c <= now /\ CompiledAt(c)
  BY <1>1, <1>3
<1>. QED  BY <1>1, <1>4, <1>5 DEF CacheInv

LEMMA InstallKeepsCache ==
  ASSUME CacheInv, Install
  PROVE  CacheInv'
<1>1. PICK c \in Nat : begun <= c /\ c <= now /\ compiled = DaysAt(c)
  BY DEF CacheInv, Install
<1>2. now \in Nat /\ Wait(now) \in Nat /\ Wait(now) <= Interval /\ now + Wait(now) <= DayLength * (Day(now) + 1)
  BY WaitEnds DEF CacheInv
<1>3. due' = now + Wait(now) /\ phase' = "wait" /\ cache' = DaysAt(c) /\ now' = now /\ begun' = begun
  BY <1>1 DEF Install
<1>4. now <= begun + MaxReload /\ begun \in Nat
  BY DEF CacheInv, Install
<1>5. ~late' => Day(c) = Day(now)
  BY <1>1 DEF Install, DaysAt
<1>6. CompiledAt(c)'
  <2>1. due' <= c + MaxReload + Interval
    BY <1>1, <1>2, <1>3, <1>4, CacheAssumption
  <2>2. ~late' => due' <= DayLength * (Day(c) + 1)
    BY <1>2, <1>3, <1>5
  <2>3. cache' = DaysAt(c)' /\ NextReload' = due'
    BY <1>3 DEF DaysAt, Day, NextReload
  <2>. QED  BY <2>1, <2>2, <2>3 DEF CompiledAt, Day
<1>7. late' \in BOOLEAN /\ c <= now'
  BY <1>1, <1>3 DEF Install
<1>8. due' \in Nat /\ now' <= due'
  BY <1>2, <1>3
<1>. QED  BY <1>1, <1>3, <1>6, <1>7, <1>8, <1>2, <1>4 DEF CacheInv

LEMMA CacheSteps == CacheInv /\ [CacheNext]_cacheVars => CacheInv'
<1>. SUFFICES ASSUME CacheInv, [CacheNext]_cacheVars  PROVE  CacheInv'
  OBVIOUS
<1>0. MaxReload \in Nat /\ Interval \in Nat
  BY CacheAssumption
<1>1. CASE Tick
  <2>1. ASSUME NEW c \in Nat  PROVE  CompiledAt(c) => CompiledAt(c)'
    BY <1>1 DEF Tick, CompiledAt, NextReload, DaysAt, Day
  <2>. QED  BY <1>0, <1>1, <2>1 DEF Tick, CacheInv, DaysAt, Day
<1>2. CASE Fire
  <2>1. ASSUME NEW c \in Nat  PROVE  CompiledAt(c) => CompiledAt(c)'
    BY <1>2 DEF Fire, CompiledAt, NextReload, DaysAt, Day, CacheInv
  <2>. QED  BY <1>0, <1>2, <2>1 DEF Fire, CacheInv
<1>3. CASE Compile
  <2>1. ASSUME NEW c \in Nat  PROVE  CompiledAt(c) => CompiledAt(c)'
    BY <1>3 DEF Compile, CompiledAt, NextReload, DaysAt, Day
  <2>2. compiled' = DaysAt(now)' /\ begun' <= now /\ now \in Nat /\ now' = now
    BY <1>3 DEF Compile, CacheInv, DaysAt, Day
  <2>. QED  BY <1>0, <1>3, <2>1, <2>2 DEF Compile, CacheInv, DaysAt, Day
<1>4. CASE Install
  BY <1>4, InstallKeepsCache
<1>5. CASE Fail
  <2>1. Wait(now) \in Nat
    BY WaitEnds DEF CacheInv
  <2>. QED  BY <1>5, <2>1 DEF Fail, CacheInv
<1>6. CASE UNCHANGED cacheVars
  <2>1. ASSUME NEW c \in Nat  PROVE  CompiledAt(c) => CompiledAt(c)'
    BY <1>6 DEF cacheVars, CompiledAt, NextReload, DaysAt, Day
  <2>. QED  BY <1>6, <2>1 DEF cacheVars, CacheInv, DaysAt, Day
<1>. QED  BY <1>1, <1>2, <1>3, <1>4, <1>5, <1>6 DEF CacheNext

LEMMA CacheIsOfToday == CacheInv => TodaysSubscriptions
<1>. SUFFICES ASSUME CacheInv, ~failed  
              PROVE  /\ cache.own # Day(now) =>
                          now % DayLength <= IF late THEN Interval + 2 * MaxReload ELSE MaxReload
                     /\ cache.commute # Day(now + Shift) =>
                          (now + Shift) % DayLength <= Interval + 2 * MaxReload
  BY DEF TodaysSubscriptions
<1>1. PICK c \in Nat : c <= now /\ CompiledAt(c)
  BY DEF CacheInv
<1>2. now \in Nat /\ MaxReload \in Nat /\ Interval \in Nat /\ Shift \in Nat /\ NextReload \in Nat
  BY CacheAssumption DEF CacheInv, NextReload
<1>3. now <= NextReload + MaxReload
  BY <1>2 DEF CacheInv, NextReload
<1>4. ASSUME NEW t \in Nat  PROVE  t < DayLength * (Day(t) + 1) /\ DayLength * (Day(t) + 1) \in Nat
  <2>1. PICK q \in Nat, r \in Nat : q = Day(t) /\ r = t % DayLength /\ t = DayLength * q + r /\ r < DayLength
    BY Division
  <2>2. DayLength * (q + 1) = DayLength * q + DayLength /\ DayLength * q \in Nat /\ DayLength \in Nat
    BY CacheAssumption
  <2>. QED  BY <2>1, <2>2
<1>5. now <= c + (Interval + 2 * MaxReload)
  BY <1>1, <1>2, <1>3 DEF CompiledAt
<1>6. ASSUME ~late, Day(now) # Day(c)  PROVE  now % DayLength <= MaxReload
  <2>1. now <= DayLength * (Day(c) + 1) + MaxReload
    BY <1>1, <1>2, <1>3, <1>4, <1>6 DEF CompiledAt
  <2>. QED  BY <1>1, <1>2, <1>6, <2>1, IntoTheDay
<1>7. ASSUME Day(now) # Day(c)  PROVE  now % DayLength <= Interval + 2 * MaxReload
  <2>1. now <= DayLength * (Day(c) + 1) + (Interval + 2 * MaxReload)
    BY <1>1, <1>2, <1>4, <1>5
  <2>2. Interval + 2 * MaxReload \in Nat
    BY <1>2
  <2>. QED  BY <1>1, <1>2, <1>7, <2>1, <2>2, IntoTheDay
<1>8. ASSUME Day(now + Shift) # Day(c + Shift)  PROVE  (now + Shift) % DayLength <= Interval + 2 * MaxReload
  <2>1. now + Shift \in Nat /\ c + Shift \in Nat /\ c + Shift <= now + Shift /\ Interval + 2 * MaxReload \in Nat
    BY <1>1, <1>2
  <2>2. now + Shift <= DayLength * (Day(c + Shift) + 1) + (Interval + 2 * MaxReload)
    BY <1>2, <1>4, <1>5, <2>1
  <2>. QED  BY <1>8, <2>1, <2>2, IntoTheDay
<1>9. cache.own = Day(c) /\ cache.commute = Day(c + Shift)
  BY <1>1 DEF CompiledAt, DaysAt
<1>. QED  BY <1>6, <1>7, <1>8, <1>9

\* Unless a reload failed, subscriptions are compiled for the present day but for the time reloads
\* take after a midnight, for any length of a day and of the interval (subscription_cache.go:28-83).
THEOREM SubscriptionsAreTodays == CacheSpec => []TodaysSubscriptions
<1>. QED  BY CacheStarts, CacheSteps, CacheIsOfToday, PTL DEF CacheSpec

=============================================================================
