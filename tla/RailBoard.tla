------------------------------- MODULE RailBoard -------------------------------
(***************************************************************************)
(* One train of the rail timetable.  Network Rail's VSTP feed overlays it with a  *)
(* short-notice schedule, or cancels it, on some days; Darwin reports the calls of *)
(* a day's run and which of them are cancelled, and may change the route.  Two       *)
(* processes write the journeys, the service alerts and the realtime records;         *)
(* departure boards read them in several steps.                                        *)
(***************************************************************************)
EXTENDS Naturals, Sequences, FiniteSets, SequencesExt, FiniteSetsExt, Functions

CONSTANTS
  Days,      \* service days, numbers
  Paths,     \* routes, sequences of stops
  Imported,  \* the timetable's route
  Masks,     \* the days a VSTP message can be for, all within one start and end date
  MaxVstp, MaxDarwin, MaxMessages, \* bounds on messages, of each feed and of both
  None

\* Two journeys with the train's identifier: the timetable's, on all days, and the overlay.
Journeys == {"original", "overlay"}
\* The realtime records of VSTP, beside <<"run", day>>.
Suppressing == <<"suppressed", 0>>
Withdrawing == <<"withdrawn", 0>>
Stops == UNION {Range(p) : p \in Paths}

\* What is stored and on its way.
Overlay   == [path : Paths, days : Masks]
Amendment == [path : Paths, affects : SUBSET Stops]
Run       == [of : Journeys, path : Paths, cancelled : BOOLEAN, calls : SUBSET Nat]
Told      == [path : Paths, cancelled : SUBSET Nat]
Amended   == [Journeys \X Days -> Amendment \cup {None}]
VstpKinds == {"overlay", "cancel", "delete overlay", "delete cancel"}
VstpMessage   == [kind : VstpKinds, mask : SUBSET Days, path : Paths, step : {1, 2}]
DarwinMessage == [kind : {"status", "schedule"}, day : Days, path : Paths, cancelled : SUBSET Nat,
                  run : Run, affects : SUBSET Stops, step : {"base", "amend", "alerts", "save"}]
BoardQuery    == [overlay : Overlay \cup {None}, amended : Amended]

\* A route has two calls at least, and no message is for no day.
ASSUME RailAssumption ==
  /\ Days \subseteq Nat /\ IsFiniteSet(Days) /\ Imported \in Paths
  /\ \A p \in Paths : p \in Seq(Range(p)) /\ Len(p) > 1
  /\ Masks \subseteq SUBSET Days /\ {} \notin Masks
  /\ None \notin Overlay \cup Amendment \cup Run \cup Told \cup VstpMessage \cup DarwinMessage
                 \cup BoardQuery \cup {Suppressing, Withdrawing} \cup ({"run"} \X Days)
  /\ \A days \in SUBSET Days : days # None

\* The stops a board of departures lists the train at.
Origins(path) == Range(Front(path))

VARIABLES
  overlay,   \* the overlay journey, or None
  amended,   \* Darwin's amendment of a journey on a day, or None
  alerts,    \* <<kind, journey, day>>
  runs,      \* the realtime record of each day's run, or None
  suppressed, \* days on which a realtime record hides the original, or None
  withdrawn, \* the dates of the realtime record of a VSTP cancellation, or None
  mapping,   \* the one realtime record a journey is found by, or None
  vstp,      \* the VSTP message in progress, or None
  darwin,    \* the Darwin message in progress, or None
  board,     \* what a board query has loaded, or None
  told,      \* history: the last completed Darwin schedule of a journey and day, or None
  off,       \* history: days the original is cancelled on by VSTP
  moved,     \* history: whether the overlay changed since the board or Darwin read it
  torn,      \* history: whether a VSTP message was abandoned half way
  sent

vars == <<overlay, amended, alerts, runs, suppressed, withdrawn, mapping, vstp, darwin, board,
          told, off, moved, torn, sent>>

Init ==
  /\ overlay = None /\ amended = [k \in Journeys \X Days |-> None]
  /\ alerts = {} /\ runs = [d \in Days |-> None]
  /\ suppressed = None /\ withdrawn = None /\ mapping = [j \in Journeys |-> None]
  /\ vstp = None /\ darwin = None /\ board = None
  /\ told = [k \in Journeys \X Days |-> None] /\ off = {}
  /\ moved = {} /\ torn = FALSE /\ sent = [vstp |-> 0, darwin |-> 0]

MoreMessages == sent.vstp + sent.darwin < MaxMessages

-----------------------------------------------------------------------------
(* The VSTP process: one message at a time, each of two writes. *)

\* A change of an overlay's days comes as a deletion and a new overlay.
Receive(kind, mask, path) ==
  /\ vstp = None /\ sent.vstp < MaxVstp /\ MoreMessages
  /\ kind = "overlay" /\ overlay # None => mask = overlay.days
  /\ vstp' = [kind |-> kind, mask |-> mask, path |-> path, step |-> 1]
  /\ sent' = [sent EXCEPT !.vstp = @ + 1]
  /\ UNCHANGED <<overlay, amended, alerts, runs, suppressed, withdrawn, mapping, darwin, board,
                 told, off, moved, torn>>

Advance == IF vstp.step = 1 THEN vstp' = [vstp EXCEPT !.step = 2] ELSE vstp' = None

Moved == moved' = {"board", "darwin"}

\* processOverlay: the journey, then the record that hides what it replaces.
CreateOverlay ==
  /\ vstp # None /\ vstp.kind = "overlay" /\ Advance
  /\ \/ /\ vstp.step = 1 /\ Moved
        /\ overlay' = [path |-> vstp.path, days |-> vstp.mask]
        /\ told' = [k \in DOMAIN told |-> IF k[1] = "overlay" THEN None ELSE told[k]]
        /\ UNCHANGED <<suppressed, mapping>>
     \/ /\ vstp.step = 2
        /\ suppressed' = vstp.mask /\ mapping' = [mapping EXCEPT !["original"] = Suppressing]
        /\ UNCHANGED <<overlay, moved, told>>
  /\ UNCHANGED <<amended, alerts, runs, withdrawn, darwin, board, off, torn, sent>>

\* processCancellation: the alert of the days, then a record of the first of them.
Cancel ==
  /\ vstp # None /\ vstp.kind = "cancel" /\ Advance
  /\ \/ /\ vstp.step = 1
        /\ alerts' = {a \in alerts : a[1] # "vstp"} \cup {<<"vstp", "original", d>> : d \in vstp.mask}
        /\ off' = vstp.mask
        /\ UNCHANGED <<withdrawn, mapping>>
     \/ /\ vstp.step = 2
        /\ withdrawn' = Days /\ mapping' = [mapping EXCEPT !["original"] = Withdrawing]
        /\ UNCHANGED <<alerts, off>>
  /\ UNCHANGED <<overlay, amended, runs, suppressed, darwin, board, told, moved, torn, sent>>

BugDeleteOverlay ==
  /\ vstp # None /\ vstp.kind = "delete overlay" /\ Advance
  /\ \/ /\ vstp.step = 2
        /\ suppressed' = IF overlay = None THEN suppressed ELSE None
        /\ UNCHANGED <<overlay, amended, moved, told>>
     \/ /\ vstp.step = 1 /\ Moved
        /\ overlay' = None
        /\ amended' = [k \in DOMAIN amended |-> IF k[1] = "overlay" THEN None ELSE amended[k]]
        /\ UNCHANGED <<suppressed, told>>
  /\ UNCHANGED <<alerts, runs, withdrawn, mapping, darwin, board, off, torn, sent>>

\* processDelete of an overlay: the hiding record, then the journey and its amendments.
DeleteOverlay ==
  /\ vstp # None /\ vstp.kind = "delete overlay" /\ Advance
  /\ \/ /\ vstp.step = 1
        /\ suppressed' = IF overlay = None THEN suppressed ELSE None
        /\ UNCHANGED <<overlay, amended, moved, told>>
     \/ /\ vstp.step = 2 /\ Moved
        /\ overlay' = None
        /\ amended' = [k \in DOMAIN amended |-> IF k[1] = "overlay" THEN None ELSE amended[k]]
        /\ UNCHANGED <<suppressed, told>>
  /\ UNCHANGED <<alerts, runs, withdrawn, mapping, darwin, board, off, torn, sent>>

\* processDelete of a cancellation: the alert, then the record.
DeleteCancellation ==
  /\ vstp # None /\ vstp.kind = "delete cancel" /\ Advance
  /\ \/ /\ vstp.step = 1 /\ alerts' = {a \in alerts : a[1] # "vstp"} /\ off' = {}
        /\ UNCHANGED withdrawn
     \/ /\ vstp.step = 2 /\ withdrawn' = None
        /\ UNCHANGED <<alerts, off>>
  /\ UNCHANGED <<overlay, amended, runs, suppressed, mapping, darwin, board, told, moved, torn, sent>>

\* The process ends between the writes, and the message is not sent again.
VstpCrash ==
  /\ vstp # None /\ vstp' = None /\ torn' = (torn \/ vstp.step = 2)
  /\ UNCHANGED <<overlay, amended, alerts, runs, suppressed, withdrawn, mapping, darwin, board,
                 told, off, moved, sent>>

-----------------------------------------------------------------------------
(* The Darwin process. *)

RunsOn(j, day) == j = "original" \/ (overlay # None /\ day \in overlay.days)

\* The journey of a day: a VSTP one before the timetable's.
Effective(day) == IF RunsOn("overlay", day) THEN "overlay" ELSE "original"

OwnPath(j) == IF j = "original" THEN Imported ELSE overlay.path
PathOf(j, day) == IF amended[<<j, day>>] # None THEN amended[<<j, day>>].path ELSE OwnPath(j)

\* remapDarwinStopState: cancelled calls keep their occurrence of the stop.
Occurrence(path, i) == Cardinality({k \in 1..i : path[k] = path[i]})
Remapped(cancelled, old, new) ==
  {i \in DOMAIN new : \E k \in cancelled : old[k] = new[i] /\ Occurrence(old, k) = Occurrence(new, i)}

\* reconcileDarwinRun: the stored run on the present path, or a new one.
Reconciled(day) ==
  LET j == Effective(day)  run == runs[day]  path == PathOf(j, day)
  IN  IF run # None /\ run.of = j
      THEN [run EXCEPT !.path = path, !.calls = Remapped(run.calls, run.path, path)]
      ELSE [of |-> j, path |-> path, cancelled |-> FALSE, calls |-> {}]

Read(kind, day, path, cancelled) ==
  /\ darwin = None /\ sent.darwin < MaxDarwin /\ MoreMessages
  /\ darwin' = [kind |-> kind, day |-> day, path |-> path, cancelled |-> cancelled,
                run |-> Reconciled(day), affects |-> {},
                step |-> IF kind = "status" THEN "save"
                         ELSE IF Reconciled(day).path # path THEN "base" ELSE "alerts"]
  /\ moved' = moved \ {"darwin"}
  /\ sent' = [sent EXCEPT !.darwin = @ + 1]
  /\ UNCHANGED <<overlay, amended, alerts, runs, suppressed, withdrawn, mapping, vstp, board,
                 told, off, torn>>

\* AmendmentStopRefs: the stops of the journey that is amended.
Affects(path) == Range(path)

\* publishDarwinPath reads the journey again, and gives up when it is gone.
ReadBase ==
  /\ darwin # None /\ darwin.step = "base"
  /\ darwin' = IF darwin.run.of = "overlay" /\ overlay = None THEN None
               ELSE [darwin EXCEPT !.step = "amend", !.affects = Affects(OwnPath(darwin.run.of))]
  /\ UNCHANGED <<overlay, amended, alerts, runs, suppressed, withdrawn, mapping, vstp, board,
                 told, off, moved, torn, sent>>

Amend ==
  /\ darwin # None /\ darwin.step = "amend"
  /\ amended' = [amended EXCEPT ![<<darwin.run.of, darwin.day>>] =
                   [path |-> darwin.path, affects |-> darwin.affects]]
  /\ darwin' = [darwin EXCEPT !.step = "alerts",
                  !.run = [darwin.run EXCEPT !.path = darwin.path,
                             !.calls = Remapped(darwin.run.calls, darwin.run.path, darwin.path)]]
  /\ UNCHANGED <<overlay, alerts, runs, suppressed, withdrawn, mapping, vstp, board,
                 told, off, moved, torn, sent>>

Verdict(path, cancelled) ==
  IF cancelled = DOMAIN path THEN "full" ELSE IF cancelled # {} THEN "partial" ELSE "none"

BugAlertsAfter(j, day, verdict) ==
  alerts \cup (IF verdict = "none" THEN {} ELSE {<<verdict, j, day>>})

\* One of the two alerts replaces the other.
AlertsAfter(j, day, verdict) ==
  (alerts \ {<<"full", j, day>>, <<"partial", j, day>>})
    \cup (IF verdict = "none" THEN {} ELSE {<<verdict, j, day>>})

Alert ==
  /\ darwin # None /\ darwin.step = "alerts"
  /\ LET verdict == Verdict(darwin.path, darwin.cancelled) IN
     /\ alerts' = AlertsAfter(darwin.run.of, darwin.day, verdict)
     /\ darwin' = [darwin EXCEPT !.step = "save",
                     !.run = [darwin.run EXCEPT !.calls = darwin.cancelled,
                                !.cancelled = (verdict = "full")]]
  /\ UNCHANGED <<overlay, amended, runs, suppressed, withdrawn, mapping, vstp, board,
                 told, off, moved, torn, sent>>

\* SaveRealtimeJourney: the record and the mapping to it.
Save ==
  /\ darwin # None /\ darwin.step = "save" /\ darwin' = None
  /\ runs' = [runs EXCEPT ![darwin.day] = darwin.run]
  /\ mapping' = [mapping EXCEPT ![darwin.run.of] = <<"run", darwin.day>>]
  /\ told' = IF darwin.kind = "status" THEN told
             ELSE [told EXCEPT ![<<darwin.run.of, darwin.day>>] =
                     IF darwin.run.of = "overlay" /\ "darwin" \in moved THEN None
                     ELSE [path |-> darwin.path, cancelled |-> darwin.cancelled]]
  /\ UNCHANGED <<overlay, amended, alerts, suppressed, withdrawn, vstp, board, off, moved, torn, sent>>

-----------------------------------------------------------------------------
(* A board: the dynamic journeys are loaded before the rest is looked up. *)

\* loadDynamicJourneys: an amendment counts only while the journey it amends exists.
Load ==
  /\ board = None
  /\ board' = [overlay |-> overlay,
               amended |-> [k \in DOMAIN amended |->
                  IF k[1] = "overlay" /\ overlay = None THEN None ELSE amended[k]]]
  /\ moved' = moved \ {"board"}
  /\ UNCHANGED <<overlay, amended, alerts, runs, suppressed, withdrawn, mapping, vstp, darwin,
                 told, off, torn, sent>>

Answer ==
  /\ board # None /\ board' = None
  /\ UNCHANGED <<overlay, amended, alerts, runs, suppressed, withdrawn, mapping, vstp, darwin,
                 told, off, moved, torn, sent>>

\* The overlay is loaded for the stops it departs from and those of what it replaces.
OverlayActive(stop, day) ==
  board.overlay # None /\ day \in board.overlay.days
    /\ stop \in Origins(board.overlay.path) \cup Range(Imported)

AmendmentActive(j, stop, day) ==
  board.amended[<<j, day>>] # None
    /\ stop \in Origins(board.amended[<<j, day>>].path) \cup board.amended[<<j, day>>].affects

\* mergeJourneyAmendments: the journeys of a day's board, as <<journey, path>>.
Merged(stop, day) ==
  {<<j, board.amended[<<j, day>>].path>> : j \in {k \in Journeys :
        AmendmentActive(k, stop, day) /\ ~(k = "original" /\ OverlayActive(stop, day))}}
  \cup (IF OverlayActive(stop, day) /\ ~AmendmentActive("overlay", stop, day)
        THEN {<<"overlay", board.overlay.path>>} ELSE {})
  \cup (IF ~OverlayActive(stop, day) /\ ~AmendmentActive("original", stop, day)
        THEN {<<"original", Imported>>} ELSE {})

\* FindBoardRealtimeForJourneyIDs, and the test of the run's date.
FoundRun(j, day) == mapping[j] = <<"run", day>> /\ runs[day] # None /\ runs[day].of = j

\* SuppressesBoardAt.
Hidden(j, day) ==
  j = "original" /\ mapping[j] = Suppressing /\ suppressed # None /\ day \in suppressed

\* addLegacyVSTPCancellations: a record without its alert cancels its range of dates.
Legacy(j, day) ==
  /\ j = "original" /\ mapping[j] = Withdrawing /\ withdrawn # None /\ day \in withdrawn
  /\ ~\E d \in Days : <<"vstp", "original", d>> \in alerts

\* IsBoardJourneyCancelled and the cancellation of single calls.
WholeCancelled(j, day) ==
  \/ <<"full", j, day>> \in alerts \/ <<"vstp", j, day>> \in alerts
  \/ Legacy(j, day)
  \/ FoundRun(j, day) /\ runs[day].cancelled

\* GenerateBoardFromJourneysForServiceDate: what a stop's board lists for a day.
Board(stop, day) ==
  {[journey |-> e[1], path |-> e[2], cancelled |-> WholeCancelled(e[1], day)] :
     e \in {m \in Merged(stop, day) : stop \in Origins(m[2]) /\ ~Hidden(m[1], day)}}

Next ==
  \/ \E mask \in Masks, path \in Paths : Receive("overlay", mask, path)
  \/ \E mask \in Masks : Receive("cancel", mask, Imported)
  \/ \E kind \in {"delete overlay", "delete cancel"} : Receive(kind, Days, Imported)
  \/ CreateOverlay \/ Cancel \/ DeleteOverlay \/ DeleteCancellation \/ VstpCrash
  \/ \E day \in Days : Read("status", day, Imported, {})
  \/ \E day \in Days, path \in Paths, cancelled \in {{}, {1}} : Read("schedule", day, path, cancelled)
  \/ \E day \in Days, path \in Paths : Read("schedule", day, path, DOMAIN path)
  \/ ReadBase \/ Amend \/ Alert \/ Save
  \/ Load \/ Answer

Spec == Init /\ [][Next]_vars

-----------------------------------------------------------------------------
(* Properties *)

TypeOK ==
  /\ overlay \in Overlay \cup {None} /\ amended \in Amended
  /\ alerts \subseteq {"vstp", "full", "partial"} \X Journeys \X Days
  /\ runs \in [Days -> Run \cup {None}]
  /\ suppressed \in {None} \cup SUBSET Days /\ withdrawn \in {None} \cup SUBSET Days
  /\ mapping \in [Journeys -> {None, Suppressing, Withdrawing} \cup ({"run"} \X Days)]
  /\ vstp \in VstpMessage \cup {None} /\ darwin \in DarwinMessage \cup {None}
  /\ board \in BoardQuery \cup {None}
  /\ told \in [Journeys \X Days -> Told \cup {None}] /\ off \in SUBSET Days
  /\ moved \subseteq {"board", "darwin"} /\ torn \in BOOLEAN
  /\ sent \in [vstp : Nat, darwin : Nat]

\* An amendment that was written while VSTP replaced the overlay it is of by one of other days.
Orphaned(day) ==
  board.overlay # None /\ day \notin board.overlay.days /\ board.amended[<<"overlay", day>>] # None

\* A stop that Darwin sent the timetable's train to, and that the overlay does not know: a board
\* there loads the amendment and not the overlay that replaces it.
Diverted(stop, day) ==
  /\ board.overlay # None /\ day \in board.overlay.days /\ ~OverlayActive(stop, day)
  /\ AmendmentActive("original", stop, day)

\* A board never lists the train twice, and lists all of one route of it unless the overlay changed
\* while the board was loaded: whatever writes are done and wherever a message was abandoned, the
\* replacement and what it replaces are never both there, where the board can know both, or both
\* missing (vstp.go:443, departureboard.go:552).
ListedOnce ==
  board # None => \A day \in Days :
    /\ ~Orphaned(day) =>
         \A stop \in Stops : ~Diverted(stop, day) => Cardinality(Board(stop, day)) <= 1
    /\ "board" \notin moved =>
         \E path \in Paths : \A stop \in Origins(path) : \E e \in Board(stop, day) : e.path = path

\* An amendment that was made of an overlay VSTP has replaced by one of the same days: it is not
\* loaded at the stops that only the new one calls at.
Outdated(day) ==
  /\ board.overlay # None /\ board.amended[<<"overlay", day>>] # None
  /\ ~(Origins(board.overlay.path) \subseteq board.amended[<<"overlay", day>>].affects)

\* A board lists the train at the stops of the route Darwin last gave, and only there
\* (departureboard.go:553-595).
BoardFollowsDarwin ==
  board # None /\ "board" \notin moved /\ darwin = None => \A day \in Days :
    LET j == Effective(day) IN
    /\ told[<<j, day>>] # None /\ board.amended[<<j, day>>] = amended[<<j, day>>]
    /\ IF j = "overlay" THEN ~Outdated(day) ELSE ~Orphaned(day)
    => \A stop \in Stops : ~Diverted(stop, day) =>
         {e.path : e \in Board(stop, day)} =
           IF stop \in Origins(told[<<j, day>>].path) THEN {told[<<j, day>>].path} ELSE {}

\* The train is shown as cancelled when Darwin's last schedule of that journey and day cancelled
\* all calls, or VSTP cancelled that day, and otherwise not.
CancelledAsTold ==
  board # None /\ "board" \notin moved /\ vstp = None /\ darwin = None /\ ~torn =>
    \A day \in Days, stop \in Stops : \A e \in Board(stop, day) :
      LET t == told[<<e.journey, day>>] IN
      t # None => (e.cancelled <=>
        (t.cancelled = DOMAIN t.path \/ (e.journey = "original" /\ day \in off)))

\* The stored run of a journey has the route and the cancelled calls of its last schedule, unless a
\* status made it anew, and none before the first one: a run of the timetable's journey takes none over
\* from one of the overlay.
RunFollowsSchedule ==
  \A day \in Days :
    LET run == runs[day] IN
    run # None /\ darwin = None =>
      LET t == told[<<run.of, day>>] IN
      /\ t # None =>
           /\ run.path = t.path /\ run.calls \in {{}, t.cancelled}
           /\ run.cancelled <=> run.calls = DOMAIN run.path
      /\ t = None /\ run.of = "original" => run.calls = {}

\* Boards tell which trains there are, whatever VSTP and Darwin are writing.
TrainsListed == TypeOK /\ ListedOnce /\ BoardFollowsDarwin

\* And which of them are cancelled.
CancellationsShown == CancelledAsTold /\ RunFollowsSchedule
=============================================================================
