---------------------------- MODULE TrainDescriber ----------------------------
(***************************************************************************)
(* Positions of trains from Network Rail: TRUST identifies a run and says     *)
(* what it departed from, the train describer (TD) reports a headcode that     *)
(* moves between berths.  tdTracker correlates the two in memory, under one     *)
(* mutex; every TRUST message is handled by a goroutine of its own, so they     *)
(* reach the tracker in any order, and the runs they read from Redis change      *)
(* meanwhile.                                                               *)
(*                                                                          *)
(* A leg is a number, a berth stands for its area too, a mapped point is its    *)
(* progress along the track of a leg; a point off the track has none, and no      *)
(* reviewed transition is off it.                                            *)
(***************************************************************************)
EXTENDS Naturals, Sequences, FiniteSets, FiniteSetsExt

CONSTANTS
  Journeys, Trains, Berths,
  TrainsOf,      \* of each journey: the TRUST trains that can be activated for it
  Path,          \* of each journey: the legs of its path, by their number
  Legs, Origin,  \* and where each starts
  Headcode,      \* of each train
  Headcodes,     \* the valid ones
  Transition,    \* the mapping of a step between two berths: leg -> progress or None
  BerthPoint,    \* the mapping of a berth: leg -> progress or None
  Smart,         \* the SMART reporting point of a step: leg -> progress or None
  Feed,          \* the TD messages, without their times
  Movers,        \* goroutines that handle TRUST movements
  Window,        \* tdTrustWindow
  MaxTime,       \* bound of the clock
  Delay,         \* bound of how late a message comes
  Messages,      \* bounds of the messages and of the changes of the runs
  None

StepMapping == [Berths \X Berths -> [Legs -> Nat \cup {None}]]

ASSUME DescriberAssumption ==
  /\ TrainsOf \in [Journeys -> SUBSET Trains]
  /\ \A i, j \in Journeys : i # j => TrainsOf[i] \cap TrainsOf[j] = {}
  /\ Path \in [Journeys -> Seq(Legs)] /\ Headcode \in [Trains -> Headcodes]
  /\ Transition \in StepMapping /\ Smart \in StepMapping
  /\ BerthPoint \in [Berths -> [Legs -> Nat \cup {None}]]
  /\ Feed \subseteq ([kind : {"CA"}, from : Berths, to : Berths, code : Headcodes \cup {None}]
                     \cup [kind : {"CB"}, from : Berths, to : {None}, code : Headcodes]
                     \cup [kind : {"CC"}, from : {None}, to : Berths, code : Headcodes])
  /\ \A e \in Feed : e.from # e.to
  /\ Window \in Nat /\ MaxTime \in Nat /\ Delay \in Nat /\ Messages \in [{"all", "change", "trust", "td"} -> Nat]
  /\ None \notin Nat \cup Berths \cup Headcodes

VARIABLES
  now,
  run,        \* realtime journeys in Redis: [train, tracked, cancelled, departed], or None
  mover,      \* of each goroutine: the movement and the run it read, or None
  anchors,    \* tdTracker.anchors: what is known of each journey, or None
  cancelled,  \* tdTracker.cancelled: the time of the last cancellation, 0 without
  reporting,  \* process holds mu: the run it selected for a TD step, or None
  position,   \* last position in Redis: [at, by], by what a TD step followed or None
  newest,     \* history: the last report of each journey that began or ended a leg
  ended,      \* history: the last cancellation of each train
  lastTD,     \* history: the time of the last TD message, None once they were out of order
  budget      \* messages and changes left

tracker == <<anchors, cancelled, reporting>>
history == <<newest, ended, lastTD>>
vars    == <<now, run, mover, tracker, position, history, budget>>

Spend(kind) ==
  /\ budget[kind] > 0 /\ budget["all"] > 0
  /\ budget' = [budget EXCEPT ![kind] = @ - 1, !["all"] = @ - 1]

Times    == 1..MaxTime
Latest   == {at \in Times : at <= now /\ now - at <= Delay}
Fresh(a) == now - a.at <= Window
LegOf(j) == 0..Len(Path[j])   \* 0 is the code's -1

NewAnchor(train, at, leg) ==
  [train |-> train, at |-> at, trustAt |-> at, leg |-> leg,
   berth |-> None, tdAt |-> 0, progress |-> 0]

Activated(t) == [train |-> t, tracked |-> FALSE, cancelled |-> FALSE, departed |-> {}]

\* The program starts, or starts again, with the runs that Redis holds.
Init ==
  /\ now = 1
  /\ \E started \in SUBSET {j \in Journeys : TrainsOf[j] # {}} :
       run = [j \in Journeys |-> IF j \in started THEN Activated(CHOOSE t \in TrainsOf[j] : TRUE) ELSE None]
  /\ mover = [m \in Movers |-> None]
  /\ anchors = [j \in Journeys |-> None]
  /\ cancelled = [t \in Trains |-> 0]
  /\ reporting = None
  /\ position = [j \in Journeys |-> None]
  /\ newest = [j \in Journeys |-> 0] /\ ended = [t \in Trains |-> 0]
  /\ lastTD = 0 /\ budget = Messages

-----------------------------------------------------------------------------
(* The runs: activation, reinstatement, and what Darwin and Redis do to them.   *)
(* A message that repeats what the run says is left out: it changes nothing.     *)

Activate(j, t) ==
  /\ t \in TrainsOf[j] /\ Spend("change")
  /\ run[j] # None => run[j].train # t
  /\ run' = [run EXCEPT ![j] =
       IF @ = None THEN Activated(t)
       ELSE [@ EXCEPT !.train = t]]
  /\ UNCHANGED <<now, mover, tracker, position, history>>

Reinstate(j) ==
  /\ run[j] # None /\ (run[j].tracked => run[j].cancelled) /\ Spend("change")
  /\ run' = [run EXCEPT ![j].tracked = TRUE, ![j].cancelled = FALSE]
  /\ UNCHANGED <<now, mover, tracker, position, history>>

CancelRun(j) ==
  /\ Spend("change") /\ run[j] # None /\ ~run[j].cancelled
  /\ run' = [run EXCEPT ![j].cancelled = TRUE]
  /\ UNCHANGED <<now, mover, tracker, position, history>>

RunExpires(j) ==
  /\ Spend("change") /\ run[j] # None
  /\ run' = [run EXCEPT ![j] = None]
  /\ UNCHANGED <<now, mover, tracker, position, history>>

-----------------------------------------------------------------------------
(* TrustMovement.Process: find the run, save it, tell the tracker, record the    *)
(* position.                                                                *)

\* A departure is of a leg when none of it is recorded; an arrival at the end, or a
\* report that says so, ends the tracking.
Reported(j, kind, leg, ends) ==
  [run[j] EXCEPT
     !.tracked  = ~ends /\ ~(kind = "arrival" /\ leg = Len(Path[j])),
     !.departed = IF kind = "departure" THEN @ \cup {leg} ELSE @]

\* What is held of a report at a known stop while its run is saved.
Found(j, kind, at, point, ends, leg) ==
  [journey |-> j, at |-> at, located |-> point # "none",
   leg |-> IF /\ kind = "departure" /\ point = "valid" /\ leg \notin run[j].departed
              /\ \A other \in DOMAIN Path[j] :
                   Origin[Path[j][other]] = Origin[Path[j][leg]] => other = leg
           THEN leg ELSE 0,
   passing |-> IF kind = "passing" /\ point # "corrected" THEN leg ELSE 0,
   copy |-> Reported(j, kind, leg, ends), step |-> "save"]

FindRun(m) ==
  /\ mover[m] = None /\ Spend("trust")
  /\ \E j \in Journeys, kind \in {"departure", "arrival", "passing", "other"}, at \in Latest,
        point \in {"none", "corrected", "valid"}, ends \in BOOLEAN :
       /\ run[j] # None
       /\ kind = "departure" => ~ends
       /\ \E leg \in DOMAIN Path[j] : mover' = [mover EXCEPT ![m] = Found(j, kind, at, point, ends, leg)]
  /\ UNCHANGED <<now, run, tracker, position, history>>

\* The location is not a known stop: the report only reaches the tracker.
FindRunUnlocated(m) ==
  /\ mover[m] = None /\ Spend("trust")
  /\ \E j \in Journeys, at \in Latest, ends \in BOOLEAN :
       /\ run[j] # None
       /\ mover' = [mover EXCEPT ![m] =
            [journey |-> j, at |-> at, located |-> FALSE, leg |-> 0, passing |-> 0,
             copy |-> [run[j] EXCEPT !.tracked = ~ends], step |-> "trust"]]
  /\ UNCHANGED <<now, run, tracker, position, history>>

\* The whole run is overwritten by the copy; a failed save ends the handling, and so
\* does a report without a usable time.
SaveRun(m) ==
  /\ mover[m] # None /\ mover[m].step = "save"
  /\ \/ /\ run' = [run EXCEPT ![mover[m].journey] = mover[m].copy]
        /\ \/ mover' = [mover EXCEPT ![m].step = "trust"]
           \/ mover' = [mover EXCEPT ![m] = None]
     \/ mover' = [mover EXCEPT ![m] = None] /\ UNCHANGED run
  /\ UNCHANGED <<now, tracker, position, history, budget>>

Forgotten  == [j \in Journeys |-> IF anchors[j] = None \/ Fresh(anchors[j]) THEN anchors[j] ELSE None]
Remembered == [t \in Trains |-> IF now - cancelled[t] > Window THEN 0 ELSE cancelled[t]]

Continues(e, old) ==
  /\ e.passing # 0 /\ e.passing = old.leg
  /\ old.train = e.copy.train /\ e.copy.tracked /\ ~e.copy.cancelled

BugAccepts(e, old)      == old = None \/ e.at > old.trustAt
Accepts(e, old) ==
  /\ e.at > Remembered[e.copy.train]
  /\ old = None \/ e.at > old.trustAt

\* tdTracker.trust: what has grown old is forgotten, an older report than the last
\* is ignored, a pass within the leg keeps the departure, and everything else takes
\* its place, even when no leg follows from it.
Trust(m) ==
  /\ reporting = None /\ mover[m] # None /\ mover[m].step = "trust"
  /\ LET e   == mover[m]
         old == Forgotten[e.journey]
         leg == IF e.copy.tracked /\ ~e.copy.cancelled THEN e.leg ELSE 0
         continued == old # None /\ Continues(e, old)
     IN  /\ anchors' = [Forgotten EXCEPT ![e.journey] =
              IF ~Accepts(e, old) THEN old
              ELSE IF continued THEN [old EXCEPT !.trustAt = e.at]
              ELSE NewAnchor(e.copy.train, e.at, leg)]
         /\ mover' = [mover EXCEPT ![m] =
              IF ~e.located THEN None
              ELSE [journey |-> e.journey, at |-> e.at, train |-> e.copy.train, step |-> "record"]]
         /\ newest' = [newest EXCEPT ![e.journey] =
              IF Accepts(e, old) /\ ~continued THEN Max({@, e.at}) ELSE @]
  /\ cancelled' = Remembered
  /\ UNCHANGED <<now, run, reporting, position, ended, lastTD, budget>>

\* RecordRailObservation: neither an old observation nor one that is not newer.
Observed(j, observation) ==
  IF now - observation.at <= Window /\ (position[j] = None \/ observation.at > position[j].at)
  THEN [position EXCEPT ![j] = observation] ELSE position

RecordTrust(m) ==
  /\ mover[m] # None /\ mover[m].step = "record"
  /\ LET e == mover[m]
     IN  position' = Observed(e.journey, [at |-> e.at, train |-> e.train,
                                          departure |-> None, progress |-> 0])
  /\ mover' = [mover EXCEPT ![m] = None]
  /\ UNCHANGED <<now, run, tracker, history, budget>>

Stopped(a, t, at) ==
  IF a # None /\ a.train = t /\ at >= a.at
  THEN [a EXCEPT !.trustAt = Max({@, at}), !.leg = 0] ELSE a

\* TrustCancellation.Process and invalidateTrain; the run in Redis is Darwin's.
InvalidateTrain(t) ==
  /\ reporting = None /\ Spend("change")
  /\ \E at \in Latest :
       /\ cancelled' = [cancelled EXCEPT ![t] = Max({@, at})]
       /\ anchors' = [j \in Journeys |-> Stopped(anchors[j], t, at)]
       /\ ended' = [ended EXCEPT ![t] = Max({@, at})]
  /\ UNCHANGED <<now, run, mover, reporting, position, newest, lastTD>>

-----------------------------------------------------------------------------
(* tdTracker.process, which holds mu while it reads and writes Redis.           *)

\* An overwritten berth, or one the message contradicts, ends the continuity.
BugBroken(a, e) ==
  /\ a # None /\ a.berth # None /\ e.at > a.tdAt
  /\ a.berth = e.from /\ Headcode[a.train] # e.code

Broken(a, e) ==
  /\ a # None /\ a.berth # None /\ e.at > a.tdAt
  /\ a.berth = e.to \/ (a.berth = e.from /\ Headcode[a.train] # e.code)

Cleared(e) ==
  [j \in Journeys |->
     IF Broken(anchors[j], e) THEN [anchors[j] EXCEPT !.berth = None, !.leg = 0, !.tdAt = e.at]
     ELSE anchors[j]]

Bound(e) ==
  {j \in Journeys : e.from # None /\ anchors[j] # None /\ anchors[j].berth = e.from /\ Fresh(anchors[j])}

OnSomeLeg(points) == \E l \in Legs : points[l] # None
IsMapped(e) ==
  e.kind = "CA" /\ (OnSomeLeg(Transition[e.from, e.to]) \/ OnSomeLeg(BerthPoint[e.to])
                    \/ OnSomeLeg(Smart[e.from, e.to]))

\* The point of a step on a leg: a reviewed transition, two reviewed berths in the
\* direction of the leg, or a SMART reporting point.
StepPoint(e, leg) ==
  LET berths == BerthPoint[e.to][leg]
      before == BerthPoint[e.from][leg]
  IN  IF Transition[e.from, e.to][leg] # None THEN Transition[e.from, e.to][leg]
      ELSE IF berths # None
           THEN IF before # None /\ berths > before THEN berths ELSE None
           ELSE Smart[e.from, e.to][leg]

Advances(j, a, e) ==
  LET point == StepPoint(e, Path[j][a.leg])
  IN  point # None /\ (a.tdAt = 0 \/ point > a.progress)

Matches(j, e) ==
  LET a == Cleared(e)[j]
  IN  /\ a # None /\ Headcode[a.train] = e.code
      /\ Bound(e) = {} \/ j \in Bound(e)
      /\ a.leg # 0 /\ e.at - a.at <= Window /\ Fresh(a)
      /\ e.at > a.trustAt /\ e.at > a.tdAt
      /\ run[j] # None /\ run[j].tracked /\ ~run[j].cancelled /\ run[j].train = a.train
      /\ IF IsMapped(e) THEN Advances(j, a, e) ELSE a.berth = e.from

Steps ==
  {[kind |-> e.kind, from |-> e.from, to |-> e.to, code |-> e.code, at |-> at] : e \in Feed, at \in Latest}

\* Selection of the one run a message is about; any error of a lookup ends it.
Process ==
  /\ reporting = None /\ Spend("td")
  /\ \E e \in Steps :
       LET candidates == {j \in Journeys : Matches(j, e)}
       IN  /\ anchors' = Cleared(e)
           /\ \/ reporting' = None
              \/ /\ e.kind # "CC" /\ e.code # None
                 /\ Cardinality(Bound(e)) <= 1 /\ Cardinality(candidates) = 1
                 /\ reporting' = [journey |-> CHOOSE j \in candidates : TRUE, event |-> e]
           /\ lastTD' = IF lastTD # None /\ e.at > lastTD THEN e.at ELSE None
  /\ UNCHANGED <<now, run, mover, cancelled, position, newest, ended>>

\* The position of a mapped step is recorded, and the run is in the berth; after an
\* error of Redis neither.
Report ==
  /\ reporting # None
  /\ LET j == reporting.journey
         e == reporting.event
         a == anchors[j]
         progress == IF IsMapped(e) THEN StepPoint(e, Path[j][a.leg]) ELSE a.progress
     IN  \/ /\ anchors' = [anchors EXCEPT ![j] =
                 [a EXCEPT !.tdAt = e.at, !.progress = progress, !.berth = e.to,
                           !.leg = IF e.kind = "CB" THEN 0 ELSE @]]
            /\ position' = IF IsMapped(e)
                 THEN Observed(j, [at |-> e.at, train |-> a.train, departure |-> a.at,
                                   progress |-> progress])
                 ELSE position
         \/ IsMapped(e) /\ UNCHANGED <<anchors, position>>
  /\ reporting' = None
  /\ UNCHANGED <<now, run, mover, cancelled, history, budget>>

-----------------------------------------------------------------------------
Tick ==
  /\ now < MaxTime /\ now' = now + 1
  /\ UNCHANGED <<run, mover, tracker, position, history, budget>>

Next ==
  \/ \E j \in Journeys : Reinstate(j) \/ CancelRun(j) \/ RunExpires(j)
  \/ \E j \in Journeys, t \in Trains : Activate(j, t)
  \/ \E m \in Movers : FindRun(m) \/ FindRunUnlocated(m) \/ SaveRun(m) \/ Trust(m) \/ RecordTrust(m)
  \/ \E t \in Trains : InvalidateTrain(t)
  \/ Process \/ Report \/ Tick

Spec == Init /\ [][Next]_vars

-----------------------------------------------------------------------------
RunRecord == [train : Trains, tracked : BOOLEAN, cancelled : BOOLEAN, departed : SUBSET Nat]
Movement  == [journey : Journeys, at : Times, located : BOOLEAN, leg : Nat, passing : Nat,
              copy : RunRecord, step : {"save", "trust"}]
Sighting  == [journey : Journeys, at : Times, train : Trains, step : {"record"}]
Anchor    == [train : Trains, at : Nat, trustAt : Nat, leg : Nat,
              berth : Berths \cup {None}, tdAt : Nat, progress : Nat]
Position  == [at : Nat, train : Trains, departure : Nat \cup {None}, progress : Nat]
Event     == [kind : {"CA", "CB", "CC"}, from : Berths \cup {None}, to : Berths \cup {None},
              code : Headcodes \cup {None}, at : Times]

ASSUME NoneIsNoAnchor == None \notin Anchor

TypeOK ==
  /\ now \in Nat
  /\ run \in [Journeys -> RunRecord \cup {None}]
  /\ mover \in [Movers -> Movement \cup Sighting \cup {None}]
  /\ \A m \in Movers : mover[m] # None /\ mover[m].step # "record"
                       => mover[m].leg \in LegOf(mover[m].journey)
  /\ anchors \in [Journeys -> Anchor \cup {None}]
  /\ \A j \in Journeys : anchors[j] # None => anchors[j].leg \in LegOf(j)
  /\ cancelled \in [Trains -> Nat] /\ ended \in [Trains -> Nat]
  /\ reporting # None => /\ reporting \in [journey : Journeys, event : Event]
                         /\ reporting.event.kind = "CA" => {reporting.event.from, reporting.event.to} \subseteq Berths
                         /\ anchors[reporting.journey] # None
                         /\ anchors[reporting.journey].leg # 0
                         /\ IsMapped(reporting.event) =>
                              StepPoint(reporting.event,
                                Path[reporting.journey][anchors[reporting.journey].leg]) # None
  /\ position \in [Journeys -> Position \cup {None}]
  /\ newest \in [Journeys -> Nat] /\ lastTD \in Nat \cup {None}

\* A TD step has moved the position of the journey.
MovedByTD(j) == position'[j] # position[j] /\ position'[j] # None /\ position'[j].departure # None

\* No TD step positions a train that has been cancelled, until it departs again after
\* the cancellation, in whichever order the cancellation and the departure are handled
\* and although both are forgotten after ten minutes (td.go:121-184).
NotAfterCancellation ==
  [][\A j \in Journeys : MovedByTD(j) => position'[j].departure > ended[position'[j].train]]_vars

\* A TD step follows the last report that began or ended a leg of the journey: a
\* departure that is handled late opens no leg that the train has left, though ten
\* minutes after a report nothing is known of it (td.go:121-166).
FollowsLastReport ==
  [][\A j \in Journeys : MovedByTD(j) => position'[j].departure >= newest[j]]_vars

\* train-describer-positions.md:13, "Later points on the same leg must progress along
\* the track": the positions that follow one departure go forward.
Forward ==
  [][\A j \in Journeys :
       MovedByTD(j) /\ position[j] # None /\ position[j].departure = position'[j].departure
         /\ position[j].train = position'[j].train
         => position'[j].progress > position[j].progress]_vars

\* What TD reports of a train follows what TRUST says of it.
PositionsInOrder == NotAfterCancellation /\ FollowsLastReport /\ Forward

\* A berth holds one train, as long as TD messages come in the order of their times
\* (td.go:282-303).
OneTrainPerBerth ==
  lastTD # None => \A i, j \in Journeys :
    anchors[i] # None /\ anchors[j] # None /\ anchors[i].berth # None
      /\ anchors[i].berth = anchors[j].berth => i = j
=============================================================================
