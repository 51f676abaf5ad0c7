------------------------ MODULE VehicleIdentification ------------------------
(***************************************************************************)
(* Which journey of the timetable a vehicle is on.  Its position reaches the tracker     *)
(* through a SIRI-VM feed, which describes the run in words of its own, a GTFS-RT feed,    *)
(* which names the trip, or both.  VehicleTracker has what several consumers make of       *)
(* one mapping; here is how the journey is found.                                            *)
(*                                                                          *)
(* One vehicle and one service day, shorter than the mapping's 90 minutes and the marker's   *)
(* 8 hours.  What a feed says is true, or a code the timetable does not know.                *)
(***************************************************************************)
EXTENDS Integers, Sequences, FiniteSets, SequencesExt, FiniteSetsExt, Functions

CONSTANTS
  Timetable,  \* journeys: [id, service, days, dir, departs, stops, trip, start, ticket, block, track]
  Services,   \* [id, operator, name]; a name is [word, number]
  Operators,  \* of each operator, the set of its identifiers
  Duties,     \* sequences of journeys a vehicle runs
  SiriFeeds,  \* what a feed fills in: [operator, word, ref, block, ends, dir]
  GtfsFeeds,  \* [trip, start]: the timetable knows its trips, and it says when they start
  Metres,     \* the distance between two places
  Today,
  MaxAge,      \* reports older than this are not submitted
  HistoryTTL,
  Near,        \* locationCandidateDistanceMetres
  Margin,      \* locationCandidateMarginMetres
  MaxTime, MaxQueue,
  None, NA

IdentificationAssumption ==
  /\ {MaxAge, HistoryTTL, Near, Margin, MaxTime, MaxQueue} \subseteq Nat
  /\ \A duty \in Duties : \A run \in DOMAIN duty : duty[run] \in Timetable /\ Today \in duty[run].days
  \* the progress along a track tells its places apart
  /\ \A j \in Timetable : IsInjective(j.track)

VARIABLES
  duty, siri, gtfs,  \* the vehicle's runs and its feeds, as chosen at the start
  run, place, now,   \* the run it is on, how far along its track, and the time
  radioed,           \* its last report to its operator: [run, place, at]
  queue,             \* observations for the tracker
  mapping,           \* realtime-identification: of a LocalID [journey, at]; journey may be NA
  owned,             \* realtime-gtfs-journey: the journey GTFS-RT has claimed for the vehicle
  history,           \* realtime-vehicle-history: [journey, progress, stored], or None
  attributed         \* history: [run, journey, described] of each observation that got a journey

vehicle == <<duty, siri, gtfs, run, place, now, radioed>>
vars == <<vehicle, queue, mapping, owned, history, attributed>>

Init ==
  /\ duty \in Duties /\ siri \in SiriFeeds /\ gtfs \in GtfsFeeds
  /\ run = 1 /\ place = 1 /\ now = 0
  /\ radioed = [run |-> 1, place |-> 1, at |-> 0]
  /\ queue = <<>>
  /\ mapping = <<>>
  /\ owned = None
  /\ history = None
  /\ attributed = {}

-----------------------------------------------------------------------------
(* The vehicle. *)

Tick(nextRun, nextPlace) ==
  /\ now < MaxTime
  /\ now' = now + 1 /\ run' = nextRun /\ place' = nextPlace
  /\ UNCHANGED <<duty, siri, gtfs, radioed, queue, mapping, owned, history, attributed>>
Move == place < Len(duty[run].track) /\ Tick(run, place + 1)
Stand == Tick(run, place)
StartNext == run < Len(duty) /\ place = Len(duty[run].track) /\ Tick(run + 1, 1)

Radio ==
  /\ radioed' = [run |-> run, place |-> place, at |-> now] /\ radioed' # radioed
  /\ UNCHANGED <<duty, siri, gtfs, run, place, now, queue, mapping, owned, history, attributed>>

-----------------------------------------------------------------------------
(* The feeds. *)

ServiceOf(j) == CHOOSE s \in Services : s.id = j.service
Given(on, value) == IF on THEN value ELSE None

\* SubmitToProcessQueue
SiriReport ==
  LET j == duty[radioed.run]
      s == ServiceOf(j)
      Line == IF s.name.word = None THEN [s.name EXCEPT !.word = siri.word] ELSE s.name
      ref == CASE siri.ref = "trip" -> j.trip [] siri.ref = "ticket" -> j.ticket [] OTHER -> None
      from == Given(siri.ends, Head(j.stops))
  IN [source |-> "siri-vm",
      local |-> <<siri.operator, Line, from, Today, ref, j.departs>>,
      operator |-> siri.operator, line |-> Line, frame |-> Today,
      ref |-> ref, block |-> Given(siri.block, j.block), from |-> from, to |-> Given(siri.ends, Last(j.stops)),
      dir |-> Given(siri.dir, j.dir), aimed |-> j.departs,
      point |-> j.track[radioed.place], at |-> radioed.at, run |-> radioed.run]

\* Realtime.Import
GtfsReport ==
  LET j == duty[radioed.run]
      start == Given(gtfs.start, j.start)
  IN [source |-> "GTFS-RT",
      local |-> <<Today, j.trip, start>>,
      trip |-> Given(gtfs.trip, j.trip), start |-> start, route |-> j.service, frame |-> Today,
      point |-> j.track[radioed.place], at |-> radioed.at, run |-> radioed.run]

\* An observation that cannot be published is lost.
Submit(report) ==
  /\ now - radioed.at <= MaxAge
  /\ Len(queue) < MaxQueue
  /\ queue' = Append(queue, report)
  /\ UNCHANGED <<vehicle, mapping, owned, history, attributed>>
PollSiri == siri # None /\ Submit(SiriReport)
PollGtfs == gtfs # None /\ Submit(GtfsReport)

-----------------------------------------------------------------------------
(* The journey a SIRI-VM observation describes. *)

SameServiceName(name, line) ==
  name = line \/ (line.word # None /\ name = [line EXCEPT !.word = None])
\* IdentifyServices
ServicesFor(report) ==
  LET operator == UNION {o \in Operators : report.operator \in o}
  IN {s.id : s \in {t \in Services : t.operator \in operator /\ SameServiceName(t.name, report.line)}}

\* GenerateFunctionalHash, with the availability or without
Hash(j, withDays) == <<j.service, j.dir, j.departs, j.stops, IF withDays THEN j.days ELSE {}>>
FilterIdenticalJourneys(journeys, withDays) ==
  {j \in journeys : \A i \in journeys : Hash(i, withDays) = Hash(j, withDays) => j.id <= i.id}

\* A direction no candidate has narrows nothing.
InDirection(journeys, report) ==
  LET directional == {j \in journeys : j.dir = report.dir}
  IN IF directional = {} THEN journeys ELSE directional

AtTime(journeys, report) ==
  LET exact == {j \in journeys : j.departs = report.aimed}
      close == {j \in journeys : /\ Head(j.stops) = report.from \/ Last(j.stops) = report.to
                                 /\ report.aimed - j.departs \in -5..5}
  IN IF exact # {} THEN exact ELSE close

\* narrowJourneys: what is left; none or several of them are no answer.
Narrowed(journeys, report) ==
  LET Step(js, withDays) == InDirection(FilterIdenticalJourneys(js, withDays), report)
      first == Step(journeys, TRUE)
      again == Step(first, FALSE)
  IN IF Cardinality(first) <= 1 THEN first
     ELSE IF Cardinality(AtTime(first, report)) <= 1 THEN AtTime(first, report)
     ELSE IF Cardinality(again) <= 1 THEN again ELSE AtTime(again, report)

\* getAvailableJourneys: of those asked for, the services the observation may be of
Available(report, asked) ==
  {j \in asked : j.service \in ServicesFor(report) /\ report.frame \in j.days}

CallsBetween(j, from, to) == from \in ToSet(Front(j.stops)) /\ to \in ToSet(Tail(j.stops))

\* The reference, the block, and the ends of the run, in turn.
DescribedBySiri(report) ==
  LET byRef == Available(report, {j \in Timetable : report.ref # None /\ report.ref \in {j.trip, j.ticket}})
      byBlock == Available(report, {j \in Timetable : report.block # None /\ report.block = j.block})
      byEnds == Available(report, {j \in Timetable : CallsBetween(j, report.from, report.to)})
      answers == SelectSeq([n \in 1..3 |-> Narrowed(<<byRef, byBlock, byEnds>>[n], report)],
                           LAMBDA js : Cardinality(js) = 1)
  IN IF answers = <<>> THEN None ELSE CHOOSE j \in answers[1] : TRUE

(* The journey a GTFS-RT observation names. *)
TripNamed(report) ==
  LET trips == {j \in Timetable : report.trip # None /\ j.trip = report.trip}
      starting == {j \in trips : report.start # None /\ j.start = report.start}
      found == IF starting # {} THEN starting ELSE trips
  IN IF Cardinality(found) = 1 THEN CHOOSE j \in found : TRUE ELSE None

Described(report) == IF report.source = "siri-vm" THEN DescribedBySiri(report) ELSE TripNamed(report)

-----------------------------------------------------------------------------
(* The journey that runs where the vehicle is. *)

Away(j, point) == Min({Metres[j.track[k]][point] : k \in DOMAIN j.track})
\* JourneyProgress, in hundredths
Progress(j, point) ==
  LET k == Min({i \in DOMAIN j.track : Metres[j.track[i]][point] = Away(j, point)})
  IN (100 * (k - 1)) \div (Len(j.track) - 1)

\* scoreLocationCandidate
Score(j, point) ==
  Away(j, point) + (IF history = None \/ history.journey # j.id THEN 0
                    ELSE IF Progress(j, point) + 5 < history.progress THEN 150 ELSE -50)

Candidates(report) ==
  LET services == IF report.source = "siri-vm" THEN ServicesFor(report) ELSE {report.route}
  IN {j \in Timetable : j.service \in services /\ report.frame \in j.days /\ Away(j, report.point) <= Near}

BugSelected(candidates, point) ==
  {j \in candidates : \A i \in candidates \ {j} : Score(i, point) - Score(j, point) >= 0}

\* selectLocationCandidate: none unless it is well ahead of the others.
Selected(candidates, point) ==
  {j \in candidates : \A i \in candidates \ {j} : Score(i, point) - Score(j, point) >= Margin}

-----------------------------------------------------------------------------
(* The tracker. *)

Put(f, k, v) == [x \in DOMAIN f \cup {k} |-> IF x = k THEN v ELSE f[x]]
Store(report, journey) == mapping' = Put(mapping, report.local, [journey |-> journey, at |-> report.at])
Owns(report, journey) == report.source = "siri-vm" /\ owned = journey.id

\* The journey's snapshot is updated, and the vehicle's history with it.
Attribute(report, journey) ==
  /\ history' = [journey |-> journey.id, progress |-> Progress(journey, report.point), stored |-> now]
  /\ attributed' = attributed \cup
       {[run |-> report.run, journey |-> journey, described |-> Described(report) # None]}
NoUpdate == UNCHANGED <<history, attributed>>

\* identifyVehicle, the LocalID known
Cached(report) ==
  LET known == mapping[report.local]
  IN /\ UNCHANGED owned
     /\ IF known.journey = NA \/ report.at <= known.at THEN NoUpdate /\ UNCHANGED mapping
        ELSE /\ Store(report, known.journey)
             /\ IF Owns(report, known.journey) THEN NoUpdate ELSE Attribute(report, known.journey)

\* and unknown, with a journey described
Matched(report, journey) ==
  IF Owns(report, journey) THEN NoUpdate /\ UNCHANGED <<mapping, owned>>
  ELSE /\ Store(report, journey)
       /\ owned' = IF report.source = "GTFS-RT" THEN journey.id ELSE owned
       /\ Attribute(report, journey)

\* or none: that of the place, or none for as long as the mapping lives
Located(report) ==
  LET selected == Selected(Candidates(report), report.point)
  IN /\ UNCHANGED owned
     /\ IF selected = {} THEN Store(report, NA) /\ NoUpdate
        ELSE \E journey \in selected : Store(report, journey) /\ Attribute(report, journey)

Consume ==
  /\ queue # <<>>
  /\ queue' = Tail(queue)
  /\ LET report == Head(queue)
     IN IF report.local \in DOMAIN mapping THEN Cached(report)
        ELSE IF Described(report) # None THEN Matched(report, Described(report))
        ELSE Located(report)
  /\ UNCHANGED vehicle

ForgetHistory ==
  /\ history # None /\ now - history.stored >= HistoryTTL
  /\ history' = None
  /\ UNCHANGED <<vehicle, queue, mapping, owned, attributed>>

Next == Move \/ Stand \/ StartNext \/ Radio \/ PollSiri \/ PollGtfs \/ Consume \/ ForgetHistory

Spec == Init /\ [][Next]_vars
-----------------------------------------------------------------------------

\* A vehicle never appears on a stranger's journey, however little its feeds say: an observation whose words lead to a
\* journey is put on the one the vehicle runs, or on a record alike to it in all a passenger sees, and one that its
\* place alone leads to a journey is put on that or on one the vehicle ran before.
OnItsOwnJourney ==
  \A a \in attributed :
    \/ Hash(a.journey, FALSE) = Hash(duty[a.run], FALSE)
    \/ ~a.described /\ \E earlier \in 1..(a.run - 1) : a.journey = duty[earlier]
=============================================================================
