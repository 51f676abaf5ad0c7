------------------------------ MODULE StopBoards ------------------------------
(***************************************************************************)
(* The departure board of a stop.  The timetable is looked up for the service days  *)
(* around the time asked for; calls get the times of their realtime record or of the  *)
(* vehicle's previous trip; the results of the days are sorted and cut.  At a TfL stop  *)
(* predictions come first, and fill out with the timetable in each direction.            *)
(*                                                                                         *)
(* Time is counted in units from the start of the first day asked for; times in the        *)
(* timetable count from the start of the service day and may pass its end.                  *)
(***************************************************************************)
EXTENDS Integers, Sequences, FiniteSets, SequencesExt, FiniteSetsExt, Functions

CONSTANTS
  Timetables,  \* [trip -> [calls, availability, block]], calls in order
  Reports,     \* [trip -> realtime record or None]
  Forecasts,   \* sets of TfL predictions
  Queries,     \* [start, count, tfl, graph]
  DayLength, Week, Lookback, EstimateWindow, Limit, \* durations, and the graph's limit of trips
  None

BoardAssumption ==
  /\ {DayLength, Week, Lookback, EstimateWindow, Limit} \subseteq Nat /\ DayLength > 0 /\ Week > 0
  /\ \A q \in Queries : q.start \in Nat /\ q.count \in Nat \ {0}

VARIABLES
  trips, live, forecast, query, \* as above
  day,     \* the service day looked up next, counted from that of the start
  board,   \* what the days so far returned
  answer   \* the sorted and cut board, or None

vars == <<trips, live, forecast, query, day, board, answer>>

Init ==
  /\ trips \in Timetables /\ live \in Reports /\ forecast \in Forecasts /\ query \in Queries
  /\ day = -1 /\ board = {} /\ answer = None

-----------------------------------------------------------------------------
(* The timetable. *)

CheckRule(rule, d) ==
  CASE rule[1] = "weekday" -> d % Week = rule[2]
    [] rule[1] = "date" -> d = rule[2]
    [] rule[1] = "range" -> rule[2] <= d /\ d <= rule[3]
    [] rule[1] = "all" -> TRUE

MatchDate(a, d) ==
  /\ \E rule \in a.match : CheckRule(rule, d)
  /\ a.secondary # {} => \E rule \in a.secondary : CheckRule(rule, d)
  /\ \A rule \in a.condition : CheckRule(rule, d)
  /\ ~\E rule \in a.exclude : CheckRule(rule, d)

\* FilterIdenticalJourneys: of trips alike, the first.
Unique == {t \in DOMAIN trips : ~\E u \in DOMAIN trips : u < t /\ trips[u] = trips[t]}

Running(d) == {t \in Unique : MatchDate(trips[t].availability, d)}

\* serviceTimeOnDate
TimeOn(d, clock) == d * DayLength + clock

\* JourneysForStopWindow: trips that can still be boarded, the earliest ones up to the limit.
Windowed(d) ==
  {t \in Running(d) : \E call \in Range(trips[t].calls) :
      call.boards /\ TimeOn(d, call.time) >= query.start - Lookback}

-----------------------------------------------------------------------------
(* Realtime. *)

Distance(a, b) == IF a < b THEN b - a ELSE a - b

\* boardRealtimeTimeOnDate: a clock without a date means the nearest such time.
OnDate(scheduled, report) ==
  IF ~report.clock THEN report.time
  ELSE LET same == (scheduled \div DayLength) * DayLength + report.time
           near == {same, same - DayLength, same + DayLength}
       IN  CHOOSE c \in near : \A other \in near :
             Distance(c, scheduled) < Distance(other, scheduled)
               \/ (Distance(c, scheduled) = Distance(other, scheduled) /\ (c = same \/ c <= other))

\* A trip's record tells of one day's run.
ReportOn(t, d) == live[t] # None /\ live[t].day = d

\* What the record gives for a call: the time itself, or only the time of day.
Reported(t, scheduled) ==
  [clock |-> live[t].clock,
   time |-> IF live[t].clock THEN (scheduled + live[t].delay) % DayLength
            ELSE scheduled + live[t].delay]

\* GenerateBoardFromJourneysForServiceDate, for one call.
Entry(t, d, i) ==
  LET scheduled == TimeOn(d, trips[t].calls[i].time) IN
  [trip |-> t, day |-> d, call |-> i, scheduled |-> scheduled,
   time |-> IF ReportOn(t, d) THEN OnDate(scheduled, Reported(t, scheduled)) ELSE scheduled,
   type |-> IF ~ReportOn(t, d) THEN "scheduled"
            ELSE IF live[t].cancelled THEN "cancelled" ELSE "tracked"]

Listed(candidates, d) ==
  {e \in UNION {{Entry(t, d, i) : i \in DOMAIN trips[t].calls} : t \in candidates} :
     /\ trips[e.trip].calls[e.call].boards
     /\ query.start - e.scheduled <= Lookback
     /\ e.time >= query.start}

\* precedingBlockJourneyRefs and the first of them with a record of the day.
Vehicle(t, d) ==
  LET before == {u \in DOMAIN trips :
        /\ trips[u].block = trips[t].block /\ trips[u].calls[1].time < trips[t].calls[1].time
        /\ ReportOn(u, d)}
  IN  IF trips[t].block = None \/ before = {} THEN None
      ELSE CHOOSE u \in before : \A v \in before : trips[v].calls[1].time <= trips[u].calls[1].time

\* applyBlockEstimates: a scheduled call soon after the start is as late as the vehicle.
Estimated(e) ==
  LET u == Vehicle(e.trip, e.day) IN
  IF e.type = "scheduled" /\ e.day = 0 /\ e.time - query.start <= EstimateWindow /\ u # None
  THEN [e EXCEPT !.type = "estimated", !.time = e.time + live[u].delay]
  ELSE e

BoardOf(candidates, d) == {Estimated(e) : e \in Listed(candidates, d)}

\* hasRealtimeBoardEntry
HasRealtime(entries) == \E e \in entries : e.type # "scheduled" /\ e.type # "estimated"

\* The graph's trips, when they are all of them and some are live; else the database's.
DayBoard(d) ==
  LET short == BoardOf(Windowed(d), d)
  IN  IF query.graph /\ Cardinality(Windowed(d)) < Limit /\ HasRealtime(short)
      THEN short ELSE BoardOf(Running(d), d)

-----------------------------------------------------------------------------
(* The query. *)

BugEnough == Cardinality(board) >= query.count

\* The next day cannot come before what is already there.
Enough == Cardinality({e \in board : e.time < DayLength}) >= query.count

Lookup ==
  /\ day <= 1 /\ (day = 1 => ~Enough)
  /\ board' = board \cup DayBoard(day) /\ day' = day + 1
  /\ UNCHANGED <<trips, live, forecast, query, answer>>

StopEarly ==
  /\ day = 1 /\ Enough /\ day' = 2
  /\ UNCHANGED <<trips, live, forecast, query, board, answer>>

\* What is predicted for the stop between the start and the end of the next day.
Predicted ==
  {p \in forecast : p.time >= query.start /\ p.time < 2 * DayLength}

\* departureBoardDirection: the next stop, after the call that is nearest in time.  The call's
\* time has no date, and its distance from the entry's is the longest that can be represented.
Far == 1000
DirectionOf(e) ==
  LET calls == trips[e.trip].calls
      apart == [i \in DOMAIN calls |-> Far]
      first == CHOOSE i \in DOMAIN calls : \A j \in DOMAIN calls :
                 apart[i] < apart[j] \/ (apart[i] = apart[j] /\ i <= j)
  IN  calls[first].toward

\* filterScheduledBoardByDirection: not what comes before the last prediction of its direction.
Kept(e) == ~\E p \in Predicted : p.toward = DirectionOf(e) /\ e.time < p.time

AsEntry(p) == [trip |-> p.trip, day |-> p.day, call |-> p.call, scheduled |-> p.time,
               time |-> p.time, type |-> "tracked"]

\* DeduplicateBoardEntries: an occurrence that is predicted is not listed again.
Backfilled ==
  {AsEntry(p) : p \in Predicted} \cup
  {e \in board : Kept(e) /\ ~\E p \in Predicted : <<p.trip, p.day, p.call>> = <<e.trip, e.day, e.call>>}

\* getStopBoard sorts and cuts.
Answer ==
  /\ day = 2 /\ answer = None
  /\ LET all == IF query.tfl THEN Backfilled ELSE board
         sorted == SetToSortSeq(all, LAMBDA a, b : a.time < b.time)
     IN  answer' = SubSeq(sorted, 1, IF Len(sorted) < query.count THEN Len(sorted) ELSE query.count)
  /\ UNCHANGED <<trips, live, forecast, query, day, board>>

Next == Lookup \/ StopEarly \/ Answer

Spec == Init /\ [][Next]_vars

-----------------------------------------------------------------------------
(* Properties *)

\* How late a call is, whichever way it is reported.
TrueDelay(t, d) ==
  IF ReportOn(t, d) THEN live[t].delay
  ELSE IF d = 0 /\ Vehicle(t, d) # None THEN live[Vehicle(t, d)].delay ELSE 0

\* The answer is the next departures of the stop, late ones among them, in order: neither the day
\* a trip belongs to, nor the way its delay is reported, nor where its timetable was looked up
\* makes a difference (departureboard.go:103, ctdf/departureboard.go:224).
NextDepartures ==
  answer # None /\ ~query.tfl =>
    LET soon(d, t, i) == trips[t].calls[i].time + d * DayLength - query.start
        shown == {<<t, d, i>> \in Unique \X (-1..1) \X (1..2) :
          /\ i <= Len(trips[t].calls) /\ trips[t].calls[i].boards
          /\ MatchDate(trips[t].availability, d)
          /\ soon(d, t, i) >= -Lookback
          /\ soon(d, t, i) + (IF ReportOn(t, d) THEN live[t].delay ELSE 0) >= 0}
        due(k) == TimeOn(k[2], trips[k[1]].calls[k[3]].time) +
          (IF ReportOn(k[1], k[2]) \/ soon(k[2], k[1], k[3]) <= EstimateWindow
           THEN TrueDelay(k[1], k[2]) ELSE 0)
        listed == {<<e.trip, e.day, e.call>> : e \in Range(answer)}
    IN  /\ listed \subseteq shown /\ Cardinality(listed) = Len(answer)
        /\ Len(answer) = Min({query.count, Cardinality(shown)})
        /\ \A e \in Range(answer) : e.time = due(<<e.trip, e.day, e.call>>)
        /\ \A i, j \in DOMAIN answer : i < j => answer[i].time <= answer[j].time
        /\ \A k \in shown \ listed : \A e \in Range(answer) : e.time <= due(k)

\* "so a later prediction in one direction cannot hide an earlier scheduled journey in another"
\* (tfl/departureboard.go:206), as long as its trip calls at the stop once.
DirectionsApart ==
  answer # None /\ query.tfl => \A e \in board :
    \/ Len(trips[e.trip].calls) > 1
    \/ e \in Backfilled
    \/ \E p \in Predicted : p.toward = trips[e.trip].calls[e.call].toward /\ e.time < p.time
    \/ \E p \in Predicted : <<p.trip, p.day, p.call>> = <<e.trip, e.day, e.call>>
=============================================================================
