---------------------------- MODULE JourneyPlanner ----------------------------
(***************************************************************************)
(* The route search of the departure graph (Graph.Plan): label setting over   *)
(* departures and transfers in rounds of one more vehicle leg each, inside a  *)
(* corridor that a reverse search over the stop patterns computes first.      *)
(* A network is one of a set of small ones.  Times are numbers, a day has     *)
(* DayLength of them; distances, cells of the stop grid and aliases are gone: *)
(* a request names the stops it may start from and end at, with the walks.    *)
(***************************************************************************)
EXTENDS Naturals, Integers, Sequences, FiniteSets, FiniteSetsExt, SequencesExt

CONSTANTS
  Stops,
  Networks,   \* [journeys, transfers]: a journey is [service, days, calls], a call
              \* [stop, at, board, alight]; a transfer is [from, to, kind, time, ifFrom,
              \* ifTo] with the services it is restricted to, or None
  Requests,   \* [from, to, start, until, count, maxLegs, excluded]: "from" and "to" are
              \* functions of stops to the walk from the origin and to the destination
  DayLength,
  LegPenalty, \* planVehicleLegPenalty
  MaxExpanded,
  None

PlannerAssumption ==
  /\ DayLength \in Nat \ {0} /\ {LegPenalty, MaxExpanded} \subseteq Nat
  /\ \A q \in Requests : DOMAIN q.from \subseteq Stops /\ DOMAIN q.to \subseteq Stops /\ q.count > 0

VARIABLES
  net, request,
  order,      \* the destinations as the iteration over their map gives them
  round,      \* vehicle legs allowed in this round; 0 before the first
  queue,      \* labels of the heap
  best,       \* entries [state, at, sign] of the map best
  plans,      \* sequences of legs found, with the time of arrival
  expanded,
  done        \* "no", "found", "truncated"

vars == <<net, request, order, round, queue, best, plans, expanded, done>>

Init ==
  /\ net \in Networks /\ request \in Requests /\ order \in SetToSeqs(DOMAIN request.to)
  /\ round = 0 /\ queue = {} /\ best = {} /\ plans = {} /\ expanded = 0 /\ done = "no"

-----------------------------------------------------------------------------
(* The network: loadTopology, buildStaticPatternsLocked. *)

CallsOf(j) == net.journeys[j].calls
Service(j) == net.journeys[j].service

\* A forbidden transfer without restrictions removes all between its stops.
Edges ==
  {t \in net.transfers :
     /\ t.kind # "forbidden" /\ t.from # t.to /\ t.time > 0
     /\ ~\E f \in net.transfers :
          f.kind = "forbidden" /\ f.ifFrom = None /\ f.ifTo = None /\ f.from = t.from /\ f.to = t.to}

Restricted(t)  == t.ifFrom # None \/ t.ifTo # None
SamePlace(t)   == t.kind = "alias"

Repeat(n, step(_), start) == FoldLeft(LAMBDA c, i : step(c), start, [i \in 1..n |-> i])

\* rebuildIncomingJourneyStateStopsLocked: where the incoming journey matters.
StateStops ==
  LET back(found) == found \cup {t.from : t \in {t \in Edges : SamePlace(t) /\ t.to \in found}}
  IN  Repeat(Cardinality(Stops), back, {t.from : t \in {t \in Edges : Restricted(t)}})

\* The stops of a journey without immediate repetitions.
PatternStops(j) ==
  LET kept == {n \in DOMAIN CallsOf(j) : n = 1 \/ CallsOf(j)[n].stop # CallsOf(j)[n - 1].stop}
  IN  [n \in 1..Cardinality(kept) |->
         CallsOf(j)[CHOOSE k \in kept : Cardinality({i \in kept : i <= k}) = n].stop]

\* Journeys of one service with the same stops share a pattern, named by the first.
PatternOf(j) ==
  Min({i \in DOMAIN net.journeys : Service(i) = Service(j) /\ PatternStops(i) = PatternStops(j)})
Patterns == {PatternOf(j) : j \in DOMAIN net.journeys}

ArrivingPatterns(stop) ==
  {p \in Patterns : \E n \in DOMAIN PatternStops(p) : n > 1 /\ PatternStops(p)[n] = stop}

-----------------------------------------------------------------------------
(* The corridor: buildPlanCorridor, a reverse search with one bucket of stops per   *)
(* number of rides.                                                               *)

Unreachable == 255

ReverseTransfers(c, stop) ==
  LET new == {s \in {t.from : t \in {t \in Edges : t.to = stop}} : c.rides[s] > c.level}
  IN  [c EXCEPT !.rides = [s \in Stops |-> IF s \in new THEN c.level ELSE @[s]],
                !.bucket = @ \o SetToSeq(new)]

\* A pattern is ridden once, from the calls before the first one at this stop.
RidePattern(c, p, stop) ==
  LET position == Min({n \in DOMAIN PatternStops(p) : n > 1 /\ PatternStops(p)[n] = stop})
      new == {s \in {PatternStops(p)[n] : n \in 1..(position - 1)} : c.rides[s] > c.level + 1}
  IN  [c EXCEPT !.ridden = @ \cup {p},
                !.rides = [s \in Stops |-> IF s \in new THEN c.level + 1 ELSE @[s]],
                !.next = @ \o SetToSeq(new)]

CorridorStep(c, maxLegs) ==
  LET stop   == Head(c.bucket)
      popped == [c EXCEPT !.bucket = Tail(@)]
      walked == ReverseTransfers(popped, stop)
  IN  IF c.bucket = <<>> THEN [c EXCEPT !.level = @ + 1, !.bucket = c.next, !.next = <<>>]
      ELSE IF c.rides[stop] # c.level THEN popped
      ELSE IF c.level = maxLegs THEN walked
      ELSE FoldSet(LAMBDA p, d : RidePattern(d, p, stop), walked, ArrivingPatterns(stop) \ c.ridden)

\* minimumRides: what the search has found a stop to need.
Corridor(maxLegs) ==
  LET step(c) == IF c.level > maxLegs THEN c ELSE CorridorStep(c, maxLegs)
      start   == [rides |-> [s \in Stops |-> IF s \in DOMAIN request.to THEN 0 ELSE Unreachable],
                  level |-> 0, bucket |-> order, next |-> <<>>, ridden |-> {}]
  IN  Repeat((maxLegs + 1) * (2 * Cardinality(Stops) + 1), step, start).rides

-----------------------------------------------------------------------------
(* Labels and their dominance: stateForPlanLabel, pushPlanLabel, currentPlanLabel. *)

Destinations == DOMAIN request.to

StateOf(l) ==
  [stop |-> l.stop, legs |-> l.legs, walked |-> l.walked, need |-> l.need,
   last |-> IF l.stop \in StateStops THEN l.last ELSE None]

\* The signature of a route leaves its times out.
Sign(l)  == [n \in DOMAIN l.route |-> [l.route[n] EXCEPT !.start = 0, !.end = 0]]
Entry(l) == [state |-> StateOf(l), at |-> l.at, sign |-> Sign(l)]

\* What a push would be that keeps the arrival that came first.
BugPush(h, l) ==
  LET kept  == {e \in h.best : e.state = StateOf(l)}
      limit == IF l.stop \in Destinations THEN request.count ELSE 1
  IN  IF h.corridor[l.stop] > h.round - l.legs \/ Cardinality(kept) >= limit THEN h
      ELSE [h EXCEPT !.best = @ \cup {Entry(l)}, !.queue = @ \cup {l}]

\* One arrival is kept for a state, at a destination as many as plans are wanted.
Push(h, l) ==
  LET kept  == {e \in h.best : e.state = StateOf(l)}
      limit == IF l.stop \in Destinations THEN request.count ELSE 1
      worst == CHOOSE e \in kept : \A f \in kept : f.at <= e.at
  IN  IF h.corridor[l.stop] > h.round - l.legs \/ Entry(l) \in kept THEN h
      ELSE IF Cardinality(kept) < limit
           THEN [h EXCEPT !.best = @ \cup {Entry(l)}, !.queue = @ \cup {l}]
      ELSE IF l.at < worst.at
           THEN [h EXCEPT !.best = (@ \ {worst}) \cup {Entry(l)}, !.queue = @ \cup {l}]
      ELSE h

PushAll(b, q, limit, labels) ==
  FoldSet(LAMBDA l, h : IF l.legs > limit THEN h ELSE Push(h, l),
          [best |-> b, queue |-> q, round |-> limit, corridor |-> Corridor(limit)],
          labels)

\* newPlanRound: a walk from the origin counts as one.
Origins ==
  {[stop |-> s, at |-> request.start + request.from[s], legs |-> 0, walked |-> request.from[s] > 0,
    last |-> None, need |-> None,
    route |-> IF request.from[s] = 0 THEN <<>>
              ELSE <<[kind |-> "walk", journey |-> None, from |-> None, to |-> s,
                      start |-> request.start, end |-> request.start + request.from[s]]>>]
     : s \in DOMAIN request.from}

-----------------------------------------------------------------------------
(* Expansion: expandPlanTransfers, expandPlanJourneys. *)

\* applicableTransferRestrictions.
Applies(t, l) ==
  Restricted(t) => l.last # None /\ (t.ifFrom # None => t.ifFrom = Service(l.last[2]))

ByTransfer(l) ==
  {[l EXCEPT !.stop = t.to, !.at = @ + t.time, !.walked = @ \/ ~SamePlace(t), !.need = t.ifTo,
             !.route = Append(@, [kind |-> t.kind, journey |-> None, from |-> t.from, to |-> t.to,
                                  start |-> l.at, end |-> l.at + t.time])]
     : t \in {t \in Edges : /\ t.from = l.stop /\ (l.walked => SamePlace(t)) /\ Applies(t, l)
                             /\ l.at + t.time <= request.until}}

Leaves(e)  == e[1] * DayLength + CallsOf(e[2])[e[3]].at
Before(e, f) == Leaves(e) < Leaves(f) \/ (Leaves(e) = Leaves(f) /\ (e[2] < f[2] \/ (e[2] = f[2] /\ e[3] < f[3])))

\* The departures <<day, journey, call>> of the two service days from a time on, of
\* which the journeys can be used.
Departures(l) ==
  {e \in ((l.at \div DayLength)..(l.at \div DayLength + 1)) \X (DOMAIN net.journeys) \X (1..6) :
     /\ e[1] \in net.journeys[e[2]].days /\ e[3] < Len(CallsOf(e[2]))
     /\ CallsOf(e[2])[e[3]].stop = l.stop /\ CallsOf(e[2])[e[3]].board
     /\ l.at <= Leaves(e) /\ Leaves(e) <= request.until
     /\ e[2] \notin request.excluded /\ (l.need # None => Service(e[2]) = l.need)}

\* The first departure of each pattern and day; of a pattern that arrives at the
\* destination as many as plans are wanted.
Retained(l) ==
  LET wanted(e) == IF \E s \in Destinations : PatternOf(e[2]) \in ArrivingPatterns(s)
                   THEN request.count ELSE 1
  IN  {e \in Departures(l) :
         Cardinality({f \in Departures(l) :
            f[1] = e[1] /\ PatternOf(f[2]) = PatternOf(e[2]) /\ Before(f, e)}) < wanted(e)}

\* Each journey is boarded at its first retained call, and not where it was left.
Boarded(l) ==
  LET same(e) == l.route # <<>> /\ Last(l.route).journey # None /\ Last(l.route).journey[2] = e[2]
  IN  {e \in Retained(l) :
         ~same(e) /\ ~\E f \in Retained(l) : f[1] = e[1] /\ f[2] = e[2] /\ Before(f, e)}

Ride(l, e, n) ==
  LET at == e[1] * DayLength + CallsOf(e[2])[n].at
  IN  [stop |-> CallsOf(e[2])[n].stop, at |-> at, legs |-> l.legs + 1, walked |-> FALSE,
       last |-> <<e[1], e[2]>>, need |-> None,
       route |-> Append(l.route, [kind |-> "ride", journey |-> <<e[1], e[2]>>, from |-> l.stop,
                                  to |-> CallsOf(e[2])[n].stop, start |-> Leaves(e), end |-> at])]

ByJourney(l) ==
  {l2 \in UNION {{Ride(l, e, n) : n \in {n \in DOMAIN CallsOf(e[2]) : n > e[3] /\ CallsOf(e[2])[n].alight}}
                    : e \in Boarded(l)} : l2.at <= request.until}

-----------------------------------------------------------------------------
(* The search: Plan. *)

Priority(l) == l.at + (IF l.legs > 1 THEN (l.legs - 1) * LegPenalty ELSE 0)

\* Labels of equal priority and arrival come in any order.
IsNext(l) ==
  \A k \in queue : Priority(l) < Priority(k) \/ (Priority(l) = Priority(k) /\ l.at <= k.at)

Searching == done = "no" /\ round > 0 /\ queue # {} /\ Cardinality(plans) < request.count

StartRound ==
  /\ done = "no" /\ queue = {} /\ round < request.maxLegs /\ Cardinality(plans) < request.count
  /\ round' = round + 1
  /\ LET h == PushAll({}, {}, round + 1, Origins)
     IN  best' = h.best /\ queue' = h.queue
  /\ UNCHANGED <<net, request, order, plans, expanded, done>>

\* A label that has been replaced since is dropped.
DropStale(l) ==
  /\ Searching /\ expanded < MaxExpanded /\ IsNext(l) /\ Entry(l) \notin best
  /\ queue' = queue \ {l}
  /\ UNCHANGED <<net, request, order, round, best, plans, expanded, done>>

Arrived(l) == l.stop \in Destinations /\ (l.route # <<>> \/ request.to[l.stop] > 0)

Finish(l) ==
  LET walk == request.to[l.stop]
  IN  [legs |-> IF walk = 0 THEN l.route
                ELSE Append(l.route, [kind |-> "walk", journey |-> None, from |-> l.stop, to |-> None,
                                      start |-> l.at, end |-> l.at + walk]),
       at |-> l.at + walk]

\* planKey: the times of arrival do not tell plans apart.
Key(p) == [n \in DOMAIN p.legs |-> [p.legs[n] EXCEPT !.end = 0]]

Arrive(l) ==
  /\ Searching /\ expanded < MaxExpanded /\ IsNext(l) /\ Entry(l) \in best /\ Arrived(l)
  /\ queue' = queue \ {l} /\ expanded' = expanded + 1
  /\ plans' = IF \E p \in plans : Key(p) = Key(Finish(l)) THEN plans ELSE plans \cup {Finish(l)}
  /\ UNCHANGED <<net, request, order, round, best, done>>

Expand(l) ==
  /\ Searching /\ expanded < MaxExpanded /\ IsNext(l) /\ Entry(l) \in best /\ ~Arrived(l)
  /\ expanded' = expanded + 1
  /\ LET rides == IF l.legs < round THEN ByJourney(l) ELSE {}
         h == PushAll(best, queue \ {l}, round, IF l.at > request.until THEN {} ELSE ByTransfer(l) \cup rides)
     IN  best' = h.best /\ queue' = h.queue
  /\ UNCHANGED <<net, request, order, round, plans, done>>

\* The budget of labels is used up, or the deadline has passed.
Truncate ==
  /\ Searching
  /\ done' = "truncated"
  /\ UNCHANGED <<net, request, order, round, queue, best, plans, expanded>>

End ==
  /\ done = "no" /\ round > 0
  /\ Cardinality(plans) >= request.count \/ (queue = {} /\ round = request.maxLegs)
  /\ done' = "found"
  /\ UNCHANGED <<net, request, order, round, queue, best, plans, expanded>>

Next ==
  \/ StartRound \/ Truncate \/ End
  \/ \E l \in queue : DropStale(l) \/ Arrive(l) \/ Expand(l)

Spec == Init /\ [][Next]_vars

-----------------------------------------------------------------------------
\* A leg is a ride of a journey that can be boarded and left there, or a transfer of
\* the network that applies after the leg before it.
RealLeg(legs, n) ==
  LET leg == legs[n]
  IN  \/ /\ leg.kind = "ride" /\ leg.journey[2] \notin request.excluded
         /\ leg.journey[1] \in net.journeys[leg.journey[2]].days
         /\ \E b, a \in DOMAIN CallsOf(leg.journey[2]) :
              LET calls == CallsOf(leg.journey[2])
                  time(k) == leg.journey[1] * DayLength + calls[k].at
              IN  /\ b < a /\ calls[b].board /\ calls[a].alight
                  /\ calls[b].stop = leg.from /\ calls[a].stop = leg.to
                  /\ time(b) = leg.start /\ time(a) = leg.end
      \/ leg.kind = "walk" /\ None \in {leg.from, leg.to}
      \/ \E t \in Edges :
           /\ t.kind = leg.kind /\ t.from = leg.from /\ t.to = leg.to /\ leg.end = leg.start + t.time
           /\ t.ifFrom # None =>
                \E k \in 1..(n - 1) : /\ legs[k].kind = "ride" /\ Service(legs[k].journey[2]) = t.ifFrom
                                      /\ \A i \in (k + 1)..(n - 1) : legs[i].kind # "ride"
           /\ t.ifTo # None /\ n < Len(legs) /\ legs[n + 1].kind = "ride" =>
                Service(legs[n + 1].journey[2]) = t.ifTo

\* Every plan can be travelled: its legs follow each other in place and time, the rides
\* exist and are at most as many as allowed, and nobody walks twice between rides
\* (planner.go:500-690).
PlansAreRides ==
  \A p \in plans :
    LET legs == p.legs
    IN  /\ \A n \in DOMAIN legs : RealLeg(legs, n)
        /\ \A n \in 2..Len(legs) : legs[n].from = legs[n - 1].to /\ legs[n - 1].end <= legs[n].start
        /\ legs[1].start >= request.start /\ p.at = Last(legs).end
        /\ Cardinality({n \in DOMAIN legs : legs[n].kind = "ride"}) <= request.maxLegs
        /\ \A n, k \in DOMAIN legs :
             n < k /\ legs[n].kind = "walk" /\ legs[k].kind = "walk" /\ legs[k].to # None =>
               \E i \in n..k : legs[i].kind = "ride"

\* Journeys of a pattern do not overtake each other and serve the same calls: what
\* planner.go:417-420 and the patterns rely on.
Interchangeable ==
  \A i, j \in DOMAIN net.journeys : PatternOf(i) = PatternOf(j) =>
    /\ Len(CallsOf(i)) = Len(CallsOf(j)) /\ net.journeys[i].days = net.journeys[j].days
    /\ \A n \in DOMAIN CallsOf(i) :
         CallsOf(i)[n].board = CallsOf(j)[n].board /\ CallsOf(i)[n].alight = CallsOf(j)[n].alight
    /\ \A n, k \in DOMAIN CallsOf(i) : CallsOf(i)[n].at < CallsOf(j)[n].at => CallsOf(i)[k].at <= CallsOf(j)[k].at

\* All arrivals that any sequence of rides and transfers has within a corridor.
Bare(l) == [l EXCEPT !.route = <<>>]
Arrivals(corridor) ==
  LET inside(l) == l.legs <= request.maxLegs /\ corridor[l.stop] <= request.maxLegs - l.legs
      rides(l)  == {Bare(Ride(l, e, n)) : <<e, n>> \in
                      {x \in Departures(l) \X (1..6) : /\ x[2] > x[1][3] /\ x[2] <= Len(CallsOf(x[1][2]))
                                                       /\ CallsOf(x[1][2])[x[2]].alight}}
      more(ls)  == ls \cup {k \in UNION {{Bare(m) : m \in ByTransfer(l)} \cup rides(l) : l \in ls} :
                              inside(k) /\ k.at <= request.until}
      labels    == Repeat(3 * request.maxLegs + 2, more, {Bare(l) : l \in {l \in Origins : inside(l)}})
  IN  {l.at + request.to[l.stop] : l \in {l \in labels :
         l.stop \in Destinations /\ (l.legs > 0 \/ l.at > request.start \/ request.to[l.stop] > 0)}}

\* A search that ends without having found all the plans it was asked for has found one
\* that arrives first in the corridor, or there is none: one label for a state and one
\* departure for a pattern are enough (planner.go:417-421, 612-618, 719-734).
FindsEarliest ==
  done = "found" /\ Cardinality(plans) < request.count /\ Interchangeable =>
    LET times == Arrivals(Corridor(request.maxLegs))
    IN  IF times = {} THEN plans = {} ELSE plans # {} /\ Min({p.at : p \in plans}) = Min(times)
=============================================================================
