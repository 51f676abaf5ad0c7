---------------------------- MODULE VehicleCases ----------------------------
(* What MCVehicles is checked with: duties of a vehicle, and tracks of a journey. *)
EXTENDS Integers, Sequences, SequencesExt

CONSTANTS None

-----------------------------------------------------------------------------
(* VehicleIdentification on a line with a variant, a short working and a trip that repeats. *)
Road == <<0, 800>>
SideRoad == <<40, 800>>
Name(word, number) == [word |-> word, number |-> number]
Lines == {[id |-> "s10", operator |-> "op", name |-> Name(None, 10)],
          [id |-> "sX10", operator |-> "alias", name |-> Name("X", 10)]}
Companies == {{"op", "alias"}, {"other"}}

J(id, service, departs, stops, trip, start, ticket, block, track) ==
  [id |-> id, service |-> service, days |-> {1}, dir |-> "out", departs |-> departs, stops |-> stops, trip |-> trip,
   start |-> start, ticket |-> ticket, block |-> block, track |-> track]
Morning == J(1, "s10", 420, <<"a", "b", "c">>, 1, None, 71, 5, Road)
Later == J(2, "s10", 480, <<"a", "b", "c">>, 2, 480, 72, 5, Road)
Repeat == [J(3, "s10", 500, <<"a", "b", "c">>, 2, 500, 72, None, Road) EXCEPT !.days = {1, 2}]
Variant == J(4, "s10", 480, <<"a", "d", "c">>, 4, None, 72, 5, SideRoad)
Express == J(5, "sX10", 484, <<"a", "c">>, 5, None, 75, 6, Road)
Twin == [Later EXCEPT !.id = 6, !.days = {1, 2}, !.ticket = None]
Sunday == [Morning EXCEPT !.id = 7, !.days = {2}]
Back == [J(8, "s10", 450, <<"c", "b", "a">>, 8, None, 78, 5, Reverse(Road)) EXCEPT !.dir = "in"]
Day == {Morning, Later, Repeat, Variant, Express, Twin, Sunday, Back}
Shifts == {<<Morning, Later>>, <<Morning, Back, Repeat>>, <<Variant, Express>>}

Siri(word, ref, block, ends, dir) ==
  [operator |-> "alias", word |-> word, ref |-> ref, block |-> block, ends |-> ends, dir |-> dir]
SiriStyles == {Siri("X", "ticket", FALSE, TRUE, TRUE), Siri(None, "trip", FALSE, TRUE, FALSE),
               Siri("X", "other", TRUE, FALSE, FALSE)}
GtfsStyles == {None, [trip |-> TRUE, start |-> TRUE], [trip |-> FALSE, start |-> FALSE]}

Places == UNION {ToSet(j.track) : j \in Day}
Distances == [a \in Places |-> [b \in Places |-> IF a < b THEN b - a ELSE a - b]]

-----------------------------------------------------------------------------
(* JourneyEstimates on a journey out and back, with tracks, with one track for all of it, and with none. *)
Leg(from, to, arrive, depart, reach, at, track) ==
  [from |-> from, to |-> to, arrive |-> arrive, depart |-> depart, reach |-> reach, at |-> at, track |-> track]
Tracks == [legs |-> <<Leg("a", "b", 0, 0, 2, 2, <<0, 2>>), Leg("b", "c", 2, 3, 4, 4, <<2, 4>>), Leg("c", "a", 4, 4, 6, 0, None)>>,
           track |-> None]
Retimed == [Tracks EXCEPT !.legs = <<@[1], [@[2] EXCEPT !.depart = 4, !.reach = 6], [@[3] EXCEPT !.arrive = 6, !.depart = 6, !.reach = 8]>>]
Whole == [legs |-> [k \in 1..3 |-> [Tracks.legs[k] EXCEPT !.track = None]], track |-> <<0, 4>>]
Bare == [Whole EXCEPT !.track = None]

Update(stop, arrival, late) == [stop |-> stop, arrival |-> arrival, departure |-> arrival, late |-> late]
Feeds == {<<Update("b", 3, 0), Update("c", None, 2)>>, <<Update("a", 1, 0), Update("a", None, 3), Update("a", 2, 0)>>}
Versions == {Tracks, Retimed, Whole, Bare}
=============================================================================
