--------------------------- MODULE MCVehicleTracker ---------------------------
(* Feeds for VehicleTracker: one vehicle that two sources report.            *)
EXTENDS VehicleTracker

CONSTANTS gtfsID, siriID, trip1

Obs(local, at, source, kind, by, next) ==
  [local |-> local, at |-> at, source |-> source, kind |-> kind, journey |-> trip1, by |-> by,
   next |-> next]

LocalIDs   == {gtfsID, siriID}
JourneyIDs == {trip1}

\* GTFS-RT and SIRI report the same journey.
BothSources ==
  <<Obs(gtfsID, 1, "GTFS-RT", "trip", "timetable", 1), Obs(siriID, 2, "siri-vm", "location", "location", 1),
    Obs(siriID, 3, "siri-vm", "trip", "timetable", 2)>>

\* One LocalID, two trip updates.
OneSource ==
  <<Obs(siriID, 1, "siri-vm", "trip", "timetable", 1), Obs(siriID, 2, "siri-vm", "trip", "location", 2)>>

Three == 1..3
Two   == 1..2
NoKnown == {}
SiriKnown == {siriID}
=============================================================================
