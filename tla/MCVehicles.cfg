\* Two consumers, both sources, a LocalID that is identified already, snapshots that expire, a crash;
\* a vehicle that changes its journey; two consumers that estimate one journey.
SPECIFICATION VehiclesSpec
CONSTANTS
  gtfsID = gtfsID
  siriID = siriID
  trip1 = trip1
  None = None
  NA = NA
  Consumers = {c1, c2}
  Observations <- Three
  Feed <- BothSources
  Locals <- LocalIDs
  Journeys <- JourneyIDs
  BatchSize = 2
  Known <- SiriKnown
  MaxFaults = 1
  Timetables <- Versions
  Points <- TwoEnds
  Predictions <- Feeds
  Slack = 1
  Minute = 2
  MaxTime = 2
  MaxImports = 1
INVARIANTS ObservationsCountOnce OnItsOwnJourney 
PROPERTIES WritesRespectOthers ObservationsDrain
CHECK_DEADLOCK FALSE
