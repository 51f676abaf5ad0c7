\* Two runs with one headcode on one leg; GTFS feeds of four trips, CIF files of two trains,
\* TransXChange bundles of two documents.
SPECIFICATION TimetablesSpec
CONSTANTS
  None = None
  Invalid = Invalid
  NoOperator = NoOperator
  j1 = j1  j2 = j2  ba = ba  bb = bb  bc = bc  code = code
  Journeys <- TwoJourneys
  Trains <- TwoJourneys
  Berths <- ThreeBerths
  Path <- SamePath
  Legs <- OneLeg
  Origin <- Starts
  Headcode <- SameCode
  Headcodes <- Codes
  Transition <- NoTransition
  BerthPoint <- TwoPoints
  Smart <- SmartStep
  TrainsOf <- OneEach
  Messages <- FewMessages
  Feed <- Line
  Movers = {m1}
  Window = 1
  MaxTime = 3
  Delay = 1
SYMMETRY Alike
INVARIANTS OneTrainPerBerth   
PROPERTIES PositionsInOrder
CHECK_DEADLOCK FALSE
