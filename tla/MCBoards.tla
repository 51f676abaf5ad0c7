------------------------------- MODULE MCBoards -------------------------------
(* What passengers are shown, one component at a time: the map of vehicles, and the      *)
(* departure graph of two journeys, which are LocationIndex and DepartureGraph as extended here; the         *)
(* formations of rail trains; the boards of a stop and of a TfL stop.  What is not at work stays as it is.  *)
EXTENDS LocationIndex, DepartureGraph

VARIABLES
  part,  \* what is at work
  formationRun, formationMapped, formationAllocation, formationLoading, formationPosition,
  formationRetries, formationDarwin, formationRetry, formationLinx, formationTold, formationSent,
  formationClock,
  boardTrips, boardLive, boardForecast, boardQuery, boardDay, boardBoard, boardAnswer

\* Two formations with coaches of one name, alone and joined, and one LINX unit.
Formed(fid) == [fid |-> fid, coaches |-> << <<"A">>, <<"B">> >>]
AllFormations == {<<Formed("front")>>, <<Formed("front"), Formed("rear")>>}
AllConsists ==
  {<<[group |-> "unit", position |-> 1, reversed |-> TRUE,
      vehicles |-> <<[id |-> "v1", role |-> "PowerCar"], [id |-> "v2", role |-> "Passenger"]>>]>>}
AllLoadings ==
  {[fid |-> "front", coaches |-> << <<"A">> >>, percentage |-> 10],
   [fid |-> "rear", coaches |-> << <<"A">>, <<"B">> >>, percentage |-> 30],
   [fid |-> "front", coaches |-> << <<"A">> >>, percentage |-> 50]}

\* Two stops, of which requests ask for one; journey 1 serves both on both days, journey 2 the asked
\* one on the second day.
TwoStops == {"a", "b"}
AskedKey == {<<1, "b">>}
TwoCalls == << [a |-> <<1>>, b |-> <<2>>], [a |-> <<>>, b |-> <<1>>] >>
TwoRuns  == << {0, 1}, {1} >>

BoardCase == INSTANCE BoardCases

formationVars == <<formationRun, formationMapped, formationAllocation, formationLoading,
  formationPosition, formationRetries, formationDarwin, formationRetry, formationLinx,
  formationTold, formationSent, formationClock>>
Formation == INSTANCE RailFormation WITH run <- formationRun, mapped <- formationMapped,
  allocation <- formationAllocation, loading <- formationLoading, position <- formationPosition,
  retries <- formationRetries, darwin <- formationDarwin, retry <- formationRetry,
  linx <- formationLinx, told <- formationTold, sent <- formationSent, clock <- formationClock,
  Formations <- AllFormations, Consists <- AllConsists, Loadings <- AllLoadings, MaxMessages <- 4,
  MaxObservations <- 1
FormationIdle ==
  /\ formationRun = None /\ formationMapped = None /\ formationAllocation = None
  /\ formationLoading = None /\ formationPosition = None /\ formationRetries = None
  /\ formationDarwin = None /\ formationRetry = None /\ formationLinx = None
  /\ formationTold = None /\ formationSent = None /\ formationClock = None

boardVars == <<boardTrips, boardLive, boardForecast, boardQuery, boardDay, boardBoard,
  boardAnswer>>
Local == INSTANCE StopBoards WITH trips <- boardTrips, live <- boardLive,
  forecast <- boardForecast, query <- boardQuery, day <- boardDay, board <- boardBoard,
  answer <- boardAnswer, Timetables <- BoardCase!LocalTimetables,
  Reports <- BoardCase!LocalReports, Forecasts <- {{}}, Queries <- BoardCase!LocalQueries,
  DayLength <- 6, Week <- 2, Lookback <- 1, EstimateWindow <- 1, Limit <- 2
LocalIdle ==
  /\ boardTrips = None /\ boardLive = None /\ boardForecast = None /\ boardQuery = None
  /\ boardDay = None /\ boardBoard = None /\ boardAnswer = None

Tfl == INSTANCE StopBoards WITH trips <- boardTrips, live <- boardLive, forecast <- boardForecast,
  query <- boardQuery, day <- boardDay, board <- boardBoard, answer <- boardAnswer,
  Timetables <- BoardCase!LoopTimetables, Reports <- {<<None>>},
  Forecasts <- BoardCase!OneForecast, Queries <- BoardCase!TflQueries, DayLength <- 6, Week <- 2,
  Lookback <- 1, EstimateWindow <- 1, Limit <- 2

BoardsInit ==
  \/ part = "map" /\ Init /\ FormationIdle /\ GraphInit /\ LocalIdle
  \/ part = "formation" /\ Formation!Init /\ GraphInit /\ LocalIdle /\ Init
  \/ part = "graph" /\ GraphInit /\ FormationIdle /\ LocalIdle /\ Init
  \/ part = "local" /\ Local!Init /\ FormationIdle /\ GraphInit /\ Init
  \/ part = "tfl" /\ Tfl!Init /\ FormationIdle /\ GraphInit /\ Init

BoardsNext ==
  \/ part = "map" /\ Next /\ UNCHANGED <<part, formationVars, graphVars, boardVars>>
  \/ part = "formation" /\ Formation!Next /\ UNCHANGED <<part, vars, graphVars, boardVars>>
  \/ part = "graph" /\ GraphNext /\ UNCHANGED <<part, vars, formationVars, boardVars>>
  \/ part = "local" /\ Local!Next /\ UNCHANGED <<part, vars, formationVars, graphVars>>
  \/ part = "tfl" /\ Tfl!Next /\ UNCHANGED <<part, vars, formationVars, graphVars>>

ASSUME BoardsPartsAssumption ==
  /\ Formation!FormationAssumption
  /\ Local!BoardAssumption
  /\ Tfl!BoardAssumption

boardsVars == <<part, vars, formationVars, graphVars, boardVars>>

BoardsSpec ==
  /\ BoardsInit /\ [][BoardsNext]_boardsVars

-----------------------------------------------------------------------------
\* However the records of a formation expire apart and are written back, a reader finds each coach
\* as full as its train's feed last said, and no position without its time
\* (RailFormation!ReadersAreToldTheFeeds).
ReadersAreToldTheFeeds == part = "formation" => Formation!TypeOK /\ Formation!ReadersAreToldTheFeeds

\* A board answers with the next departures, late ones among them, in order, whichever service day
\* they belong to and however their delay is reported; and predictions in one direction hide no
\* scheduled journey in another (StopBoards!NextDepartures and DirectionsApart).
BoardsTellNext == (part = "local" => Local!NextDepartures) /\ (part = "tfl" => Tfl!DirectionsApart)
=============================================================================
