------------------------------ MODULE MCVehicles ------------------------------
(* A vehicle's observations, one component at a time: the queue and its consumers, scheduled fairly, which *)
(* is VehicleTracker; the identification of the journey a vehicle runs; and the estimates several consumers *)
(* make for a journey, which are JourneyEstimates.  Both are extended here.                                   *)
EXTENDS MCVehicleTracker, JourneyEstimates

VARIABLES
  part,  \* what is at work
  seenDuty, seenSiri, seenGtfs, seenRun, seenPlace, seenNow, seenRadioed, seenQueue, seenMapping,
  seenOwned, seenHistory, seenAttributed

Case == INSTANCE VehicleCases
Versions == Case!Versions
TwoEnds  == {0, 3}
Feeds    == Case!Feeds

seenVars == <<seenDuty, seenSiri, seenGtfs, seenRun, seenPlace, seenNow, seenRadioed, seenQueue,
  seenMapping, seenOwned, seenHistory, seenAttributed>>
Identification == INSTANCE VehicleIdentification WITH duty <- seenDuty, siri <- seenSiri,
  gtfs <- seenGtfs, run <- seenRun, place <- seenPlace, now <- seenNow, radioed <- seenRadioed,
  queue <- seenQueue, mapping <- seenMapping, owned <- seenOwned, history <- seenHistory,
  attributed <- seenAttributed, Timetable <- Case!Day,
  Services <- Case!Lines, Operators <- Case!Companies,
  Duties <- Case!Shifts, SiriFeeds <- Case!SiriStyles,
  GtfsFeeds <- Case!GtfsStyles, Metres <- Case!Distances, Today <- 1,
  MaxAge <- 2, HistoryTTL <- 2, Near <- 150, Margin <- 30, MaxTime <- 3, MaxQueue <- 1
IdentificationIdle ==
  /\ seenDuty = None /\ seenSiri = None /\ seenGtfs = None /\ seenRun = None
  /\ seenPlace = None /\ seenNow = None /\ seenRadioed = None /\ seenQueue = None
  /\ seenMapping = None /\ seenOwned = None /\ seenHistory = None /\ seenAttributed = None

\* Where it is not at work, the estimates of one version of the timetable that nobody has looked at.
EstimatesIdle == EstimatesInit /\ timetable = [j \in Journeys |-> Case!Tracks]

VehiclesInit ==
  \/ part = "queue" /\ Init /\ IdentificationIdle /\ EstimatesIdle
  \/ part = "identification" /\ Identification!Init /\ EstimatesIdle /\ Init
  \/ part = "estimates" /\ EstimatesInit /\ IdentificationIdle /\ Init

VehiclesNext ==
  \/ part = "queue" /\ Next /\ UNCHANGED <<part, seenVars, estimateVars>>
  \/ part = "identification" /\ Identification!Next /\ UNCHANGED <<part, vars, estimateVars>>
  \/ part = "estimates" /\ EstimatesNext /\ UNCHANGED <<part, vars, seenVars>>

ASSUME VehiclesPartsAssumption == Identification!IdentificationAssumption

vehiclesVars == <<part, vars, seenVars, estimateVars>>

VehiclesSpec ==
  /\ VehiclesInit /\ [][VehiclesNext]_vehiclesVars
  /\ \A c \in Consumers : WF_vars(part = "queue" /\ Consumer(c))

-----------------------------------------------------------------------------
\* Every delivery is acknowledged in the end, whatever becomes of it.
ObservationsDrain == <>[](part = "queue" => ready = {} /\ \A c \in Consumers : unacked[c] = {})

\* A vehicle is put on the journey it runs or ran, however little its feeds say, and never on a
\* stranger's (VehicleIdentification!OnItsOwnJourney).
OnItsOwnJourney == part = "identification" => Identification!OnItsOwnJourney
=============================================================================
