------------------------------- MODULE MCTimetables -------------------------------
(* Where timetables come from and how the trains of one are followed: the train describer, which is       *)
(* TrainDescriber as extended here, and three of the imports that batch tasks run.  One is at work, the    *)
(* others stay as they are.                                                                                *)
EXTENDS MCTrainDescriber

CONSTANTS Invalid, NoOperator

VARIABLES
  part,  \* what is at work
  gtfsFeed, gtfsStage, gtfsTrips, gtfsUses, gtfsShapes, gtfsChunks, gtfsGroup, gtfsPatterns,
  gtfsQueue, gtfsWriting, gtfsIdle, gtfsDue, gtfsBusy, gtfsStored,
  cifFile, cifLive, cifWhole, cifCurrent, cifHolding, cifSets, cifJourneys, cifStage,
  txcBundle, txcFile, txcStage, txcStamp, txcExisting, txcBatches, txcWrites, txcJourneys,
  txcServices, txcTracks

GtfsCase == INSTANCE GtfsCases
CifCase == INSTANCE CifCases
TxcCase == INSTANCE TxcCases

gtfsVars == <<gtfsFeed, gtfsStage, gtfsTrips, gtfsUses, gtfsShapes, gtfsChunks, gtfsGroup,
  gtfsPatterns, gtfsQueue, gtfsWriting, gtfsIdle, gtfsDue, gtfsBusy, gtfsStored>>
Gtfs == INSTANCE GtfsImport WITH feed <- gtfsFeed, stage <- gtfsStage, trips <- gtfsTrips,
  uses <- gtfsUses, shapes <- gtfsShapes, chunks <- gtfsChunks, group <- gtfsGroup,
  patterns <- gtfsPatterns, queue <- gtfsQueue, writing <- gtfsWriting, idle <- gtfsIdle,
  due <- gtfsDue, busy <- gtfsBusy, stored <- gtfsStored, Feeds <- GtfsCase!GtfsFeeds,
  ChunkSize <- 4, MaxPatterns <- 1, BatchSize <- 2, EmptyTimeout <- 2, WriteTime <- 2, Pace <- 1
GtfsIdle ==
  /\ gtfsFeed = None /\ gtfsStage = None /\ gtfsTrips = None /\ gtfsUses = None
  /\ gtfsShapes = None /\ gtfsChunks = None /\ gtfsGroup = None /\ gtfsPatterns = None
  /\ gtfsQueue = None /\ gtfsWriting = None /\ gtfsIdle = None /\ gtfsDue = None
  /\ gtfsBusy = None /\ gtfsStored = None

cifVars == <<cifFile, cifLive, cifWhole, cifCurrent, cifHolding, cifSets, cifJourneys, cifStage>>
Cif == INSTANCE CifTimetable WITH file <- cifFile, live <- cifLive, whole <- cifWhole,
  current <- cifCurrent, holding <- cifHolding, sets <- cifSets, journeys <- cifJourneys,
  stage <- cifStage, Files <- CifCase!TimetableFiles, Lives <- CifCase!Before,
  Tiplocs <- CifCase!TiplocStops, Stations <- CifCase!StationStops, FullLength <- {"XLONG"}
CifIdle ==
  /\ cifFile = None /\ cifLive = None /\ cifWhole = None /\ cifCurrent = None
  /\ cifHolding = None /\ cifSets = None /\ cifJourneys = None /\ cifStage = None

txcVars == <<txcBundle, txcFile, txcStage, txcStamp, txcExisting, txcBatches, txcWrites,
  txcJourneys, txcServices, txcTracks>>
Txc == INSTANCE TransXChangeImport WITH bundle <- txcBundle, file <- txcFile, stage <- txcStage,
  stamp <- txcStamp, existing <- txcExisting, batches <- txcBatches, writes <- txcWrites,
  journeys <- txcJourneys, services <- txcServices, tracks <- txcTracks,
  Bundles <- TxcCase!TxcBundles, Leftovers <- TxcCase!TxcLeftovers, Days <- 1..5, Today <- 3,
  Ignored <- {}, Workers <- 2, MaxCrashes <- 1
TxcIdle ==
  /\ txcBundle = None /\ txcFile = None /\ txcStage = None /\ txcStamp = None
  /\ txcExisting = None /\ txcBatches = None /\ txcWrites = None /\ txcJourneys = None
  /\ txcServices = None /\ txcTracks = None

TdIdle == Init /\ run = [j \in Journeys |-> None]

TimetablesInit ==
  \/ part = "td" /\ Init /\ GtfsIdle /\ CifIdle /\ TxcIdle
  \/ part = "gtfs" /\ Gtfs!Init /\ CifIdle /\ TxcIdle /\ TdIdle
  \/ part = "cif" /\ Cif!Init /\ GtfsIdle /\ TxcIdle /\ TdIdle
  \/ part = "txc" /\ Txc!Init /\ GtfsIdle /\ CifIdle /\ TdIdle

TimetablesNext ==
  \/ part = "td" /\ Next /\ UNCHANGED <<part, gtfsVars, cifVars, txcVars>>
  \/ part = "gtfs" /\ Gtfs!Next /\ UNCHANGED <<part, vars, cifVars, txcVars>>
  \/ part = "cif" /\ Cif!Next /\ UNCHANGED <<part, vars, gtfsVars, txcVars>>
  \/ part = "txc" /\ Txc!Next /\ UNCHANGED <<part, vars, gtfsVars, cifVars>>

ASSUME TimetablesPartsAssumption ==
  /\ Gtfs!GtfsAssumption
  /\ Txc!TransXChangeAssumption

timetablesVars == <<part, vars, gtfsVars, cifVars, txcVars>>

TimetablesSpec == TimetablesInit /\ [][TimetablesNext]_timetablesVars

-----------------------------------------------------------------------------
\* A GTFS import that returned has written every run of the feed with its calls, days and leg
\* geometry, though rows come in any order and writes end unseen (GtfsImport!ImportedAsPublished).
ImportedAsPublished == part = "gtfs" => Gtfs!ImportedAsPublished

\* After a CIF import every train runs on every day as the schedule in force says, once, however
\* overlays and cancellations are stacked (CifTimetable!RunsAsFiled).
RunsAsFiled == part = "cif" => Cif!RunsAsFiled

\* After a TransXChange import the database holds each journey as the newest document files it, and
\* nothing else, whatever was left before (TransXChangeImport!ImportedAsFiled).
ImportedAsFiled == part = "txc" => Txc!ImportedAsFiled
=============================================================================
