------------------------------- MODULE MCServed -------------------------------
(* How what is published comes to be served, one component at a time, the first two scheduled fairly: the   *)
(* pipeline that makes stops, journeys and transfers of source files, which is DatasetPipeline as extended   *)
(* here; the departure graph of one journey; and the planner.  What is not at work stays as it is.           *)
EXTENDS DatasetPipeline

VARIABLES
  part,  \* what is at work
  graphGraph, graphToday, graphBuilder, graphFlights, graphPending, graphQueue, graphFiller,
  graphSaver, graphFile, graphHasComplete, graphDirty, graphFaults, graphSpoiled,
  planNet, planRequest, planOrder, planRound, planQueue, planBest, planPlans, planExpanded,
  planDone

Case == INSTANCE ServedCases
TwoDatasets == Case!TwoDatasets
TwoFiles    == Case!TwoFiles
NearPairs   == Case!NearPairs
ManualIds   == Case!ManualIds

\* A journey that serves two stops on both days, of which requests ask for one.
TwoStops    == {"a", "b"}
AskedKey    == {<<1, "b">>}
OneCallList == << [a |-> <<1>>, b |-> <<2>>] >>
OneRunList  == << {0, 1} >>

graphVars == <<graphGraph, graphToday, graphBuilder, graphFlights, graphPending, graphQueue,
  graphFiller, graphSaver, graphFile, graphHasComplete, graphDirty, graphFaults, graphSpoiled>>
Graph == INSTANCE DepartureGraph WITH graph <- graphGraph, today <- graphToday,
  builder <- graphBuilder, flights <- graphFlights, pending <- graphPending, queue <- graphQueue,
  filler <- graphFiller, saver <- graphSaver, file <- graphFile, hasComplete <- graphHasComplete,
  dirty <- graphDirty, faults <- graphFaults, spoiled <- graphSpoiled, NJourneys <- 1,
  Calls <- OneCallList, ServiceDays <- OneRunList, Stops <- TwoStops, LastDay <- 1, Behind <- 0,
  Ahead <- 0, ScanBatch <- 1, Asked <- AskedKey, MaxFaults <- 1, Nil <- None

planVars == <<planNet, planRequest, planOrder, planRound, planQueue, planBest, planPlans,
  planExpanded, planDone>>
Planner == INSTANCE JourneyPlanner WITH net <- planNet, request <- planRequest,
  order <- planOrder, round <- planRound, queue <- planQueue, best <- planBest,
  plans <- planPlans, expanded <- planExpanded, done <- planDone, Stops <- Case!FourStops,
  Networks <- Case!SmallNetworks, Requests <- Case!SomeRequests, DayLength <- 8,
  LegPenalty <- 1, MaxExpanded <- 30
PlannerIdle ==
  /\ planNet = None /\ planRequest = None /\ planOrder = None /\ planRound = None
  /\ planQueue = None /\ planBest = None /\ planPlans = None /\ planExpanded = None
  /\ planDone = None

ServedInit ==
  \/ part = "graph" /\ Graph!GraphInit /\ Init /\ PlannerIdle
  \/ part = "pipeline" /\ Init /\ PlannerIdle /\ Graph!GraphInit
  \/ part = "plan" /\ Planner!Init /\ Init /\ Graph!GraphInit

ServedNext ==
  \/ part = "graph" /\ Graph!GraphNext /\ UNCHANGED <<part, vars, planVars>>
  \/ part = "pipeline" /\ Next /\ UNCHANGED <<part, graphVars, planVars>>
  \/ part = "plan" /\ Planner!Next /\ UNCHANGED <<part, vars, graphVars>>

\* Goroutines run; MongoDB and the disk answer, except for the faults counted.  Who waits for
\* snapshotMu or the maintenance barrier gets it in the end: Go's mutexes do not starve, a waiting
\* Lock holds off later RLocks.
GraphFairness ==
  /\ WF_graphVars(part = "graph" /\ Graph!Fill) /\ WF_graphVars(part = "graph" /\ Graph!Build)
  /\ WF_graphVars(part = "graph" /\ Graph!Write)
  /\ SF_graphVars(part = "graph" /\ (Graph!LoadTopology \/ Graph!CompleteRolling))
  /\ SF_graphVars(part = "graph" /\ Graph!StartSave("builder"))

\* Runs are started again and their tasks go on.
PipelineFairness ==
  /\ WF_vars(part = "pipeline" /\ Work)
  /\ WF_vars(part = "pipeline" /\ \E f \in BOOLEAN : StartRun(f))

ASSUME ServedPartsAssumption == Planner!PlannerAssumption

servedVars == <<part, vars, graphVars, planVars>>

ServedSpec ==
  /\ ServedInit /\ [][ServedNext]_servedVars
  /\ GraphFairness /\ PipelineFairness

-----------------------------------------------------------------------------
\* The day of today becomes complete and stays it, through failed scans, restarts and checkpoints
\* that hold the maintenance barrier (graph.go:353-397, 731-761).
TodayServed == <>[](part = "graph" => graphToday \in graphGraph.completeDays)

\* What was loaded for a request does not stay pending for ever: it reaches the graph or is dropped,
\* and later requests see the graph again (graph.go:446-449, 528-551).
FillsDrain == \A key \in AskedKey : (part = "graph" /\ key \in graphPending) ~> key \notin graphPending

\* The sources reach readers in the end (DatasetPipeline's Follows), through failures
\* between any two steps, once the sources stop changing.
ReadersFollowFiles == <>[](part = "pipeline" => Follows)

\* What the planner offers can be travelled, and nothing arrives earlier
\* (JourneyPlanner!PlansAreRides, FindsEarliest).
PlansAreBest == part = "plan" => Planner!PlansAreRides /\ Planner!FindsEarliest
=============================================================================
