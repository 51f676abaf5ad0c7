---------------------------- MODULE DepartureGraph ----------------------------
(***************************************************************************)
(* The in-memory timetable of the departure graph service: a background scan  *)
(* that fills a rolling window of service days, on-demand fills of single     *)
(* stops, the compaction that ends a scan, the topology, and the checkpoint   *)
(* file with restarts.  graphData is one record, changed under its lock; what *)
(* the code does in one critical section is one action.  The lookup maps that *)
(* are dropped and rebuilt (StringIDs, JourneyIDs, StopIDs) are functions of   *)
(* the rest.  The timetable in MongoDB does not change while the model runs,   *)
(* and every call of it can be boarded.  Topology is there or not: stops and      *)
(* transfers are in JourneyPlanner.                                           *)
(***************************************************************************)
EXTENDS Naturals, Sequences, FiniteSets, FiniteSetsExt

CONSTANTS
  NJourneys,    \* journeys are 1..NJourneys, in the order of their _id
  Calls,        \* of a journey: the times it leaves each stop, in order
  ServiceDays,  \* of a journey: the days it runs on
  Stops, LastDay,
  Behind, Ahead,   \* the rolling window around today
  ScanBatch,       \* progress is recorded every ScanBatch journeys
  Asked,           \* <<day, stop>> that requests ask for
  MaxFaults,       \* restarts and failures
  Nil

ASSUME GraphAssumption ==
  /\ {NJourneys, ScanBatch} \subseteq Nat \ {0}
  /\ {Behind, Ahead, LastDay, MaxFaults} \subseteq Nat /\ Nil \notin Nat
  /\ Calls \in [1..NJourneys -> [Stops -> Seq(Nat)]]
  /\ ServiceDays \in [1..NJourneys -> SUBSET Nat]
  /\ Asked \subseteq (0..LastDay) \X Stops

VARIABLES
  graph,     \* graphData
  today,
  builder,   \* the goroutine of run: [at, day, cursor, seen]
  flights,   \* <<day, stop>> that a request is loading from MongoDB
  pending,   \* loaded, not yet in the graph (Graph.pending)
  queue,     \* fillQueue
  filler,    \* the fill worker: [key, next], or Nil
  saver,     \* the holder of snapshotMu: [at, by, complete, data, fresh]
  file,      \* the checkpoint on disk, or Nil
  hasComplete,  \* completeSnapshot
  dirty,        \* snapshotRevision differs from snapshotSaved
  faults,
  spoiled    \* history: days a compaction evicted or sealed while they were in use

graphVars == <<graph, today, builder, flights, pending, queue, filler, saver, file, hasComplete,
               dirty, faults, spoiled>>

Journeys  == 1..NJourneys
GraphDays == 0..LastDay
Keys      == GraphDays \X Stops
Window(day) == {d \in GraphDays : day <= d + Behind /\ d <= day + Ahead}

\* What MongoDB holds: LoadStopJourneys.
Timetable(day, stop) == {j \in Journeys : day \in ServiceDays[j] /\ Calls[j][stop] # <<>>}

EmptyGraph ==
  [journeys |-> <<>>, onDay |-> {}, dayJourneys |-> {}, departures |-> [k \in Keys |-> <<>>],
   completeStops |-> {}, completeDays |-> {}, scanDays |-> {}, cursor |-> 0,
   topology |-> FALSE, patterns |-> Nil]

IdleSaver == [at |-> "idle", by |-> "ticker", complete |-> FALSE, data |-> Nil, fresh |-> FALSE]

Idle == [at |-> "wait", day |-> 0, cursor |-> 0, seen |-> 0]

GraphInit ==
  /\ graph = EmptyGraph /\ today = 0 /\ builder = Idle
  /\ flights = {} /\ pending = {} /\ queue = <<>> /\ filler = Nil
  /\ saver = IdleSaver
  /\ file = Nil /\ hasComplete = FALSE /\ dirty = FALSE
  /\ faults = MaxFaults /\ spoiled = {}

-----------------------------------------------------------------------------
(* Operations on graphData. *)

Ids(g) == DOMAIN g.journeys
IdOf(journeys, j) == CHOOSE id \in DOMAIN journeys : journeys[id] = j

\* addJourneyLocked: a known journey keeps its number; a journey that JourneyDays has for
\* a day is taken to be indexed.
AddJourney(g, days, j) ==
  LET journeys == IF \E id \in Ids(g) : g.journeys[id] = j THEN g.journeys ELSE Append(g.journeys, j)
      id       == IdOf(journeys, j)
      new      == {d \in days : <<d, id>> \notin g.onDay}
      entries(stop) == [n \in DOMAIN Calls[j][stop] |-> <<id, Calls[j][stop][n]>>]
  IN  [g EXCEPT !.journeys = journeys,
                !.onDay = @ \cup (new \X {id}), !.dayJourneys = @ \cup (new \X {id}),
                !.departures = [k \in Keys |-> IF k[1] \in new THEN @[k] \o entries(k[2]) ELSE @[k]]]

StopComplete(g, key) == key[1] \in g.completeDays \/ key \in g.completeStops

\* buildStaticRoutingIndexesLocked: patterns for the journeys there are now.
BuildRouting(g) ==
  [g EXCEPT !.patterns = IF g.topology /\ g.completeDays # {} THEN Len(g.journeys) ELSE Nil]

Earlier(a, b) == a[2] < b[2] \/ (a[2] = b[2] /\ a[1] < b[1])

\* compactRollingDaysLocked: evicts the days outside the window and renumbers the
\* journeys that are left, but not in JourneyDays.
Compact(g, keep) ==
  LET active == {id \in Ids(g) : \E d \in keep : <<d, id>> \in g.dayJourneys}
      new(id) == Cardinality({i \in active : i <= id})
      left(k) == IF k[1] \in keep THEN g.departures[k] ELSE <<>>
      moved(k) == [n \in DOMAIN left(k) |-> <<new(left(k)[n][1]), left(k)[n][2]>>]
  IN  IF g.dayJourneys = {} THEN g
      ELSE [g EXCEPT !.journeys = [n \in 1..Cardinality(active) |->
                        g.journeys[CHOOSE id \in active : new(id) = n]],
                     !.dayJourneys = {<<e[1], new(e[2])>> : e \in {e \in @ : e[1] \in keep}},
                     !.departures = [k \in Keys |-> moved(k)],
                     !.completeStops = {k \in @ : k[1] \in keep}]

\* sortDepartureBucketsLocked: each entry goes where the number of those up to it says.
UpTo(entries, n) ==
  {m \in DOMAIN entries : Earlier(entries[m], entries[n]) \/ (entries[m] = entries[n] /\ m <= n)}
SortBucket(entries) ==
  [n \in DOMAIN entries |-> entries[CHOOSE m \in DOMAIN entries : Cardinality(UpTo(entries, m)) = n]]
Sorted(g) == [g EXCEPT !.departures = [k \in Keys |-> SortBucket(@[k])]]

\* sealBuildIndexesLocked.
Seal(g) == [g EXCEPT !.onDay = {e \in @ : e[1] \notin g.completeDays}]

\* completeRollingScan: the scanned days are complete and the others evicted; then buckets,
\* patterns and build indexes are made of what is left.
Evicted(g, dates) ==
  Compact([g EXCEPT !.completeDays = dates, !.scanDays = {}, !.cursor = 0], dates)
CompleteScan(left) == Seal(BuildRouting(Sorted(left)))

\* sort.Search: how many entries are before "from", in a sorted sequence.
SearchStart(entries, from) ==
  CHOOSE n \in 0..Len(entries) :
    /\ n = 0 \/ entries[n][2] < from
    /\ n = Len(entries) \/ entries[n + 1][2] >= from

\* materializeStopWindow: the journeys that leave a stop from a time on.
Departing(g, key, from) ==
  LET entries == g.departures[key]
      start   == IF key[1] \in g.completeDays THEN SearchStart(entries, from) ELSE 0
  IN  {g.journeys[entries[n][1]] : n \in {n \in DOMAIN entries : n > start /\ entries[n][2] >= from}}

-----------------------------------------------------------------------------
(* Requests: journeysForStopWindow.  A complete or pending stop is answered at      *)
(* once; otherwise one request loads the stop for all that ask (singleflight).      *)

Ask(key) ==
  /\ ~StopComplete(graph, key) /\ key \notin pending /\ key \notin flights
  /\ flights' = flights \cup {key}
  /\ UNCHANGED <<graph, today, builder, pending, queue, filler, saver, file, hasComplete, dirty, faults, spoiled>>

\* LoadStopJourneys answered.  The queue of 4096 fills may be full with those of other
\* stops, and then the result is forgotten again.
Loaded(key) ==
  /\ key \in flights
  /\ flights' = flights \ {key}
  /\ \/ pending' = pending \cup {key} /\ queue' = Append(queue, key)
     \/ UNCHANGED <<pending, queue>>
  /\ UNCHANGED <<graph, today, builder, filler, saver, file, hasComplete, dirty, faults, spoiled>>

LoadFails(key) ==
  /\ key \in flights /\ faults > 0
  /\ flights' = flights \ {key} /\ faults' = faults - 1
  /\ UNCHANGED <<graph, today, builder, pending, queue, filler, saver, file, hasComplete, dirty, spoiled>>

-----------------------------------------------------------------------------
(* The fill worker: runPendingStopFills, applyPendingStopFill. *)

BugTakeFill ==
  /\ filler = Nil /\ queue # <<>>
  /\ IF StopComplete(graph, Head(queue)) THEN UNCHANGED filler ELSE filler' = [key |-> Head(queue), next |-> 1]
  /\ queue' = Tail(queue)
  /\ UNCHANGED <<graph, today, builder, flights, pending, saver, file, hasComplete, dirty, faults, spoiled>>

TakeFill ==
  /\ filler = Nil /\ queue # <<>>
  /\ LET key == Head(queue)
     IN  IF StopComplete(graph, key)
         THEN pending' = pending \ {key} /\ UNCHANGED filler
         ELSE filler' = [key |-> key, next |-> 1] /\ UNCHANGED pending
  /\ queue' = Tail(queue)
  /\ UNCHANGED <<graph, today, builder, flights, saver, file, hasComplete, dirty, faults, spoiled>>

\* The code gives the lock up after every 64 journeys, the model after each.
ToFill == {j \in Timetable(filler.key[1], filler.key[2]) : j >= filler.next}
AddFill ==
  /\ filler # Nil /\ ToFill # {}
  /\ graph' = AddJourney(graph, {filler.key[1]}, Min(ToFill))
  /\ filler' = [filler EXCEPT !.next = Min(ToFill) + 1]
  /\ UNCHANGED <<today, builder, flights, pending, queue, saver, file, hasComplete, dirty, faults, spoiled>>

BugMarkStop ==
  /\ filler # Nil
  /\ graph' = [graph EXCEPT !.completeStops = @ \cup {filler.key}]
  /\ dirty' = TRUE /\ saver' = [saver EXCEPT !.fresh = FALSE]
  /\ pending' = pending \ {filler.key} /\ filler' = Nil
  /\ UNCHANGED <<today, builder, flights, queue, file, hasComplete, faults, spoiled>>

\* markStopComplete, then the new revision and the end of the pending fill.
MarkStop ==
  /\ filler # Nil /\ ToFill = {}
  /\ graph' = [graph EXCEPT !.completeStops = @ \cup {filler.key}]
  /\ dirty' = TRUE /\ saver' = [saver EXCEPT !.fresh = FALSE]
  /\ pending' = pending \ {filler.key} /\ filler' = Nil
  /\ UNCHANGED <<today, builder, flights, queue, file, hasComplete, faults, spoiled>>

-----------------------------------------------------------------------------
(* The background scan: rebuildRolling. *)

Missing(g, day) == Window(day) \ g.completeDays

\* The revision changes first, before anything else does.
BeginRebuild ==
  /\ builder.at = "wait"
  /\ builder' = [Idle EXCEPT !.at = "progress", !.day = today]
  /\ dirty' = TRUE /\ saver' = [saver EXCEPT !.fresh = FALSE]
  /\ UNCHANGED <<graph, today, flights, pending, queue, filler, file, hasComplete, faults, spoiled>>

\* scanState and setScanProgress: a scan of the same days goes on at its cursor.
SetProgress ==
  /\ builder.at = "progress"
  /\ LET cursor == IF graph.scanDays = Window(builder.day) THEN graph.cursor ELSE 0
     IN  /\ graph' = [graph EXCEPT !.scanDays = Window(builder.day), !.cursor = cursor]
         /\ builder' = [builder EXCEPT !.at = IF graph.topology THEN "scan" ELSE "topology", !.cursor = cursor]
  /\ UNCHANGED <<today, flights, pending, queue, filler, saver, file, hasComplete, dirty, faults, spoiled>>

\* loadTopology, which waits for a checkpoint being written.
LoadTopology ==
  /\ builder.at = "topology" /\ saver.at # "write"
  /\ graph' = Seal(BuildRouting([graph EXCEPT !.topology = TRUE]))
  /\ builder' = [builder EXCEPT !.at = "scan"]
  /\ UNCHANGED <<today, flights, pending, queue, filler, saver, file, hasComplete, dirty, faults, spoiled>>

\* journeyServiceDateFilter: the journeys after the cursor that run on a missing day.
ToVisit == {j \in Journeys : j > builder.cursor /\ ServiceDays[j] \cap Missing(graph, builder.day) # {}}

\* ScanJourneys visits a journey: MatchDate and addJourney for each missing day.
Visit ==
  /\ builder.at = "scan" /\ ToVisit # {}
  /\ LET j    == Min(ToVisit)
         days == Missing(graph, builder.day) \cap ServiceDays[j]
         g    == AddJourney(graph, days, j)
         seen == builder.seen + 1
     IN  /\ graph' = IF seen % ScanBatch = 0 THEN [g EXCEPT !.cursor = j] ELSE g
         /\ builder' = [builder EXCEPT !.cursor = j, !.seen = seen]
  /\ UNCHANGED <<today, flights, pending, queue, filler, saver, file, hasComplete, dirty, faults, spoiled>>

\* The scan or the topology fails: progress is recorded and the builder saves and
\* retries.
BuildFails ==
  /\ builder.at \in {"topology", "scan"} /\ faults > 0
  /\ graph' = [graph EXCEPT !.cursor = builder.cursor]
  /\ builder' = [builder EXCEPT !.at = "save"]
  /\ faults' = faults - 1
  /\ UNCHANGED <<today, flights, pending, queue, filler, saver, file, hasComplete, dirty, spoiled>>

\* The days that a fill is adding to, and those whose entries stay in JourneyDays.
InUse(g) ==
  {d \in GraphDays \ g.completeDays : \E e \in g.onDay : e[1] = d}
    \cup (IF filler = Nil THEN {} ELSE {filler.key[1]})

EndScan ==
  /\ builder.at = "scan" /\ ToVisit = {}
  /\ graph' = [graph EXCEPT !.cursor = builder.cursor]
  /\ builder' = [builder EXCEPT !.at = "complete"]
  /\ UNCHANGED <<today, flights, pending, queue, filler, saver, file, hasComplete, dirty, faults, spoiled>>

\* completeRollingScan, which waits for a checkpoint being written.
CompleteRolling ==
  /\ builder.at = "complete" /\ saver.at # "write"
  /\ \E left \in {Evicted(graph, Window(builder.day))} : graph' = CompleteScan(left)
  /\ spoiled' = spoiled \cup InUse(graph')
  /\ builder' = [builder EXCEPT !.at = "save"]
  /\ UNCHANGED <<today, flights, pending, queue, filler, saver, file, hasComplete, dirty, faults>>

-----------------------------------------------------------------------------
(* Checkpoints: saveTracked, save, writeSnapshot; of the ticker and of the builder. *)

SnapshotComplete(g) == g.topology /\ g.patterns # Nil /\ g.completeDays # {} /\ g.scanDays = {}

\* An unchanged graph is not written again, nor an incomplete one over a complete one.
Unneeded == hasComplete /\ (SnapshotComplete(graph) => ~dirty)

\* The graph is asked whether it is complete, then the revision is read: one step.
StartSave(by) ==
  /\ saver.at = "idle" /\ ~Unneeded /\ (by = "builder" => builder.at = "save")
  /\ saver' = [at |-> "capture", by |-> by, complete |-> SnapshotComplete(graph), data |-> Nil, fresh |-> TRUE]
  /\ UNCHANGED <<graph, today, builder, flights, pending, queue, filler, file, hasComplete, dirty, faults, spoiled>>

BugSkip ==
  /\ saver.at = "idle" /\ Unneeded /\ builder.at = "save"
  /\ builder' = [builder EXCEPT !.at = "stopped"]
  /\ UNCHANGED <<graph, today, flights, pending, queue, filler, saver, file, hasComplete, dirty, faults, spoiled>>

Skip ==
  /\ saver.at = "idle" /\ Unneeded /\ builder.at = "save"
  /\ builder' = Idle
  /\ UNCHANGED <<graph, today, flights, pending, queue, filler, saver, file, hasComplete, dirty, faults, spoiled>>

\* The builder goes on when its save ends.
Saved == builder' = IF saver.by = "builder" THEN Idle ELSE builder

Capture ==
  /\ saver.at = "capture"
  /\ saver' = [saver EXCEPT !.at = "write", !.data = graph]
  /\ UNCHANGED <<graph, today, builder, flights, pending, queue, filler, file, hasComplete, dirty, faults, spoiled>>

\* The rename, and what is remembered of it.
Rename ==
  /\ saver.at = "write"
  /\ file' = saver.data
  /\ hasComplete' = (hasComplete \/ saver.complete)
  /\ dirty' = IF saver.complete THEN ~saver.fresh ELSE dirty
  /\ Saved /\ saver' = IdleSaver
  /\ UNCHANGED <<graph, today, flights, pending, queue, filler, faults, spoiled>>

SaveFails ==
  /\ saver.at = "write" /\ faults > 0
  /\ faults' = faults - 1
  /\ Saved /\ saver' = IdleSaver
  /\ UNCHANGED <<graph, today, flights, pending, queue, filler, file, hasComplete, dirty, spoiled>>

-----------------------------------------------------------------------------
NextDay ==
  /\ today < LastDay /\ today' = today + 1
  /\ UNCHANGED <<graph, builder, flights, pending, queue, filler, saver, file, hasComplete, dirty, faults, spoiled>>

\* restore: routing indexes are rebuilt when they do not fit the journeys, build
\* indexes dropped when the checkpoint is a complete one.
Restored(g) ==
  LET h == IF g.completeDays # {} /\ g.patterns # Len(g.journeys) THEN BuildRouting(g) ELSE g
  IN  IF h.scanDays # {} \/ h.completeDays = {} THEN h ELSE Seal(h)

Restart ==
  /\ faults > 0 /\ faults' = faults - 1
  /\ graph' = IF file = Nil THEN EmptyGraph ELSE Restored(file)
  /\ hasComplete' = SnapshotComplete(graph') /\ dirty' = FALSE
  /\ builder' = Idle /\ flights' = {} /\ pending' = {} /\ queue' = <<>> /\ filler' = Nil
  /\ saver' = IdleSaver
  /\ UNCHANGED <<today, file, spoiled>>

Fill  == TakeFill \/ AddFill \/ MarkStop
Build == BeginRebuild \/ SetProgress \/ LoadTopology \/ Visit \/ EndScan \/ CompleteRolling
Write == Skip \/ Capture \/ Rename

GraphNext ==
  \/ \E key \in Asked : Ask(key) \/ Loaded(key) \/ LoadFails(key)
  \/ TakeFill \/ AddFill \/ MarkStop
  \/ BeginRebuild \/ SetProgress \/ LoadTopology \/ Visit \/ BuildFails \/ EndScan \/ CompleteRolling
  \/ \E by \in {"ticker", "builder"} : StartSave(by)
  \/ Skip \/ Capture \/ Rename \/ SaveFails
  \/ NextDay \/ Restart

GraphSpec == GraphInit /\ [][GraphNext]_graphVars

-----------------------------------------------------------------------------
GraphData ==
  [journeys: Seq(Journeys), onDay: SUBSET (GraphDays \X Nat), dayJourneys: SUBSET (GraphDays \X Nat),
   departures: [Keys -> Seq(Nat \X Nat)], completeStops: SUBSET Keys, completeDays: SUBSET GraphDays,
   scanDays: SUBSET GraphDays, cursor: 0..NJourneys, topology: BOOLEAN, patterns: Nat \cup {Nil}]

GraphTypeOK ==
  /\ graph \in GraphData /\ file \in GraphData \cup {Nil} /\ today \in GraphDays
  /\ builder \in [at: {"wait", "progress", "topology", "scan", "complete", "save"}, day: GraphDays,
                  cursor: 0..NJourneys, seen: Nat]
  /\ flights \subseteq Keys /\ pending \subseteq Keys /\ queue \in Seq(Keys)
  /\ filler \in [key: Keys, next: 1..(NJourneys + 1)] \cup {Nil}
  /\ saver \in [at: {"idle", "capture", "write"}, by: {"ticker", "builder"}, complete: BOOLEAN,
                data: GraphData \cup {Nil}, fresh: BOOLEAN]
  /\ {hasComplete, dirty} \subseteq BOOLEAN /\ faults \in 0..MaxFaults /\ spoiled \subseteq GraphDays

Due(key, from) ==
  {j \in Journeys : key[1] \in ServiceDays[j] /\ \E n \in DOMAIN Calls[j][key[2]] : Calls[j][key[2]][n] >= from}

DepartureTimes == UNION {{Calls[j][stop][n] : n \in DOMAIN Calls[j][stop]} : j \in Journeys, stop \in Stops}

\* A stop or a day that counts as complete answers with every journey that leaves it
\* from the given time on, through partial fills, scans that are resumed, compaction
\* and restarts (graph.go:438-441, 1116-1212).  Left out are the days a compaction found
\* in use: JourneyDays keeps their entries under the old numbers (graph.go:795).
CompleteAnswers ==
  \A key \in Keys, from \in DepartureTimes :
    StopComplete(graph, key) /\ key[1] \notin spoiled => Departing(graph, key, from) = Due(key, from)

\* The recorded cursor never runs ahead of the journeys that are in the graph, and a
\* checkpoint has both or neither: a scan that is resumed after a restart misses
\* nothing (graph.go:596-627, snapshot.go:163-203).
Scanned(g) ==
  \A d \in (g.scanDays \ g.completeDays) \ spoiled, j \in 1..g.cursor :
    d \in ServiceDays[j] => \E id \in Ids(g) : g.journeys[id] = j /\ <<d, id>> \in g.dayJourneys

ResumeLosesNothing == Scanned(graph) /\ (file = Nil \/ Scanned(file))

\* A stop or day that counts as complete answers with every departure, through partial fills,
\* compaction and resumed scans, and a restart loses none of them (graph.go:438-441, 596-627,
\* 1116-1212, snapshot.go:163-203).
GraphAnswersFully == GraphTypeOK /\ CompleteAnswers /\ ResumeLosesNothing
=============================================================================
