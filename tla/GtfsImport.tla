------------------------------ MODULE GtfsImport ------------------------------
(***************************************************************************)
(* The import of a GTFS feed.  Routes and trips are read; the rows of stop_times, in   *)
(* any order, are sorted in chunks and merged into trips; each trip becomes journeys     *)
(* with the geometry of its legs cut from its shape, once per pattern of stops.  Writes   *)
(* go through batching queues whose end the importer infers from their silence.            *)
(***************************************************************************)
EXTENDS Integers, Sequences, FiniteSets, SequencesExt, FiniteSetsExt, Functions

CONSTANTS
  Feeds,        \* the feeds considered, see Init
  ChunkSize,    \* rows sorted in memory at once
  MaxPatterns,  \* patterns remembered
  BatchSize,    \* writes per batch, and in a queue's channel
  EmptyTimeout, \* a queue is over when no batch started for longer than this
  WriteTime,    \* longest bulk write
  Pace,         \* longest the importer takes without a batch being started
  Invalid, None

GtfsAssumption ==
  /\ {ChunkSize, MaxPatterns, BatchSize, EmptyTimeout, WriteTime, Pace} \subseteq Nat \ {0}
  /\ WriteTime <= EmptyTimeout /\ Pace < EmptyTimeout

Queues == {"journeys", "journey_tracks"}

VARIABLES
  feed,     \* [routes, trips, rows, shapes, calendars, frequencies, ignored]
  stage,    \* of the importer
  trips,    \* gtfsTrips: trips still without journeys
  uses,     \* shapeTripUseCounts
  shapes,   \* shapeTracks: the shapes still in memory
  chunks,   \* the sorted chunk files, what is left to read of each
  group,    \* rows of the trip being merged
  patterns, \* boundedPathPatternCache: order of the keys, next to evict, whether each was split
  queue,    \* what waits in each queue's channel
  writing,  \* the batch being written, or what was drained so far
  idle,     \* time since the last batch was started, up to just past EmptyTimeout
  due,      \* the worker's ticker fired
  busy,     \* how long the bulk write has taken, -1 outside one
  stored    \* the database

importer == <<trips, uses, shapes, chunks, group, patterns>>
worker == <<writing, idle, due, busy, stored>>
vars == <<feed, stage, importer, queue, worker>>

Init ==
  /\ feed \in Feeds
  /\ stage = "tables"
  /\ trips = <<>> /\ uses = <<>> /\ chunks = <<>> /\ group = <<>>
  /\ shapes = DOMAIN feed.shapes
  /\ patterns = [order |-> <<>>, next |-> 1, split |-> <<>>]
  /\ queue = [q \in Queues |-> <<>>] /\ writing = [q \in Queues |-> <<>>]
  /\ idle = [q \in Queues |-> 0] /\ due = [q \in Queues |-> FALSE] /\ busy = [q \in Queues |-> -1]
  /\ stored = {}

-----------------------------------------------------------------------------
(* The tables before stop_times. *)

With(f, key, value) == [k \in DOMAIN f \cup {key} |-> IF k = key THEN value ELSE f[k]]
Count(f, key) == IF key \in DOMAIN f THEN f[key] ELSE 0

\* Of rows with the same key the last one counts.
ByKey(rows) == FoldLeft(LAMBDA f, row : With(f, row.id, row), <<>>, rows)

Operator(route) == ByKey(feed.routes)[route].operator
Known(trip) ==
  \E row \in ToSet(feed.routes) : row.id = trip.route /\ row.operator \notin feed.ignored

\* Every shape is a track; trips without a service, or of an operator that is ignored, are not kept.
ReadTables ==
  /\ stage = "tables"
  /\ LET kept == SelectSeq(feed.trips, Known)
     IN /\ trips' = ByKey(kept)
        /\ uses' = FoldLeft(LAMBDA f, t : IF t.shape = None THEN f ELSE With(f, t.shape, Count(f, t.shape) + 1),
                            <<>>, kept)
  /\ queue' = [queue EXCEPT !["journey_tracks"] =
       SetToSeq({[track |-> <<"shape", s>>, points |-> feed.shapes[s]] : s \in DOMAIN feed.shapes})]
  /\ stage' = "sort"
  /\ UNCHANGED <<feed, shapes, chunks, group, patterns, worker>>

-----------------------------------------------------------------------------
(* stop_times: an external sort. *)

Before(a, b) == a.trip < b.trip \/ (a.trip = b.trip /\ a.seq < b.seq)

Chunk(rows, c) == SubSeq(rows, (c - 1) * ChunkSize + 1, IF c * ChunkSize < Len(rows) THEN c * ChunkSize ELSE Len(rows))
SortedChunks(rows) ==
  [c \in 1..((Len(rows) + ChunkSize - 1) \div ChunkSize) |-> SortSeq(Chunk(rows, c), Before)]

WriteChunks ==
  /\ stage = "sort"
  /\ chunks' = SortedChunks(feed.rows)
  /\ stage' = "merge"
  /\ UNCHANGED <<feed, trips, uses, shapes, group, patterns, queue, worker>>

\* The reader on top of the heap: the smallest row, of equal ones that of the earlier chunk.
Less(c, d) ==
  \/ Before(Head(chunks[c]), Head(chunks[d]))
  \/ (~Before(Head(chunks[d]), Head(chunks[c])) /\ c < d)
Top == CHOOSE c \in DOMAIN chunks :
         chunks[c] # <<>> /\ \A d \in DOMAIN chunks \ {c} : chunks[d] # <<>> => Less(c, d)
Exhausted == \A c \in DOMAIN chunks : chunks[c] = <<>>

SameTrip == group # <<>> => ~Exhausted /\ Head(chunks[Top]).trip = group[1].trip

NextRow ==
  /\ stage = "merge" /\ ~Exhausted /\ SameTrip
  /\ group' = Append(group, Head(chunks[Top]))
  /\ chunks' = [chunks EXCEPT ![Top] = Tail(@)]
  /\ UNCHANGED <<feed, stage, trips, uses, shapes, patterns, queue, worker>>

-----------------------------------------------------------------------------
(* A trip. *)

\* buildJourney's availability, as the days it matches: added dates too must lie in the range.
RunsOn(service) ==
  LET c == feed.calendars[service]
  IN {d \in c.range : (d \in c.week \/ d \in c.added) /\ d \notin c.removed}

\* InterpolateMissingJourneyTimes: a missing time lies evenly between its neighbours with one.
Times(calls) ==
  LET known == {i \in DOMAIN calls : calls[i].time # None}
      Between(i) ==
        LET p == CHOOSE k \in known : k < i /\ \A x \in known : x < i => x <= k
            n == CHOOSE k \in known : k > i /\ \A x \in known : x > i => x >= k
        IN calls[p].time + ((calls[n].time - calls[p].time) \div (n - p)) * (i - p)
  IN [i \in DOMAIN calls |-> IF i \in known THEN calls[i].time ELSE Between(i)]

\* What a trip is rejected for: a time that does not parse, no path, an endpoint without a time, time that runs back.
Resolvable(calls) ==
  /\ Len(calls) > 1
  /\ \A i \in DOMAIN calls : calls[i].time # Invalid
  /\ calls[1].time # None /\ calls[Len(calls)].time # None
  /\ \A i, k \in DOMAIN calls :
       i < k /\ calls[i].time # None /\ calls[k].time # None => calls[i].time <= calls[k].time

\* assignJourneyPathTracks: every stop lies on the shape, further along than the one before.
Position(shape, stop) == SelectInSeq(feed.shapes[shape], LAMBDA s : s = stop)
Splits(shape, calls) ==
  \A i \in DOMAIN calls :
    /\ Position(shape, calls[i].stop) > 0
    /\ i > 1 => Position(shape, calls[i].stop) > Position(shape, calls[i - 1].stop)

\* journeyPathPatternHash, and what Reference and Identifier make of it
Pattern(shape, calls) == <<shape, [i \in DOMAIN calls |-> calls[i].stop]>>
Leg(pattern, i) == <<"shape-leg", pattern, i>>
Slice(shape, calls, i) ==
  SubSeq(feed.shapes[shape], Position(shape, calls[i].stop), Position(shape, calls[i + 1].stop))

\* boundedPathPatternCache.Put
Remembered(key, split) ==
  IF Len(patterns.order) < MaxPatterns
  THEN [patterns EXCEPT !.order = Append(@, key), !.split = With(@, key, split)]
  ELSE LET old == patterns.order[patterns.next]
       IN [order |-> [patterns.order EXCEPT ![patterns.next] = key],
           next |-> (patterns.next % MaxPatterns) + 1,
           split |-> With([k \in DOMAIN patterns.split \ {old} |-> patterns.split[k]], key, split)]

\* expandJourneyForFrequencies: windows by start, those that overlap an earlier one dropped.
Windows(id) ==
  LET sorted == SortSeq(feed.frequencies[id], LAMBDA v, w : v.start < w.start)
  IN FoldLeft(LAMBDA kept, w : IF kept # <<>> /\ w.start < Last(kept).end THEN kept ELSE Append(kept, w), <<>>, sorted)
Starts(id) ==
  UNION {{s \in w.start..(w.end - 1) : (s - w.start) % w.headway = 0} : w \in ToSet(Windows(id))}

\* The journeys of a trip: [id, start, service, days, calls, track, legs]
Shifted(journey, s) ==
  LET offset == s - journey.calls[1].time
  IN [journey EXCEPT !.start = s, !.calls = [i \in DOMAIN @ |-> [@[i] EXCEPT !.time = @ + offset]]]
Expanded(journey) ==
  IF journey.id \in DOMAIN feed.frequencies THEN {Shifted(journey, s) : s \in Starts(journey.id)} ELSE {journey}
JourneyOf(trip, calls, track, legs) ==
  LET times == Times(calls)
  IN [id |-> trip.id, start |-> None, operator |-> Operator(trip.route), days |-> RunsOn(trip.service),
      calls |-> [i \in DOMAIN calls |-> [stop |-> calls[i].stop, time |-> times[i]]], track |-> track, legs |-> legs]

\* After the trip: its shape goes with the last trip that uses it.
Release(trip) ==
  /\ trips' = [t \in DOMAIN trips \ {trip.id} |-> trips[t]]
  /\ IF trip.shape = None THEN UNCHANGED <<uses, shapes>>
     ELSE /\ uses' = IF uses[trip.shape] = 1 THEN [s \in DOMAIN uses \ {trip.shape} |-> uses[s]]
                     ELSE [uses EXCEPT ![trip.shape] = @ - 1]
          /\ shapes' = IF uses[trip.shape] = 1 THEN shapes \ {trip.shape} ELSE shapes

\* Writes waiting to enter a channel keep the importer waiting; here they enter together when there is room.
Room(q) == Len(queue[q]) < BatchSize
Enqueue(tracks, journeys) ==
  queue' = [q \in Queues |-> queue[q] \o SetToSeq(IF q = "journeys" THEN journeys ELSE tracks)]

GroupComplete == stage = "merge" /\ group # <<>> /\ ~SameTrip

\* A trip that is not known or is rejected leaves nothing, and keeps its shape in memory.
SkipTrip ==
  /\ GroupComplete
  /\ group[1].trip \notin DOMAIN trips \/ ~Resolvable(group)
  /\ group' = <<>>
  /\ UNCHANGED <<feed, stage, trips, uses, shapes, chunks, patterns, queue, worker>>

ImportTrip ==
  /\ GroupComplete /\ group[1].trip \in DOMAIN trips /\ Resolvable(group)
  /\ \A q \in Queues : Room(q)
  /\ LET trip == trips[group[1].trip]
         pattern == Pattern(trip.shape, group)
         cached == pattern \in DOMAIN patterns.split
         inMemory == trip.shape \in shapes
         split == IF cached THEN patterns.split[pattern] ELSE inMemory /\ Splits(trip.shape, group)
         legs == IF split THEN [i \in 1..(Len(group) - 1) |-> Leg(pattern, i)] ELSE <<>>
         tracks == IF split /\ ~cached
                   THEN {[track |-> Leg(pattern, i), points |-> Slice(trip.shape, group, i)] : i \in DOMAIN legs}
                   ELSE {}
         track == IF split \/ ~inMemory THEN None ELSE <<"shape", trip.shape>>
     IN /\ patterns' = IF cached \/ ~inMemory THEN patterns ELSE Remembered(pattern, split)
        /\ Enqueue(tracks, Expanded(JourneyOf(trip, group, track, legs)))
        /\ Release(trip)
  /\ group' = <<>>
  /\ UNCHANGED <<feed, stage, chunks, worker>>

Merged ==
  /\ stage = "merge" /\ Exhausted /\ group = <<>>
  /\ stage' = "journeys"
  /\ UNCHANGED <<feed, importer, queue, worker>>

-----------------------------------------------------------------------------
(* The batching queues. *)

Open(q) == IF q = "journeys" THEN stage \in {"merge", "journeys"} ELSE stage # "done"

\* A second passes; workers whose ticker fired before have started what they had to.
Tick ==
  /\ stage \in {"merge", "journeys", "journey_tracks"}
  /\ stage = "merge" => idle["journeys"] < Pace
  /\ \A q \in Queues : IF busy[q] >= 0 THEN busy[q] < WriteTime ELSE ~due[q]
  /\ idle' = [q \in Queues |-> IF idle[q] > EmptyTimeout THEN idle[q] ELSE idle[q] + 1]
  /\ due' = [q \in Queues |-> due[q] \/ Open(q)]
  /\ busy' = [q \in Queues |-> IF busy[q] >= 0 THEN busy[q] + 1 ELSE -1]
  /\ UNCHANGED <<feed, stage, importer, queue, writing, stored>>

BugFlush(q) ==
  /\ due[q] /\ busy[q] = -1 /\ queue[q] # <<>>
  /\ writing' = [writing EXCEPT ![q] = queue[q]]
  /\ queue' = [queue EXCEPT ![q] = <<>>]
  /\ busy' = [busy EXCEPT ![q] = 0]
  /\ UNCHANGED <<feed, stage, importer, idle, due, stored>>

\* The worker takes what is there, up to a batch, and starts to write it.
Flush(q) ==
  /\ due[q] /\ busy[q] = -1 /\ queue[q] # <<>>
  /\ LET taken == IF Len(queue[q]) < BatchSize THEN Len(queue[q]) ELSE BatchSize
     IN /\ writing' = [writing EXCEPT ![q] = SubSeq(queue[q], 1, taken)]
        /\ queue' = [queue EXCEPT ![q] = SubSeq(@, taken + 1, Len(@))]
  /\ idle' = [idle EXCEPT ![q] = 0]
  /\ busy' = [busy EXCEPT ![q] = 0]
  /\ UNCHANGED <<feed, stage, importer, due, stored>>
Written(q) ==
  /\ busy[q] >= 0
  /\ stored' = stored \cup ToSet(writing[q])
  /\ writing' = [writing EXCEPT ![q] = <<>>]
  /\ busy' = [busy EXCEPT ![q] = -1]
  /\ UNCHANGED <<feed, stage, importer, queue, idle, due>>

Sleep(q) ==
  /\ due[q] /\ busy[q] = -1 /\ queue[q] = <<>>
  /\ due' = [due EXCEPT ![q] = FALSE]
  /\ UNCHANGED <<feed, stage, importer, queue, writing, idle, busy, stored>>

\* Wait: the journeys' queue first, then that of the tracks.
Wait(q) ==
  /\ stage = q /\ idle[q] > EmptyTimeout
  /\ stage' = IF q = "journeys" THEN "journey_tracks" ELSE "done"
  /\ UNCHANGED <<feed, importer, queue, worker>>

Next ==
  \/ ReadTables \/ WriteChunks \/ NextRow \/ SkipTrip \/ ImportTrip \/ Merged \/ Tick
  \/ \E q \in Queues : Flush(q) \/ Written(q) \/ Sleep(q) \/ Wait(q)

Spec == Init /\ [][Next]_vars

-----------------------------------------------------------------------------
(* What the import is to leave in the database, said of the feed alone. *)

RowsOf(id) == {row \in ToSet(feed.rows) : row.trip = id}
CallsOf(id) == SetToSortSeq(RowsOf(id), LAMBDA a, b : a.seq < b.seq)
TripOf(id) == ByKey(SelectSeq(feed.trips, Known))[id]
Published == {row.id : row \in {t \in ToSet(feed.trips) : Known(t)}}
Importable == {id \in Published : Resolvable(CallsOf(id))}

HasShape(id) == TripOf(id).shape \in DOMAIN feed.shapes
LegsOf(id) == IF HasShape(id) /\ Splits(TripOf(id).shape, CallsOf(id))
              THEN [i \in 1..(Len(CallsOf(id)) - 1) |-> Slice(TripOf(id).shape, CallsOf(id), i)] ELSE <<>>

\* An import that returned has written, for each trip that can be resolved, each of its runs with its calls
\* in order and on the days of its calendar, and every leg has the geometry of the trip's own shape - though rows
\* come in any order, patterns are forgotten, shapes are released, and the importer never hears of a write's end.
ImportedAsPublished ==
  stage = "done" =>
    LET journeys == {r \in stored : "calls" \in DOMAIN r}
        tracks == stored \ journeys
        PointsOf(leg) == {r.points : r \in {t \in tracks : t.track = leg}}
    IN /\ {[j EXCEPT !.legs = <<>>, !.track = None] : j \in journeys} =
          UNION {Expanded(JourneyOf(TripOf(id), CallsOf(id), None, <<>>)) : id \in Importable}
       /\ \A j \in journeys :
            /\ Len(j.legs) = Len(LegsOf(j.id))
            /\ \A i \in DOMAIN j.legs : PointsOf(j.legs[i]) = {LegsOf(j.id)[i]}
            /\ IF HasShape(j.id) /\ j.legs = <<>> THEN PointsOf(j.track) = {feed.shapes[TripOf(j.id).shape]}
               ELSE j.track = None
=============================================================================
