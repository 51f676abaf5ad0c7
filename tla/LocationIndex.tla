---------------------------- MODULE LocationIndex ----------------------------
(***************************************************************************)
(* The positions of vehicles in Redis: a key per journey that expires, and a  *)
(* geo index of all journeys that does not.  The tracker writes the position   *)
(* of a bus with two commands, the rail consumers (TRUST and TD) with a        *)
(* transaction under WATCH; the cleaner and the map drop index members that    *)
(* have gone stale.  Every location is a point: a bus that reports another     *)
(* shape only leaves the index (writer.go:283-286).                           *)
(***************************************************************************)
EXTENDS Naturals, FiniteSets, FiniteSetsExt

CONSTANTS
  Buses, Trains,
  Trackers, Observers,  \* processes that write positions
  MaxBusTime,           \* the observations of a bus have the times 1..MaxBusTime
  MaxTrainTime,
  MaxAttempts,          \* 5 in the code
  None

TrackerState == Buses \X Nat \X {"index", "details"}
ObserverState(times) ==
  [journey : Trains, time : times, read : times \cup {None}, attempt : 1..MaxAttempts]

ASSUME LocationAssumption ==
  /\ Buses \cap Trains = {}
  /\ MaxBusTime \in Nat /\ MaxTrainTime \in Nat /\ MaxAttempts \in Nat \ {0}
  /\ None \notin Nat \cup ((Buses \cup Trains) \X Nat \X {"index", "details"}) \cup ObserverState(Nat)

VARIABLES
  location,   \* realtime-journey:location: time of the observation, or None
  index,      \* realtime-journey:location:index: time of the indexed point, or None
  details,    \* journeys with a snapshot (realtime-journey:details)
  due,        \* observations still to come: <<journey, time>>
  tracker,    \* of each tracker: <<journey, time, next command>>, or None
  observer,   \* of each observer: [journey, time, read, attempt], or None
  cleaner,    \* index members the cleaner has scanned
  map,        \* index members the map has found stale
  handled,    \* history: rail observations that were stored or found old
  lost,       \* history: a rail observation was given up, or a key expired
  dropped     \* history: removed from the index by the map, not written since

vars == <<location, index, details, due, tracker, observer, cleaner, map, handled, lost, dropped>>

Vehicles == Buses \cup Trains
Times    == 1..MaxBusTime \cup 1..MaxTrainTime
Feed     == (Buses \X (1..MaxBusTime)) \cup (Trains \X (1..MaxTrainTime))

Init ==
  /\ location = [v \in Vehicles |-> None] /\ index = [v \in Vehicles |-> None]
  /\ details = Trains
  /\ due = Feed
  /\ tracker = [w \in Trackers |-> None]
  /\ observer = [o \in Observers |-> None]
  /\ cleaner = {} /\ map = {} /\ handled = {} /\ lost = {} /\ dropped = {}

-----------------------------------------------------------------------------
(* The tracker: updateLocation, then the snapshot of the journey. *)

SetLocation(w) ==
  \E v \in Buses, t \in Times :
    /\ tracker[w] = None /\ <<v, t>> \in due
    /\ due' = due \ {<<v, t>>}
    /\ location' = [location EXCEPT ![v] = t]
    /\ tracker' = [tracker EXCEPT ![w] = <<v, t, "index">>]
    /\ UNCHANGED <<index, details, observer, cleaner, map, handled, lost, dropped>>

AddToIndex(w) ==
  /\ tracker[w] # None /\ tracker[w][3] = "index"
  /\ index' = [index EXCEPT ![tracker[w][1]] = tracker[w][2]]
  /\ dropped' = dropped \ {tracker[w][1]}
  /\ tracker' = [tracker EXCEPT ![w][3] = "details"]
  /\ UNCHANGED <<location, details, due, observer, cleaner, map, handled, lost>>

\* SaveRealtimeJourney, unless the update was of the location alone.
SetDetails(w) ==
  /\ tracker[w] # None /\ tracker[w][3] = "details"
  /\ \/ details' = details \cup {tracker[w][1]}
     \/ UNCHANGED details
  /\ tracker' = [tracker EXCEPT ![w] = None]
  /\ UNCHANGED <<location, index, due, observer, cleaner, map, handled, lost, dropped>>

-----------------------------------------------------------------------------
(* RecordRailObservation. *)

\* WATCH and GET; an observation that is not newer is left out.
WatchLocation(o, v, t, attempt) ==
  IF location[v] # None /\ t <= location[v]
  THEN observer' = [observer EXCEPT ![o] = None] /\ handled' = handled \cup {<<v, t>>}
  ELSE /\ observer' = [observer EXCEPT ![o] =
            [journey |-> v, time |-> t, read |-> location[v], attempt |-> attempt]]
       /\ UNCHANGED handled

Observe(o) ==
  \E v \in Trains, t \in Times :
    /\ observer[o] = None /\ <<v, t>> \in due
    /\ due' = due \ {<<v, t>>}
    /\ WatchLocation(o, v, t, 1)
    /\ UNCHANGED <<location, index, details, tracker, cleaner, map, lost, dropped>>

BugStore(o) ==
  LET seen == observer[o]
  IN  /\ location' = [location EXCEPT ![seen.journey] = seen.time]
      /\ index' = [index EXCEPT ![seen.journey] = IF @ = None THEN seen.time ELSE @]
      /\ observer' = [observer EXCEPT ![o] = None]
      /\ handled' = handled \cup {<<seen.journey, seen.time>>}
      /\ dropped' = dropped \ {seen.journey}

Store(o) ==
  LET seen == observer[o]
  IN  /\ location' = [location EXCEPT ![seen.journey] = seen.time]
      /\ index' = [index EXCEPT ![seen.journey] = seen.time]
      /\ observer' = [observer EXCEPT ![o] = None]
      /\ handled' = handled \cup {<<seen.journey, seen.time>>}
      /\ dropped' = dropped \ {seen.journey}

\* EXEC; it fails when the key has changed since WATCH.
Exec(o) ==
  /\ observer[o] # None /\ location[observer[o].journey] = observer[o].read
  /\ Store(o)
  /\ UNCHANGED <<details, due, tracker, cleaner, map, lost>>

ExecFails(o) == observer[o] # None /\ location[observer[o].journey] # observer[o].read

Retry(o) ==
  /\ ExecFails(o) /\ observer[o].attempt < MaxAttempts
  /\ WatchLocation(o, observer[o].journey, observer[o].time, observer[o].attempt + 1)
  /\ UNCHANGED <<location, index, details, due, tracker, cleaner, map, lost, dropped>>

GiveUp(o) ==
  /\ ExecFails(o) /\ observer[o].attempt = MaxAttempts
  /\ observer' = [observer EXCEPT ![o] = None]
  /\ lost' = lost \cup {observer[o].journey}
  /\ UNCHANGED <<location, index, details, due, tracker, cleaner, map, handled, dropped>>

-----------------------------------------------------------------------------
(* What removes. *)

Expire(v) ==
  /\ \/ /\ location[v] # None
        /\ location' = [location EXCEPT ![v] = None]
        /\ lost' = lost \cup {v} /\ UNCHANGED details
     \/ /\ v \in details /\ details' = details \ {v} /\ UNCHANGED <<location, lost>>
  /\ UNCHANGED <<index, due, tracker, observer, cleaner, map, handled, dropped>>

Indexed == {v \in Vehicles : index[v] # None}

\* CleanupStaleLocationIndex: a ZSCAN, then the script over its page.
Scan ==
  /\ cleaner = {} /\ Indexed # {}
  /\ cleaner' = Indexed
  /\ UNCHANGED <<location, index, details, due, tracker, observer, map, handled, lost, dropped>>

RemoveStale ==
  /\ cleaner # {}
  /\ index' = [v \in Vehicles |-> IF v \in cleaner /\ location[v] = None THEN None ELSE index[v]]
  /\ cleaner' = {}
  /\ UNCHANGED <<location, details, due, tracker, observer, map, handled, lost, dropped>>

\* findActiveWithinBoundsForIDs: members without a snapshot are stale to it, and
\* are removed by a later command.
ReadMap ==
  /\ map = {}
  /\ map' = Indexed \ details
  /\ UNCHANGED <<location, index, details, due, tracker, observer, cleaner, handled, lost, dropped>>

DropStale ==
  /\ map # {}
  /\ index' = [v \in Vehicles |-> IF v \in map THEN None ELSE index[v]]
  /\ dropped' = dropped \cup map
  /\ map' = {}
  /\ UNCHANGED <<location, details, due, tracker, observer, cleaner, handled, lost>>

Next ==
  \/ \E w \in Trackers : SetLocation(w) \/ AddToIndex(w) \/ SetDetails(w)
  \/ \E o \in Observers : Observe(o) \/ Exec(o) \/ Retry(o) \/ GiveUp(o)
  \/ \E v \in Vehicles : Expire(v)
  \/ Scan \/ RemoveStale \/ ReadMap \/ DropStale

Spec == Init /\ [][Next]_vars

-----------------------------------------------------------------------------
TimeOrNone == Times \cup {None}

TypeOK ==
  /\ location \in [Vehicles -> TimeOrNone] /\ index \in [Vehicles -> TimeOrNone]
  /\ details \subseteq Vehicles /\ due \subseteq Feed
  /\ tracker \in [Trackers -> TrackerState \cup {None}]
  /\ observer \in [Observers -> ObserverState(Times) \cup {None}]
  /\ cleaner \subseteq Vehicles /\ map \subseteq Vehicles
  /\ handled \subseteq Trains \X Times /\ lost \subseteq Vehicles /\ dropped \subseteq Vehicles

\* A position that has not expired can be found in the index once its tracker has
\* sent both commands, whatever the cleaner scanned before it was written
\* (cleanup.go:23-26, writer.go:272-296).  The map may have dropped it since, for what
\* it read before the snapshot was there.
LiveIsIndexed ==
  \A v \in Vehicles :
    location[v] # None /\ v \notin dropped
      /\ (\A w \in Trackers : tracker[w] # <<v, location[v], "index">>)
      => index[v] # None

\* RecordRailObservation "updates the last mapped position and map index together"
\* (railposition.go:17): the index never shows a train where its key does not.
IndexAgrees == \A v \in Trains : location[v] # None => index[v] \in {None, location[v]}

\* The newest of the observations that were dealt with without an error is the
\* one that is stored (railposition.go:30-60).
NewestWins ==
  \A v \in Trains \ lost :
    LET times == {t \in Times : <<v, t>> \in handled}
    IN  times # {} => location[v] # None /\ location[v] >= Max(times)

\* A vehicle that has a position is found by the map, where the position says, and the newest
\* observation wins, through conflicting writes, expiring keys and the cleaner (writer.go:272-296,
\* railposition.go:17-60, cleanup.go:23-26).
PositionsFound == TypeOK /\ LiveIsIndexed /\ IndexAgrees /\ NewestWins
=============================================================================
