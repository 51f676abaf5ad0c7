------------------------------ MODULE BoardsProofs ------------------------------
(***************************************************************************)
(* Proofs about what passengers are shown.  LocationIndex: the position of every *)
(* vehicle and its entry in the geo index stay in step, for any number of        *)
(* vehicles, trackers, consumers and observations.  DepartureGraph: what counts   *)
(* as complete is whole, for any timetable, window of days and number of faults.  *)
(***************************************************************************)
EXTENDS LocationIndex, DepartureGraph, FiniteSetTheorems, WellFoundedInduction, TLAPS

-----------------------------------------------------------------------------
(* LocationIndex: the invariant. *)

\* What a consumer has watched is older than what it is about to store.
ReadIsOlder(o) ==
  observer[o] # None => observer[o].read = None \/ observer[o].read < observer[o].time

\* A tracker writes what the feed says of a bus.
InFeed(w) == tracker[w] # None => tracker[w][2] \in Times

\* The position of a train is one of the observations that were dealt with, and none of them
\* is newer.
StoredIsNewest(v) ==
  /\ location[v] # None => <<v, location[v]>> \in handled
  /\ \A t \in Times : <<v, t>> \in handled => location[v] # None /\ t <= location[v]

PositionInv ==
  /\ TypeOK /\ LiveIsIndexed /\ IndexAgrees
  /\ \A w \in Trackers : InFeed(w)
  /\ \A o \in Observers : ReadIsOlder(o)
  /\ \A v \in Trains \ lost : StoredIsNewest(v)

\* What a tracker and a consumer have in hand.
LEMMA InHand ==
  ASSUME TypeOK
  PROVE  /\ Times \subseteq Nat /\ None \notin Times
         /\ \A v \in Vehicles : location[v] # None => location[v] \in Times
         /\ \A w \in Trackers : tracker[w] # None =>
              /\ tracker[w] = <<tracker[w][1], tracker[w][2], tracker[w][3]>>
              /\ tracker[w][1] \in Buses /\ tracker[w][1] \in Vehicles /\ tracker[w][1] \notin Trains
              /\ tracker[w][3] \in {"index", "details"}
         /\ \A o \in Observers : observer[o] # None =>
              /\ observer[o].journey \in Trains /\ observer[o].journey \in Vehicles
              /\ observer[o].journey \notin Buses /\ observer[o].time \in Times
              /\ observer[o].read \in Times \cup {None} /\ observer[o].attempt \in 1..MaxAttempts
<1>1. Times \subseteq Nat /\ None \notin Times
  BY LocationAssumption DEF Times
<1>2. \A v \in Vehicles : location[v] # None => location[v] \in Times
  BY DEF TypeOK, TimeOrNone
<1>3. ASSUME NEW w \in Trackers, tracker[w] # None
      PROVE  /\ tracker[w] = <<tracker[w][1], tracker[w][2], tracker[w][3]>>
             /\ tracker[w][1] \in Buses /\ tracker[w][1] \in Vehicles /\ tracker[w][1] \notin Trains
             /\ tracker[w][3] \in {"index", "details"}
  <2>1. tracker[w] \in TrackerState
    BY <1>3 DEF TypeOK
  <2>. QED  BY <2>1, LocationAssumption DEF TrackerState, Vehicles
<1>4. ASSUME NEW o \in Observers, observer[o] # None
      PROVE  /\ observer[o].journey \in Trains /\ observer[o].journey \in Vehicles
             /\ observer[o].journey \notin Buses /\ observer[o].time \in Times
             /\ observer[o].read \in Times \cup {None} /\ observer[o].attempt \in 1..MaxAttempts
  <2>1. observer[o] \in ObserverState(Times)
    BY <1>4 DEF TypeOK
  <2>. QED  BY <2>1, LocationAssumption DEF ObserverState, Vehicles
<1>. QED  BY <1>1, <1>2, <1>3, <1>4

\* The newest of the observations is told apart without going through them.
LEMMA NewestIsStored ==
  ASSUME TypeOK, NEW v \in Trains, StoredIsNewest(v), NEW u \in Times, <<v, u>> \in handled
  PROVE  location[v] # None /\ location[v] >= Max({t \in Times : <<v, t>> \in handled})
<1>. DEFINE times == {t \in Times : <<v, t>> \in handled}
<1>1. location[v] # None /\ location[v] \in times /\ \A t \in times : t <= location[v]
  <2>1. location[v] # None /\ <<v, location[v]>> \in handled /\ v \in Vehicles
    BY DEF StoredIsNewest, Vehicles
  <2>2. location[v] \in Times
    BY <2>1, InHand
  <2>. QED  BY <2>1, <2>2 DEF StoredIsNewest
<1>2. times \subseteq Nat
  BY InHand
<1>3. Max(times) \in times
  <2>1. \E x \in times : \A y \in times : x >= y
    BY <1>1, <1>2
  <2>. QED  BY <2>1 DEF Max
<1>. QED  BY <1>1, <1>2, <1>3

-----------------------------------------------------------------------------
(* Trackers: two commands for a bus, and its snapshot. *)

LEMMA TrackerSteps ==
  ASSUME PositionInv, NEW w \in Trackers, SetLocation(w) \/ AddToIndex(w) \/ SetDetails(w)
  PROVE  PositionInv'
<1>. USE DEF PositionInv
<1>1. CASE SetLocation(w)
  <2>1. PICK v \in Buses, t \in Times :
          /\ due' = due \ {<<v, t>>} /\ location' = [location EXCEPT ![v] = t]
          /\ tracker' = [tracker EXCEPT ![w] = <<v, t, "index">>] /\ tracker[w] = None
          /\ UNCHANGED <<index, details, observer, cleaner, map, handled, lost, dropped>>
    BY <1>1 DEF SetLocation
  <2>2. v \in Vehicles /\ v \notin Trains /\ t \in Nat
    BY InHand, LocationAssumption DEF Vehicles
  <2>3. /\ location'[v] = t /\ tracker'[w] = <<v, t, "index">>
        /\ \A u \in Vehicles : u # v => location'[u] = location[u]
        /\ \A x \in Trackers : x # w => tracker'[x] = tracker[x]
    BY <2>1, <2>2 DEF TypeOK
  <2>4. TypeOK'
    BY <2>1, <2>2 DEF TypeOK, TimeOrNone, TrackerState
  <2>5. LiveIsIndexed'
    <3>1. ASSUME NEW u \in Vehicles, location[u] # None PROVE tracker[w] # <<u, location[u], "index">>
      BY <2>1, <3>1, InHand, LocationAssumption DEF Vehicles
    <3>. QED  BY <2>1, <2>3, <3>1 DEF LiveIsIndexed
  <2>6. IndexAgrees' /\ \A u \in Trains \ lost' : StoredIsNewest(u)'
    BY <2>1, <2>2, <2>3 DEF IndexAgrees, StoredIsNewest, Vehicles
  <2>7. (\A x \in Trackers : InFeed(x)') /\ (\A o \in Observers : ReadIsOlder(o)')
    BY <2>1, <2>3 DEF InFeed, ReadIsOlder
  <2>. QED  BY <2>4, <2>5, <2>6, <2>7
<1>2. CASE AddToIndex(w)
  <2>1. /\ tracker[w] # None /\ tracker[w][3] = "index"
        /\ index' = [index EXCEPT ![tracker[w][1]] = tracker[w][2]]
        /\ dropped' = dropped \ {tracker[w][1]} /\ tracker' = [tracker EXCEPT ![w][3] = "details"]
        /\ UNCHANGED <<location, details, due, observer, cleaner, map, handled, lost>>
    BY <1>2 DEF AddToIndex
  <2>2. /\ tracker[w] = <<tracker[w][1], tracker[w][2], "index">> /\ tracker[w][2] \in Times
        /\ tracker[w][2] \in Nat /\ tracker[w][2] # None
        /\ tracker[w][1] \in Buses /\ tracker[w][1] \in Vehicles /\ tracker[w][1] \notin Trains
    BY <2>1, InHand DEF InFeed
  <2>3. /\ index'[tracker[w][1]] = tracker[w][2] /\ \A u \in Vehicles : u # tracker[w][1] => index'[u] = index[u]
        /\ tracker'[w] = <<tracker[w][1], tracker[w][2], "details">>
        /\ \A x \in Trackers : x # w => tracker'[x] = tracker[x]
    BY <2>1, <2>2 DEF TypeOK
  <2>4. TypeOK'
    <3>1. tracker' \in [Trackers -> TrackerState \cup {None}]
      BY <2>1, <2>2, <2>3 DEF TypeOK, TrackerState
    <3>2. index' \in [Vehicles -> TimeOrNone]
      BY <2>1, <2>2 DEF TypeOK, TimeOrNone
    <3>. QED  BY <2>1, <3>1, <3>2 DEF TypeOK
  <2>5. LiveIsIndexed'
    BY <2>1, <2>2, <2>3 DEF LiveIsIndexed
  <2>6. IndexAgrees' /\ \A u \in Trains \ lost' : StoredIsNewest(u)'
    BY <2>1, <2>2, <2>3 DEF IndexAgrees, StoredIsNewest, Vehicles
  <2>7. (\A x \in Trackers : InFeed(x)') /\ (\A o \in Observers : ReadIsOlder(o)')
    BY <2>1, <2>2, <2>3 DEF InFeed, ReadIsOlder
  <2>. QED  BY <2>4, <2>5, <2>6, <2>7
<1>3. CASE SetDetails(w)
  <2>1. /\ tracker[w] # None /\ tracker[w][3] = "details" /\ tracker' = [tracker EXCEPT ![w] = None]
        /\ details' \in {details, details \cup {tracker[w][1]}}
        /\ UNCHANGED <<location, index, due, observer, cleaner, map, handled, lost, dropped>>
    BY <1>3 DEF SetDetails
  <2>2. tracker[w][1] \in Vehicles
    BY <2>1, InHand
  <2>3. /\ tracker'[w] = None /\ \A x \in Trackers : x # w => tracker'[x] = tracker[x]
        /\ \A v, t : tracker[w] # <<v, t, "index">>
    BY <2>1 DEF TypeOK
  <2>4. TypeOK'
    BY <2>1, <2>2 DEF TypeOK
  <2>5. LiveIsIndexed'
    BY <2>1, <2>3 DEF LiveIsIndexed
  <2>6. IndexAgrees' /\ \A u \in Trains \ lost' : StoredIsNewest(u)'
    BY <2>1 DEF IndexAgrees, StoredIsNewest
  <2>7. (\A x \in Trackers : InFeed(x)') /\ (\A o \in Observers : ReadIsOlder(o)')
    BY <2>1, <2>3 DEF InFeed, ReadIsOlder
  <2>. QED  BY <2>4, <2>5, <2>6, <2>7
<1>. QED  BY <1>1, <1>2, <1>3

-----------------------------------------------------------------------------
(* Consumers: WATCH, and EXEC. *)

\* WATCH and GET, the first time and again: what is not newer counts as dealt with.
LEMMA WatchStep ==
  ASSUME PositionInv, NEW o \in Observers, NEW v \in Trains, NEW t \in Times, NEW attempt \in 1..MaxAttempts,
         WatchLocation(o, v, t, attempt), due' \subseteq due,
         UNCHANGED <<location, index, details, tracker, cleaner, map, lost, dropped>>
  PROVE  PositionInv'
<1>. USE DEF PositionInv
<1>1. v \in Vehicles /\ t \in Nat /\ location[v] \in Times \cup {None}
  BY InHand DEF Vehicles
<1>2. LiveIsIndexed' /\ IndexAgrees' /\ \A w \in Trackers : InFeed(w)'
  BY DEF LiveIsIndexed, IndexAgrees, InFeed
<1>3. CASE /\ location[v] # None /\ t <= location[v]
           /\ observer' = [observer EXCEPT ![o] = None] /\ handled' = handled \cup {<<v, t>>}
  <2>1. TypeOK'
    BY <1>3 DEF TypeOK
  <2>2. \A p \in Observers : ReadIsOlder(p)'
    BY <1>3 DEF ReadIsOlder, TypeOK
  <2>3. \A u \in Trains \ lost' : StoredIsNewest(u)'
    BY <1>3 DEF StoredIsNewest
  <2>. QED  BY <1>2, <2>1, <2>2, <2>3
<1>4. CASE /\ ~(location[v] # None /\ t <= location[v]) /\ handled' = handled
           /\ observer' = [observer EXCEPT ![o] =
                [journey |-> v, time |-> t, read |-> location[v], attempt |-> attempt]]
  <2>. DEFINE seen == [journey |-> v, time |-> t, read |-> location[v], attempt |-> attempt]
  <2>1. seen \in ObserverState(Times)
    BY <1>1 DEF ObserverState
  <2>2. observer' \in [Observers -> ObserverState(Times) \cup {None}]
    BY <1>4, <2>1 DEF TypeOK
  <2>3. TypeOK'
    BY <1>4, <2>2 DEF TypeOK
  <2>4. seen.read = None \/ seen.read < seen.time
    <3>1. location[v] = None \/ (location[v] \in Nat /\ t > location[v])
      <4>1. location[v] # None => location[v] \in Nat /\ ~(t <= location[v])
        BY <1>1, <1>4, InHand
      <4>. QED  BY <1>1, <4>1
    <3>. QED  BY <3>1
  <2>5. \A p \in Observers : ReadIsOlder(p)'
    <3>1. observer'[o] = seen /\ \A p \in Observers : p # o => observer'[p] = observer[p]
      BY <1>4 DEF TypeOK
    <3>. QED  BY <2>4, <3>1 DEF ReadIsOlder
  <2>6. \A u \in Trains \ lost' : StoredIsNewest(u)'
    BY <1>4 DEF StoredIsNewest
  <2>. QED  BY <1>2, <2>3, <2>5, <2>6
<1>. QED  BY <1>3, <1>4 DEF WatchLocation

LEMMA ObserverSteps ==
  ASSUME PositionInv, NEW o \in Observers, Observe(o) \/ Exec(o) \/ Retry(o) \/ GiveUp(o)
  PROVE  PositionInv'
<1>. USE DEF PositionInv
<1>1. CASE Observe(o)
  <2>1. 1 \in 1..MaxAttempts
    BY LocationAssumption
  <2>. QED  BY <1>1, <2>1, WatchStep DEF Observe
<1>2. CASE Retry(o)
  <2>1. observer[o] # None /\ observer[o].attempt < MaxAttempts
    BY <1>2 DEF Retry, ExecFails
  <2>2. observer[o].attempt + 1 \in 1..MaxAttempts /\ observer[o].journey \in Trains /\ observer[o].time \in Times
    BY <2>1, InHand, LocationAssumption
  <2>. QED  BY <1>2, <2>2, WatchStep DEF Retry
<1>3. CASE Exec(o)
  <2>. DEFINE v == observer[o].journey
              t == observer[o].time
  <2>1. /\ observer[o] # None /\ location[v] = observer[o].read
        /\ location' = [location EXCEPT ![v] = t] /\ index' = [index EXCEPT ![v] = t]
        /\ observer' = [observer EXCEPT ![o] = None] /\ handled' = handled \cup {<<v, t>>}
        /\ dropped' = dropped \ {v}
        /\ UNCHANGED <<details, due, tracker, cleaner, map, lost>>
    BY <1>3 DEF Exec, Store
  <2>2. v \in Trains /\ v \in Vehicles /\ v \notin Buses /\ t \in Times /\ t \in Nat /\ t # None
    BY <2>1, InHand
  <2>3. /\ location'[v] = t /\ index'[v] = t
        /\ \A u \in Vehicles : u # v => location'[u] = location[u] /\ index'[u] = index[u]
        /\ observer'[o] = None /\ \A p \in Observers : p # o => observer'[p] = observer[p]
    BY <2>1, <2>2 DEF TypeOK
  <2>4. TypeOK'
    BY <2>1, <2>2 DEF TypeOK, TimeOrNone
  <2>5. LiveIsIndexed' /\ IndexAgrees'
    <3>1. ASSUME NEW u \in Vehicles, u # v PROVE location'[u] = location[u] /\ index'[u] = index[u]
      BY <2>3, <3>1
    <3>2. LiveIsIndexed'
      <4>1. ASSUME NEW u \in Vehicles, u # v, location'[u] # None, u \notin dropped',
                   \A w \in Trackers : tracker'[w] # <<u, location'[u], "index">>
            PROVE  index'[u] # None
        <5>1. /\ location[u] # None /\ u \notin dropped
              /\ \A w \in Trackers : tracker[w] # <<u, location[u], "index">>
          BY <2>1, <3>1, <4>1
        <5>. QED  BY <3>1, <4>1, <5>1 DEF LiveIsIndexed
      <4>2. index'[v] # None
        BY <2>2, <2>3
      <4>. QED  BY <4>1, <4>2 DEF LiveIsIndexed
    <3>3. IndexAgrees'
      BY <2>2, <2>3, <3>1 DEF IndexAgrees, Vehicles
    <3>. QED  BY <3>2, <3>3
  <2>6. (\A w \in Trackers : InFeed(w)') /\ (\A p \in Observers : ReadIsOlder(p)')
    BY <2>1, <2>3 DEF InFeed, ReadIsOlder
  <2>7. location[v] = None \/ (location[v] \in Nat /\ location[v] < t)
    BY <2>1, <2>2, InHand DEF ReadIsOlder
  <2>8. ASSUME NEW u \in Trains \ lost' PROVE StoredIsNewest(u)'
    <3>1. StoredIsNewest(u) /\ u \in Vehicles
      BY <2>1, <2>8 DEF Vehicles
    <3>2. CASE u # v
      BY <2>1, <2>3, <3>1, <3>2 DEF StoredIsNewest
    <3>3. CASE u = v
      <4>1. ASSUME NEW s \in Times, <<v, s>> \in handled PROVE s <= t
        <5>1. location[v] # None /\ s <= location[v]
          BY <3>1, <3>3, <4>1 DEF StoredIsNewest
        <5>2. s \in Nat
          BY InHand
        <5>. QED  BY <2>2, <2>7, <5>1, <5>2
      <4>. QED  BY <2>1, <2>2, <2>3, <3>3, <4>1 DEF StoredIsNewest
    <3>. QED  BY <3>2, <3>3
  <2>. QED  BY <2>4, <2>5, <2>6, <2>8
<1>4. CASE GiveUp(o)
  <2>1. /\ observer[o] # None /\ observer' = [observer EXCEPT ![o] = None] /\ lost' = lost \cup {observer[o].journey}
        /\ UNCHANGED <<location, index, details, due, tracker, cleaner, map, handled, dropped>>
    BY <1>4 DEF GiveUp, ExecFails
  <2>2. observer[o].journey \in Vehicles
    BY <2>1, InHand
  <2>3. TypeOK'
    BY <2>1, <2>2 DEF TypeOK
  <2>4. LiveIsIndexed' /\ IndexAgrees' /\ \A w \in Trackers : InFeed(w)'
    BY <2>1 DEF LiveIsIndexed, IndexAgrees, InFeed
  <2>5. \A p \in Observers : ReadIsOlder(p)'
    BY <2>1 DEF ReadIsOlder, TypeOK
  <2>6. \A u \in Trains \ lost' : StoredIsNewest(u)'
    BY <2>1 DEF StoredIsNewest
  <2>. QED  BY <2>3, <2>4, <2>5, <2>6
<1>. QED  BY <1>1, <1>2, <1>3, <1>4

-----------------------------------------------------------------------------
(* What removes: time, the cleaner, the map. *)

LEMMA RemovalSteps ==
  ASSUME PositionInv, (\E v \in Vehicles : Expire(v)) \/ Scan \/ RemoveStale \/ ReadMap \/ DropStale
  PROVE  PositionInv'
<1>. USE DEF PositionInv
<1>1. UNCHANGED <<due, tracker, observer, handled>> /\ lost \subseteq lost'
  BY DEF Expire, Scan, RemoveStale, ReadMap, DropStale
<1>2. (\A w \in Trackers : InFeed(w)') /\ (\A o \in Observers : ReadIsOlder(o)')
  BY <1>1 DEF InFeed, ReadIsOlder
<1>3. ASSUME NEW v \in Vehicles, Expire(v) PROVE PositionInv'
  <2>1. UNCHANGED <<index, cleaner, map, dropped>>
    BY <1>3 DEF Expire
  <2>2. \/ location' = [location EXCEPT ![v] = None] /\ lost' = lost \cup {v} /\ details' = details
        \/ location' = location /\ lost' = lost /\ details' = details \ {v}
    BY <1>3 DEF Expire
  <2>3. TypeOK'
    BY <1>1, <2>1, <2>2 DEF TypeOK, TimeOrNone
  <2>4. \A u \in Vehicles : location'[u] = location[u] \/ (u = v /\ location'[u] = None /\ v \in lost')
    BY <2>2 DEF TypeOK
  <2>5. LiveIsIndexed' /\ IndexAgrees'
    BY <1>1, <2>1, <2>4 DEF LiveIsIndexed, IndexAgrees, Vehicles
  <2>6. \A u \in Trains \ lost' : StoredIsNewest(u)'
    BY <1>1, <2>4 DEF StoredIsNewest, Vehicles
  <2>. QED  BY <1>2, <2>3, <2>5, <2>6
<1>4. CASE Scan \/ ReadMap
  <2>1. UNCHANGED <<location, index, details, lost, dropped>>
    BY <1>4 DEF Scan, ReadMap
  <2>2. TypeOK'
    BY <1>1, <1>4, <2>1 DEF TypeOK, Scan, ReadMap, Indexed
  <2>3. LiveIsIndexed' /\ IndexAgrees' /\ \A u \in Trains \ lost' : StoredIsNewest(u)'
    BY <1>1, <2>1 DEF LiveIsIndexed, IndexAgrees, StoredIsNewest
  <2>. QED  BY <1>2, <2>2, <2>3
<1>5. CASE RemoveStale
  <2>1. /\ index' = [v \in Vehicles |-> IF v \in cleaner /\ location[v] = None THEN None ELSE index[v]]
        /\ cleaner' = {} /\ UNCHANGED <<location, details, map, lost, dropped>>
    BY <1>5 DEF RemoveStale
  <2>2. TypeOK'
    BY <1>1, <2>1 DEF TypeOK, TimeOrNone
  <2>3. LiveIsIndexed' /\ IndexAgrees' /\ \A u \in Trains \ lost' : StoredIsNewest(u)'
    BY <1>1, <2>1 DEF LiveIsIndexed, IndexAgrees, StoredIsNewest, Vehicles
  <2>. QED  BY <1>2, <2>2, <2>3
<1>6. CASE DropStale
  <2>1. /\ index' = [v \in Vehicles |-> IF v \in map THEN None ELSE index[v]]
        /\ dropped' = dropped \cup map /\ map' = {} /\ UNCHANGED <<location, details, cleaner, lost>>
    BY <1>6 DEF DropStale
  <2>2. TypeOK'
    BY <1>1, <2>1 DEF TypeOK, TimeOrNone
  <2>3. LiveIsIndexed' /\ IndexAgrees' /\ \A u \in Trains \ lost' : StoredIsNewest(u)'
    BY <1>1, <2>1 DEF LiveIsIndexed, IndexAgrees, StoredIsNewest, Vehicles
  <2>. QED  BY <1>2, <2>2, <2>3
<1>. QED  BY <1>3, <1>4, <1>5, <1>6

-----------------------------------------------------------------------------

LEMMA PositionInit == Init => PositionInv
<1>. SUFFICES ASSUME Init PROVE PositionInv
  OBVIOUS
<1>1. TypeOK
  BY DEF Init, TypeOK, Vehicles, TimeOrNone
<1>. QED
  BY <1>1 DEF Init, PositionInv, LiveIsIndexed, IndexAgrees, InFeed, ReadIsOlder, StoredIsNewest, Vehicles

LEMMA PositionStep == PositionInv /\ [Next]_vars => PositionInv'
<1>. SUFFICES ASSUME PositionInv, [Next]_vars PROVE PositionInv'
  OBVIOUS
<1>1. CASE UNCHANGED vars
  BY <1>1 DEF vars, PositionInv, TypeOK, LiveIsIndexed, IndexAgrees, InFeed, ReadIsOlder, StoredIsNewest
<1>. QED  BY <1>1, TrackerSteps, ObserverSteps, RemovalSteps DEF Next

\* A position that has not expired is found by the map once its tracker has sent both commands,
\* the index never shows a train where its key does not, and the newest observation wins, through
\* any interleaving of writers, conflicts of transactions, expiring keys, the cleaner and the map
\* (writer.go:272-296, railposition.go:17-60, cleanup.go:23-26), for every number of each.
THEOREM PositionsAreFound == Spec => []PositionsFound
<1>1. Init => PositionInv
  BY PositionInit
<1>2. PositionInv /\ [Next]_vars => PositionInv'
  BY PositionStep
<1>3. PositionInv => PositionsFound
  <2>. SUFFICES ASSUME PositionInv PROVE NewestWins
    BY DEF PositionInv, PositionsFound
  <2>1. ASSUME NEW v \in Trains \ lost, NEW u \in Times, <<v, u>> \in handled
        PROVE  location[v] # None /\ location[v] >= Max({t \in Times : <<v, t>> \in handled})
    BY <2>1, NewestIsStored DEF PositionInv
  <2>. QED  BY <2>1 DEF NewestWins
<1>. QED  BY <1>1, <1>2, <1>3, PTL DEF Spec

-----------------------------------------------------------------------------
(* DepartureGraph: the invariant. *)

\* A journey is in the graph on a day.
InGraph(g, d, j) == \E id \in Ids(g) : g.journeys[id] = j /\ <<d, id>> \in g.dayJourneys

\* The journeys of a day are known and run on it.
JourneysFit(g, d) ==
  \A id \in Nat : <<d, id>> \in g.dayJourneys => id \in Ids(g) /\ d \in ServiceDays[g.journeys[id]]

\* JourneyDays has no others.
DaysFit(g, d) == \A id \in Nat : <<d, id>> \in g.onDay => <<d, id>> \in g.dayJourneys

\* The entries of a stop are the calls there of the journeys of the day.
EntriesFit(g, d, stop) ==
  LET entries == g.departures[<<d, stop>>]
      times(id) == Calls[g.journeys[id]][stop]
  IN  /\ \A n \in DOMAIN entries :
           /\ <<d, entries[n][1]>> \in g.dayJourneys
           /\ \E m \in DOMAIN times(entries[n][1]) : entries[n][2] = times(entries[n][1])[m]
      /\ \A id \in Ids(g) : <<d, id>> \in g.dayJourneys =>
           \A m \in DOMAIN times(id) : \E n \in DOMAIN entries : entries[n] = <<id, times(id)[m]>>

InOrder(entries) == \A m, n \in DOMAIN entries : m < n => entries[m][2] <= entries[n][2]

\* What counts as complete is there, and so is what a recorded scan has passed.
PromisesKept(g, d) ==
  /\ \A stop \in Stops : <<d, stop>> \in g.completeStops => \A j \in Timetable(d, stop) : InGraph(g, d, j)
  /\ d \in g.completeDays =>
       /\ \A j \in Journeys : d \in ServiceDays[j] => InGraph(g, d, j)
       /\ \A stop \in Stops : InOrder(g.departures[<<d, stop>>])
  /\ d \in g.scanDays \ g.completeDays =>
       \A j \in 1..g.cursor : d \in ServiceDays[j] => InGraph(g, d, j)

DayOK(g, d) ==
  /\ JourneysFit(g, d) /\ DaysFit(g, d) /\ PromisesKept(g, d)
  /\ \A stop \in Stops : EntriesFit(g, d, stop)

\* The scan has passed its journeys up to the cursor, and all of them when it ends.
BuilderOK ==
  builder.at \in {"topology", "scan", "complete"} =>
    /\ graph.scanDays = Window(builder.day)
    /\ \A d \in Missing(graph, builder.day) \ spoiled, j \in Journeys :
         d \in ServiceDays[j] /\ (j <= builder.cursor \/ builder.at = "complete") => InGraph(graph, d, j)

\* A fill has added the journeys before its next.
FillerOK ==
  filler # Nil /\ filler.key[1] \notin spoiled =>
    /\ filler.key[1] \notin graph.completeDays
    /\ \A j \in Timetable(filler.key[1], filler.key[2]) : j < filler.next => InGraph(graph, filler.key[1], j)

\* What is stored of a day, and about to be.
StoredOK(d) ==
  /\ file # Nil => DayOK(file, d)
  /\ saver.at = "write" => DayOK(saver.data, d)

GraphInv ==
  /\ GraphTypeOK /\ BuilderOK /\ FillerOK
  /\ saver.at = "write" => saver.data \in GraphData
  /\ \A d \in GraphDays \ spoiled : DayOK(graph, d) /\ StoredOK(d)

-----------------------------------------------------------------------------
(* Lemmas about numbering: what is put in an order by counting what comes before it. *)

LEMMA Least ==
  ASSUME NEW S, S \subseteq Nat, S # {}
  PROVE  Min(S) \in S /\ \A m \in S : Min(S) <= m
<1>. DEFINE R == OpToRel(<, Nat)
<1>1. IsWellFoundedOn(R, Nat)
  BY NatLessThanWellFounded, Zenon
<1>2. \A m, n \in Nat : m < n => <<m, n>> \in R
  BY Zenon DEF OpToRel
<1>. HIDE DEF R
<1>3. PICK n \in S : \A m \in S : ~(<<m, n>> \in R)
  BY <1>1, WFMin, Zenon
<1>4. ASSUME NEW m \in S
      PROVE  n =< m
  <2>1. m \in Nat /\ n \in Nat
    BY Zenon
  <2>2. ~(m < n)
    BY <1>2, <1>3, <2>1, Zenon
  <2>. QED  BY <2>1, <2>2
<1>. QED  BY <1>4 DEF Min

\* If below[i] is what comes no later than i, for an order of S, then its size numbers S from 1 on.
LEMMA Numbering ==
  ASSUME NEW S, IsFiniteSet(S), NEW below \in [S -> SUBSET S],
         \A i \in S : i \in below[i],
         \A i, j \in S : i \in below[j] \/ j \in below[i],
         \A i, j \in S : i \in below[j] => below[i] \subseteq below[j],
         \A i, j \in S : i \in below[j] /\ j \in below[i] => i = j
  PROVE  /\ Cardinality(S) \in Nat
         /\ \A i \in S : Cardinality(below[i]) \in 1..Cardinality(S)
         /\ \A i, j \in S : i \in below[j] /\ i # j => Cardinality(below[i]) < Cardinality(below[j])
         /\ \A n \in 1..Cardinality(S) : \E i \in S : Cardinality(below[i]) = n
<1>. DEFINE N == Cardinality(S)
            rank == [i \in S |-> Cardinality(below[i])]
<1>1. N \in Nat
  BY FS_CardinalityType
<1>2. ASSUME NEW i \in S PROVE IsFiniteSet(below[i]) /\ Cardinality(below[i]) \in 1..N
  <2>1. IsFiniteSet(below[i]) /\ Cardinality(below[i]) <= N
    BY FS_Subset
  <2>2. Cardinality(below[i]) \in Nat /\ Cardinality(below[i]) # 0
    BY <2>1, FS_CardinalityType, FS_EmptySet
  <2>. QED  BY <1>1, <2>1, <2>2
<1>3. ASSUME NEW i \in S, NEW j \in S, i \in below[j], i # j
      PROVE  Cardinality(below[i]) < Cardinality(below[j])
  <2>1. below[i] \in SUBSET below[j] /\ below[i] # below[j]
    BY <1>3
  <2>2. Cardinality(below[i]) <= Cardinality(below[j]) /\ Cardinality(below[i]) # Cardinality(below[j])
    BY <1>2, <2>1, FS_Subset
  <2>. QED  BY <1>1, <1>2, <2>2
<1>4. rank \in Injection(S, 1..N)
  <2>1. rank \in [S -> 1..N]
    BY <1>2
  <2>2. ASSUME NEW i \in S, NEW j \in S, rank[i] = rank[j] PROVE i = j
    <3>1. Cardinality(below[i]) = Cardinality(below[j]) /\ Cardinality(below[i]) \in Nat
      BY <1>1, <1>2, <2>2
    <3>. QED  BY <1>3, <3>1
  <2>. QED  BY <2>1, <2>2 DEF Injection, IsInjective
<1>5. IsFiniteSet(1..N) /\ Cardinality(1..N) = N
  BY <1>1, FS_Interval
<1>6. rank \in Surjection(S, 1..N)
  <2>. HIDE DEF rank
  <2>. QED  BY <1>4, <1>5, FS_Injection
<1>7. ASSUME NEW n \in 1..N PROVE \E i \in S : Cardinality(below[i]) = n
  BY <1>6 DEF Surjection
<1>. QED  BY <1>1, <1>2, <1>3, <1>7

\* Sorting a bucket puts its entries in order, and loses and adds none.
LEMMA SortedBucket ==
  ASSUME NEW entries \in Seq(Nat \X Nat)
  PROVE  /\ SortBucket(entries) \in Seq(Nat \X Nat) /\ InOrder(SortBucket(entries))
         /\ \A n \in DOMAIN SortBucket(entries) : \E m \in DOMAIN entries : SortBucket(entries)[n] = entries[m]
         /\ \A m \in DOMAIN entries : \E n \in DOMAIN SortBucket(entries) : SortBucket(entries)[n] = entries[m]
<1>. DEFINE S == DOMAIN entries
            below == [n \in S |-> UpTo(entries, n)]
            at(n) == CHOOSE m \in S : Cardinality(below[m]) = n
<1>1. S = 1..Len(entries) /\ Len(entries) \in Nat /\ \A n \in S : entries[n] \in Nat \X Nat
  OBVIOUS
<1>2. IsFiniteSet(S) /\ Cardinality(S) = Len(entries)
  BY <1>1, FS_Interval
<1>3. below \in [S -> SUBSET S] /\ \A n \in S : n \in below[n]
  BY <1>1 DEF UpTo
<1>4. \A i, j \in S : i \in below[j] \/ j \in below[i]
  <2>. SUFFICES ASSUME NEW i \in S, NEW j \in S PROVE i \in UpTo(entries, j) \/ j \in UpTo(entries, i)
    OBVIOUS
  <2>1. /\ entries[i] = <<entries[i][1], entries[i][2]>> /\ entries[j] = <<entries[j][1], entries[j][2]>>
        /\ entries[i][1] \in Nat /\ entries[i][2] \in Nat /\ entries[j][1] \in Nat /\ entries[j][2] \in Nat
    BY <1>1
  <2>2. Earlier(entries[i], entries[j]) \/ Earlier(entries[j], entries[i]) \/ entries[i] = entries[j]
    BY <2>1 DEF Earlier
  <2>. QED  BY <1>1, <2>2 DEF UpTo
<1>5. \A i, j \in S : i \in below[j] => below[i] \subseteq below[j]
  <2>. SUFFICES ASSUME NEW i \in S, NEW j \in S, i \in UpTo(entries, j), NEW k \in UpTo(entries, i)
                PROVE  k \in UpTo(entries, j)
    OBVIOUS
  <2>1. k \in S
    BY DEF UpTo
  <2>2. CASE Earlier(entries[k], entries[i]) /\ Earlier(entries[i], entries[j])
    <3>1. \A n \in {i, j, k} : entries[n][1] \in Nat /\ entries[n][2] \in Nat
      BY <1>1, <2>1
    <3>2. Earlier(entries[k], entries[j])
      BY <2>2, <3>1 DEF Earlier
    <3>. QED  BY <2>1, <3>2 DEF UpTo
  <2>3. CASE entries[k] = entries[i] /\ entries[i] = entries[j] /\ k <= i /\ i <= j
    BY <1>1, <2>1, <2>3 DEF UpTo
  <2>4. CASE \/ entries[k] = entries[i] /\ Earlier(entries[i], entries[j])
             \/ Earlier(entries[k], entries[i]) /\ entries[i] = entries[j]
    BY <2>1, <2>4 DEF UpTo
  <2>. QED  BY <2>2, <2>3, <2>4 DEF UpTo
<1>6. \A i, j \in S : i \in below[j] /\ j \in below[i] => i = j
  <2>. SUFFICES ASSUME NEW i \in S, NEW j \in S, i \in UpTo(entries, j), j \in UpTo(entries, i) PROVE i = j
    OBVIOUS
  <2>1. entries[i][1] \in Nat /\ entries[i][2] \in Nat /\ entries[j][1] \in Nat /\ entries[j][2] \in Nat
    BY <1>1
  <2>. QED  BY <1>1, <2>1 DEF UpTo, Earlier
<1>7. ASSUME NEW a \in S, NEW b \in S, a \in UpTo(entries, b) PROVE entries[a][2] <= entries[b][2]
  <2>1. entries[a][2] \in Nat /\ entries[b][2] \in Nat
    BY <1>1
  <2>. QED  BY <1>7, <2>1 DEF UpTo, Earlier
<1>8. \A m \in S : below[m] = UpTo(entries, m)
  OBVIOUS
<1>. HIDE DEF below, S
<1>9. /\ \A i \in S : Cardinality(below[i]) \in 1..Cardinality(S)
      /\ \A i, j \in S : i \in below[j] /\ i # j => Cardinality(below[i]) < Cardinality(below[j])
      /\ \A n \in 1..Cardinality(S) : \E i \in S : Cardinality(below[i]) = n
  BY <1>2, <1>3, <1>4, <1>5, <1>6, Numbering
<1>10. \A n \in S : at(n) \in S /\ Cardinality(below[at(n)]) = n
  BY <1>1, <1>2, <1>9
<1>11. SortBucket(entries) = [n \in S |-> entries[at(n)]]
  <2>1. \A n \in S : at(n) = CHOOSE m \in S : Cardinality(UpTo(entries, m)) = n
    BY <1>8
  <2>. DEFINE up(n) == CHOOSE m \in S : Cardinality(UpTo(entries, m)) = n
  <2>2. SortBucket(entries) = [n \in S |-> entries[up(n)]]
    BY DEF SortBucket, S
  <2>3. \A n \in S : at(n) = up(n)
    BY <2>1
  <2>. HIDE DEF at, up
  <2>. QED  BY <2>2, <2>3
<1>. HIDE DEF at
<1>12. SortBucket(entries) \in Seq(Nat \X Nat)
  <2>1. \A n \in S : entries[at(n)] \in Nat \X Nat
    BY <1>1, <1>10
  <2>. QED  BY <1>1, <1>11, <2>1
<1>13. InOrder(SortBucket(entries))
  <2>. SUFFICES ASSUME NEW m \in S, NEW n \in S, m < n PROVE entries[at(m)][2] <= entries[at(n)][2]
    BY <1>11 DEF InOrder
  <2>1. at(m) \in S /\ at(n) \in S /\ m \in Nat /\ n \in Nat
    BY <1>1, <1>10
  <2>2. Cardinality(below[at(m)]) = m /\ Cardinality(below[at(n)]) = n
    BY <1>10
  <2>3. ASSUME at(n) \in below[at(m)] PROVE FALSE
    <3>1. at(n) # at(m)
      BY <2>1, <2>2
    <3>2. Cardinality(below[at(n)]) < Cardinality(below[at(m)])
      BY <1>9, <2>1, <2>3, <3>1
    <3>. QED  BY <2>1, <2>2, <3>2
  <2>4. at(m) \in UpTo(entries, at(n))
    BY <1>4, <1>8, <2>1, <2>3
  <2>. QED  BY <1>7, <2>1, <2>4
<1>14. ASSUME NEW m \in S PROVE \E n \in S : at(n) = m
  <2>. DEFINE n == Cardinality(below[m])
  <2>1. n \in S /\ n \in Nat
    BY <1>1, <1>2, <1>9
  <2>2. at(n) \in S /\ Cardinality(below[at(n)]) = n
    BY <1>10, <2>1
  <2>3. ASSUME at(n) # m PROVE FALSE
    <3>1. Cardinality(below[at(n)]) < Cardinality(below[m]) \/ Cardinality(below[m]) < Cardinality(below[at(n)])
      BY <1>4, <1>9, <2>2, <2>3
    <3>. QED  BY <2>1, <2>2, <3>1
  <2>. QED  BY <2>1, <2>3
<1>15. DOMAIN SortBucket(entries) = S
  BY <1>11
<1>. QED  BY <1>10, <1>11, <1>12, <1>13, <1>14, <1>15 DEF S

-----------------------------------------------------------------------------
(* Lemmas about the operations on graphData. *)

\* What an operation leaves of a graph that the promises of a day are about.
SameDay(g, h, d) ==
  /\ h.journeys = g.journeys
  /\ \A id : <<d, id>> \in h.dayJourneys <=> <<d, id>> \in g.dayJourneys
  /\ \A stop \in Stops : h.departures[<<d, stop>>] = g.departures[<<d, stop>>]

LEMMA SameDayFits ==
  ASSUME NEW g, NEW h, NEW d, SameDay(g, h, d)
  PROVE  /\ JourneysFit(g, d) => JourneysFit(h, d)
         /\ \A stop \in Stops : EntriesFit(g, d, stop) => EntriesFit(h, d, stop)
         /\ \A j : InGraph(g, d, j) => InGraph(h, d, j)
<1>1. Ids(h) = Ids(g)
  BY DEF SameDay, Ids
<1>2. JourneysFit(g, d) => JourneysFit(h, d)
  BY <1>1 DEF SameDay, JourneysFit
<1>3. ASSUME NEW j, InGraph(g, d, j) PROVE InGraph(h, d, j)
  BY <1>1, <1>3 DEF SameDay, InGraph
<1>4. ASSUME NEW stop \in Stops, EntriesFit(g, d, stop) PROVE EntriesFit(h, d, stop)
  <2>1. /\ h.journeys = g.journeys /\ h.departures[<<d, stop>>] = g.departures[<<d, stop>>]
        /\ \A id : <<d, id>> \in h.dayJourneys <=> <<d, id>> \in g.dayJourneys
    BY DEF SameDay
  <2>. DEFINE old == g.departures[<<d, stop>>]
              at == g.journeys
  <2>2. /\ \A n \in DOMAIN old : /\ <<d, old[n][1]>> \in g.dayJourneys
                                 /\ \E m \in DOMAIN Calls[at[old[n][1]]][stop] :
                                      old[n][2] = Calls[at[old[n][1]]][stop][m]
        /\ \A id \in Ids(g) : <<d, id>> \in g.dayJourneys =>
             \A m \in DOMAIN Calls[at[id]][stop] : \E n \in DOMAIN old : old[n] = <<id, Calls[at[id]][stop][m]>>
    BY <1>4 DEF EntriesFit
  <2>3. h.departures[<<d, stop>>] = old /\ h.journeys = at
    BY <2>1
  <2>. HIDE DEF old, at
  <2>. QED  BY <1>1, <2>1, <2>2, <2>3 DEF EntriesFit
<1>. QED  BY <1>2, <1>3, <1>4

LEMMA JourneyAdded ==
  ASSUME NEW g \in GraphData, NEW j \in Journeys, NEW days, days \subseteq GraphDays, days \subseteq ServiceDays[j],
         NEW h, h = AddJourney(g, days, j)
  PROVE  /\ h \in GraphData
         /\ h.completeStops = g.completeStops /\ h.completeDays = g.completeDays
         /\ h.scanDays = g.scanDays /\ h.cursor = g.cursor
         /\ \A d \in GraphDays, i \in Journeys : InGraph(g, d, i) => InGraph(h, d, i)
         /\ \A d \in days : DaysFit(g, d) => InGraph(h, d, j)
         /\ \A d \in GraphDays :
              DayOK(g, d) /\ (d \in days => d \notin g.completeDays) => DayOK(h, d)
<1>. DEFINE journeys == IF \E id \in Ids(g) : g.journeys[id] = j THEN g.journeys ELSE Append(g.journeys, j)
            id == IdOf(journeys, j)
            new == {d \in days : <<d, id>> \notin g.onDay}
            entries(stop) == [n \in DOMAIN Calls[j][stop] |-> <<id, Calls[j][stop][n]>>]
<1>1. /\ h.journeys = journeys
      /\ h.onDay = g.onDay \cup (new \X {id}) /\ h.dayJourneys = g.dayJourneys \cup (new \X {id})
      /\ h.departures = [k \in Keys |-> IF k[1] \in new THEN g.departures[k] \o entries(k[2]) ELSE g.departures[k]]
      /\ h.completeStops = g.completeStops /\ h.completeDays = g.completeDays
      /\ h.scanDays = g.scanDays /\ h.cursor = g.cursor
      /\ h.topology = g.topology /\ h.patterns = g.patterns
  BY DEF AddJourney, GraphData
<1>0. h = [journeys |-> h.journeys, onDay |-> h.onDay, dayJourneys |-> h.dayJourneys,
              departures |-> h.departures, completeStops |-> h.completeStops,
              completeDays |-> h.completeDays, scanDays |-> h.scanDays, cursor |-> h.cursor,
              topology |-> h.topology, patterns |-> h.patterns]
  BY DEF AddJourney, GraphData
<1>2. /\ journeys \in Seq(Journeys) /\ \E i \in DOMAIN journeys : journeys[i] = j
      /\ \A i \in Ids(g) : i \in DOMAIN journeys /\ journeys[i] = g.journeys[i]
  <2>1. g.journeys \in Seq(Journeys)
    BY DEF GraphData
  <2>2. CASE \E i \in Ids(g) : g.journeys[i] = j
    BY <2>1, <2>2 DEF Ids
  <2>3. CASE ~\E i \in Ids(g) : g.journeys[i] = j
    <3>1. journeys = Append(g.journeys, j)
      BY <2>3
    <3>. HIDE DEF journeys
    <3>. QED  BY <2>1, <3>1 DEF Ids
  <2>. QED  BY <2>2, <2>3
<1>. HIDE DEF journeys
<1>3. id \in DOMAIN journeys /\ journeys[id] = j /\ id \in Nat
  BY <1>2 DEF IdOf
<1>. HIDE DEF id
<1>4. Ids(g) \subseteq Nat /\ Ids(h) = DOMAIN journeys /\ Ids(h) \subseteq Nat /\ Ids(g) \subseteq Ids(h)
  BY <1>1, <1>2 DEF Ids, GraphData
<1>5. \A stop \in Stops : Calls[j][stop] \in Seq(Nat) /\ entries(stop) \in Seq(Nat \X Nat)
  <2>. SUFFICES ASSUME NEW stop \in Stops PROVE Calls[j][stop] \in Seq(Nat) /\ entries(stop) \in Seq(Nat \X Nat)
    OBVIOUS
  <2>1. Calls[j][stop] \in Seq(Nat)
    BY GraphAssumption DEF Journeys
  <2>. DEFINE times == Calls[j][stop]
  <2>. HIDE DEF times
  <2>2. DOMAIN times = 1..Len(times) /\ Len(times) \in Nat /\ \A n \in DOMAIN times : times[n] \in Nat
    BY <2>1 DEF times
  <2>3. [n \in DOMAIN times |-> <<id, times[n]>>] \in Seq(Nat \X Nat)
    BY <1>3, <2>2
  <2>. QED  BY <2>1, <2>3 DEF times
<1>. HIDE DEF entries
<1>6. h.departures \in [Keys -> Seq(Nat \X Nat)]
  <2>. SUFFICES ASSUME NEW k \in Keys
                PROVE  (IF k[1] \in new THEN g.departures[k] \o entries(k[2]) ELSE g.departures[k]) \in Seq(Nat \X Nat)
    BY <1>1
  <2>1. g.departures[k] \in Seq(Nat \X Nat) /\ k[2] \in Stops
    BY DEF GraphData, Keys
  <2>. QED  BY <1>5, <2>1
<1>7. h \in GraphData
  <2>1. new \X {id} \subseteq GraphDays \X Nat
    BY <1>3
  <2>2. /\ h.onDay \subseteq GraphDays \X Nat /\ h.dayJourneys \subseteq GraphDays \X Nat /\ h.journeys \in Seq(Journeys)
        /\ h.completeStops \in SUBSET Keys /\ h.completeDays \in SUBSET GraphDays
        /\ h.scanDays \in SUBSET GraphDays /\ h.cursor \in 0..NJourneys
        /\ h.topology \in BOOLEAN /\ h.patterns \in Nat \cup {Nil}
    BY <1>1, <1>2, <2>1 DEF GraphData
  <2>. HIDE DEF new
  <2>. QED  BY <1>0, <1>6, <2>2 DEF GraphData
<1>8. \A d \in GraphDays, i \in Journeys : InGraph(g, d, i) => InGraph(h, d, i)
  BY <1>1, <1>2, <1>4 DEF InGraph
<1>9. ASSUME NEW d \in days, DaysFit(g, d) PROVE InGraph(h, d, j)
  <2>1. <<d, id>> \in h.dayJourneys
    BY <1>1, <1>3, <1>9 DEF DaysFit
  <2>. QED  BY <1>1, <1>3, <1>4, <2>1 DEF InGraph
<1>10. \A d \in GraphDays, i \in Nat : <<d, i>> \in new \X {id} <=> d \in new /\ i = id
  OBVIOUS
<1>11. ASSUME NEW d \in GraphDays, DayOK(g, d), d \in days => d \notin g.completeDays PROVE DayOK(h, d)
  <2>1. JourneysFit(h, d)
    <3>. SUFFICES ASSUME NEW i \in Nat, <<d, i>> \in h.dayJourneys PROVE i \in Ids(h) /\ d \in ServiceDays[h.journeys[i]]
      BY DEF JourneysFit
    <3>1. CASE <<d, i>> \in g.dayJourneys
      BY <1>1, <1>2, <1>4, <1>11, <3>1 DEF DayOK, JourneysFit
    <3>2. CASE d \in new /\ i = id
      BY <1>1, <1>3, <1>4, <3>2
    <3>. QED  BY <1>1, <1>10, <3>1, <3>2
  <2>2. DaysFit(h, d)
    BY <1>1, <1>11 DEF DayOK, DaysFit
  <2>3. PromisesKept(h, d)
    <3>1. \A stop \in Stops : <<d, stop>> \in h.completeStops => \A i \in Timetable(d, stop) : InGraph(h, d, i)
      BY <1>1, <1>8, <1>11 DEF DayOK, PromisesKept, Timetable
    <3>2. ASSUME d \in h.completeDays
          PROVE  /\ \A i \in Journeys : d \in ServiceDays[i] => InGraph(h, d, i)
                 /\ \A stop \in Stops : InOrder(h.departures[<<d, stop>>])
      <4>1. d \notin new /\ d \in g.completeDays
        BY <1>1, <1>11, <3>2
      <4>2. \A stop \in Stops : h.departures[<<d, stop>>] = g.departures[<<d, stop>>]
        BY <1>1, <4>1 DEF Keys
      <4>. QED  BY <1>8, <1>11, <4>1, <4>2 DEF DayOK, PromisesKept
    <3>3. d \in h.scanDays \ h.completeDays => \A i \in 1..h.cursor : d \in ServiceDays[i] => InGraph(h, d, i)
      <4>1. \A i \in 1..g.cursor : i \in Journeys
        BY GraphAssumption DEF GraphData, Journeys
      <4>. QED  BY <1>1, <1>8, <1>11, <4>1 DEF DayOK, PromisesKept
    <3>. QED  BY <3>1, <3>2, <3>3 DEF PromisesKept
  <2>4. ASSUME NEW stop \in Stops PROVE EntriesFit(h, d, stop)
    <3>. DEFINE old == g.departures[<<d, stop>>]
                now == h.departures[<<d, stop>>]
    <3>1. /\ \A n \in DOMAIN old : /\ <<d, old[n][1]>> \in g.dayJourneys
                                   /\ \E m \in DOMAIN Calls[g.journeys[old[n][1]]][stop] :
                                        old[n][2] = Calls[g.journeys[old[n][1]]][stop][m]
          /\ \A i \in Ids(g) : <<d, i>> \in g.dayJourneys =>
               \A m \in DOMAIN Calls[g.journeys[i]][stop] :
                 \E n \in DOMAIN old : old[n] = <<i, Calls[g.journeys[i]][stop][m]>>
      BY <1>11 DEF DayOK, EntriesFit
    <3>2. <<d, stop>> \in Keys /\ old \in Seq(Nat \X Nat)
      BY DEF Keys, GraphData
    <3>. HIDE DEF old, now
    <3>3. ASSUME NEW n \in DOMAIN old
          PROVE  old[n][1] \in Ids(g) /\ h.journeys[old[n][1]] = g.journeys[old[n][1]]
      <4>1. old[n][1] \in Nat
        BY <3>2
      <4>. QED  BY <1>1, <1>2, <1>11, <3>1, <4>1 DEF DayOK, JourneysFit
    <3>4. \A n \in DOMAIN old :
            /\ <<d, old[n][1]>> \in h.dayJourneys
            /\ \E m \in DOMAIN Calls[h.journeys[old[n][1]]][stop] : old[n][2] = Calls[h.journeys[old[n][1]]][stop][m]
      <4>1. g.dayJourneys \subseteq h.dayJourneys
        BY <1>1
      <4>. QED  BY <3>1, <3>3, <4>1
    <3>5. CASE d \notin new
      <4>1. now = old
        BY <1>1, <3>2, <3>5 DEF old, now
      <4>2. ASSUME NEW i \in Ids(h), <<d, i>> \in h.dayJourneys, NEW m \in DOMAIN Calls[h.journeys[i]][stop]
            PROVE  \E n \in DOMAIN old : old[n] = <<i, Calls[h.journeys[i]][stop][m]>>
        <5>1. <<d, i>> \in g.dayJourneys /\ i \in Nat
          BY <1>1, <1>4, <1>10, <3>5, <4>2
        <5>2. i \in Ids(g) /\ h.journeys[i] = g.journeys[i]
          BY <1>1, <1>2, <1>11, <5>1 DEF DayOK, JourneysFit
        <5>. QED  BY <3>1, <4>2, <5>1, <5>2
      <4>. QED  BY <3>4, <4>1, <4>2 DEF EntriesFit, now
    <3>6. CASE d \in new
      <4>. DEFINE more == entries(stop)
      <4>1. now = old \o more /\ more \in Seq(Nat \X Nat) /\ Len(old) \in Nat /\ Len(more) \in Nat
        <5>1. h.departures[<<d, stop>>] = g.departures[<<d, stop>>] \o entries(stop)
          BY <1>1, <3>2, <3>6
        <5>. QED  BY <1>5, <3>2, <5>1 DEF old, now
      <4>2. /\ DOMAIN more = DOMAIN Calls[j][stop] /\ \A n \in DOMAIN more : more[n] = <<id, Calls[j][stop][n]>>
        BY DEF entries
      <4>. HIDE DEF more
      <4>3. /\ \A n \in DOMAIN old : n \in DOMAIN now /\ now[n] = old[n]
            /\ \A n \in DOMAIN more : \E k \in DOMAIN now : now[k] = more[n]
            /\ \A k \in DOMAIN now : (\E n \in DOMAIN old : now[k] = old[n]) \/ (\E n \in DOMAIN more : now[k] = more[n])
        <5>1. \A n \in DOMAIN old : n \in DOMAIN now /\ now[n] = old[n]
          BY <3>2, <4>1
        <5>2. \A n \in DOMAIN more : Len(old) + n \in DOMAIN now /\ now[Len(old) + n] = more[n]
          BY <3>2, <4>1
        <5>3. ASSUME NEW k \in DOMAIN now, k \notin DOMAIN old
              PROVE  k - Len(old) \in DOMAIN more /\ now[k] = more[k - Len(old)]
          BY <3>2, <4>1, <5>3
        <5>. QED  BY <5>1, <5>2, <5>3
      <4>4. <<d, id>> \in h.dayJourneys /\ h.journeys[id] = j
        BY <1>1, <1>3, <3>6
      <4>5. ASSUME NEW k \in DOMAIN now
            PROVE  /\ <<d, now[k][1]>> \in h.dayJourneys
                   /\ \E m \in DOMAIN Calls[h.journeys[now[k][1]]][stop] : now[k][2] = Calls[h.journeys[now[k][1]]][stop][m]
        <5>1. CASE \E n \in DOMAIN old : now[k] = old[n]
          BY <3>4, <5>1
        <5>2. CASE \E n \in DOMAIN more : now[k] = more[n]
          BY <4>2, <4>4, <5>2
        <5>. QED  BY <4>3, <5>1, <5>2
      <4>6. ASSUME NEW i \in Ids(h), <<d, i>> \in h.dayJourneys, NEW m \in DOMAIN Calls[h.journeys[i]][stop]
            PROVE  \E n \in DOMAIN now : now[n] = <<i, Calls[h.journeys[i]][stop][m]>>
        <5>1. CASE i = id
          BY <4>2, <4>3, <4>4, <4>6, <5>1
        <5>2. CASE i # id
          <6>1. <<d, i>> \in g.dayJourneys /\ i \in Nat
            BY <1>1, <1>4, <1>10, <4>6, <5>2
          <6>2. i \in Ids(g) /\ h.journeys[i] = g.journeys[i]
            BY <1>1, <1>2, <1>11, <6>1 DEF DayOK, JourneysFit
          <6>3. \E n \in DOMAIN old : old[n] = <<i, Calls[h.journeys[i]][stop][m]>>
            BY <3>1, <4>6, <6>1, <6>2
          <6>. QED  BY <4>3, <6>3
        <5>. QED  BY <5>1, <5>2
      <4>. QED  BY <4>5, <4>6 DEF EntriesFit, now
    <3>. QED  BY <3>5, <3>6
  <2>. QED  BY <2>1, <2>2, <2>3, <2>4 DEF DayOK
<1>. QED  BY <1>1, <1>7, <1>8, <1>9, <1>11

LEMMA Compacted ==
  ASSUME NEW g \in GraphData, NEW keep, keep \subseteq GraphDays, NEW h, h = Compact(g, keep)
  PROVE  /\ h \in GraphData
         /\ h.onDay = g.onDay /\ h.completeDays = g.completeDays /\ h.scanDays = g.scanDays /\ h.cursor = g.cursor
         /\ \A d \in GraphDays : JourneysFit(g, d) /\ (\A stop \in Stops : EntriesFit(g, d, stop))
              => JourneysFit(h, d) /\ (\A stop \in Stops : EntriesFit(h, d, stop))
         /\ \A d \in keep, j \in Journeys : JourneysFit(g, d) /\ InGraph(g, d, j) => InGraph(h, d, j)
         /\ \A key \in h.completeStops : key \in g.completeStops /\ (key[1] \in keep \/ h = g)
<1>1. CASE g.dayJourneys = {}
  <2>1. h = g
    BY <1>1 DEF Compact
  <2>. QED  BY <2>1
<1>2. CASE g.dayJourneys # {}
  <2>. DEFINE active == {id \in Ids(g) : \E d \in keep : <<d, id>> \in g.dayJourneys}
              upto(id) == {i \in active : i <= id}
              new(id) == Cardinality(upto(id))
              below == [id \in active |-> upto(id)]
              N == Cardinality(active)
              pick(n) == CHOOSE id \in active : new(id) = n
              left(k) == IF k[1] \in keep THEN g.departures[k] ELSE <<>>
              moved(k) == [n \in DOMAIN left(k) |-> <<new(left(k)[n][1]), left(k)[n][2]>>]
  <2>1. /\ h.journeys = [n \in 1..N |-> g.journeys[pick(n)]]
        /\ h.dayJourneys = {<<e[1], new(e[2])>> : e \in {e \in g.dayJourneys : e[1] \in keep}}
        /\ h.departures = [k \in Keys |-> moved(k)]
        /\ h.completeStops = {k \in g.completeStops : k[1] \in keep}
        /\ h.onDay = g.onDay /\ h.completeDays = g.completeDays /\ h.scanDays = g.scanDays /\ h.cursor = g.cursor
        /\ h.topology = g.topology /\ h.patterns = g.patterns
    BY <1>2 DEF Compact, GraphData
  <2>2. h = [journeys |-> h.journeys, onDay |-> h.onDay, dayJourneys |-> h.dayJourneys,
              departures |-> h.departures, completeStops |-> h.completeStops,
              completeDays |-> h.completeDays, scanDays |-> h.scanDays, cursor |-> h.cursor,
              topology |-> h.topology, patterns |-> h.patterns]
    BY <1>2 DEF Compact, GraphData
  <2>3. g.journeys \in Seq(Journeys) /\ Ids(g) = 1..Len(g.journeys) /\ Len(g.journeys) \in Nat
    BY DEF GraphData, Ids
  <2>4. IsFiniteSet(active) /\ active \subseteq Nat
    <3>1. IsFiniteSet(1..Len(g.journeys))
      BY <2>3, FS_Interval
    <3>2. active \in SUBSET (1..Len(g.journeys))
      BY <2>3
    <3>. HIDE DEF active
    <3>3. IsFiniteSet(active)
      BY <3>1, <3>2, FS_Subset
    <3>. QED  BY <2>3, <3>2, <3>3
  <2>5. \A id \in Nat : new(id) \in Nat
    BY <2>4, FS_Subset, FS_CardinalityType
  <2>6. /\ N \in Nat /\ \A i \in active : new(i) \in 1..N
        /\ \A i, j \in active : new(i) = new(j) => i = j
        /\ \A n \in 1..N : \E i \in active : new(i) = n
    <3>. HIDE DEF active
    <3>0. \A i \in active : below[i] = upto(i)
      OBVIOUS
    <3>1. below \in [active -> SUBSET active]
      OBVIOUS
    <3>. HIDE DEF below, new, N
    <3>2. \A i, j \in active : i \in below[j] <=> i <= j
      BY <3>0
    <3>. HIDE DEF upto
    <3>a. \A i \in active : i \in below[i]
      BY <2>4, <3>2
    <3>b. \A i, j \in active : i \in below[j] \/ j \in below[i]
      BY <2>4, <3>2
    <3>c. \A i, j \in active : i \in below[j] => below[i] \subseteq below[j]
      <4>. SUFFICES ASSUME NEW i \in active, NEW j \in active, i <= j, NEW k \in active, k \in below[i] PROVE k \in below[j]
        BY <3>1, <3>2
      <4>. QED  BY <2>4, <3>2
    <3>d. \A i, j \in active : i \in below[j] /\ j \in below[i] => i = j
      BY <2>4, <3>2
    <3>3. /\ Cardinality(active) \in Nat
          /\ \A i \in active : Cardinality(below[i]) \in 1..Cardinality(active)
          /\ \A i, j \in active : i \in below[j] /\ i # j => Cardinality(below[i]) < Cardinality(below[j])
          /\ \A n \in 1..Cardinality(active) : \E i \in active : Cardinality(below[i]) = n
      BY <2>4, <3>1, <3>a, <3>b, <3>c, <3>d, Numbering
    <3>4. N = Cardinality(active) /\ \A i \in active : new(i) = Cardinality(below[i])
      BY <3>0 DEF new, N
    <3>5. ASSUME NEW i \in active, NEW j \in active, i # j PROVE new(i) # new(j)
      <4>1. new(i) \in Nat /\ new(j) \in Nat
        BY <2>4, <2>5
      <4>2. new(i) < new(j) \/ new(j) < new(i)
        BY <3>b, <3>3, <3>4, <3>5
      <4>. QED  BY <4>1, <4>2
    <3>. QED  BY <3>3, <3>4, <3>5
  <2>. HIDE DEF upto, new, N
  <2>7. /\ h.journeys \in Seq(Journeys) /\ Ids(h) = 1..N
        /\ \A id \in active : new(id) \in Ids(h) /\ h.journeys[new(id)] = g.journeys[id]
    <3>1. \A n \in 1..N : pick(n) \in active /\ new(pick(n)) = n
      BY <2>6
    <3>. HIDE DEF pick
    <3>2. \A n \in 1..N : g.journeys[pick(n)] \in Journeys
      BY <2>3, <3>1
    <3>3. h.journeys \in Seq(Journeys) /\ Ids(h) = 1..N
      BY <2>1, <2>6, <3>2 DEF Ids
    <3>4. \A id \in active : pick(new(id)) = id
      BY <2>6, <3>1
    <3>. QED  BY <2>1, <2>6, <3>3, <3>4
  <2>8. \A e \in g.dayJourneys : e = <<e[1], e[2]>> /\ e[1] \in GraphDays /\ e[2] \in Nat
    BY DEF GraphData
  <2>9. h.dayJourneys \subseteq GraphDays \X Nat
    BY <2>1, <2>5, <2>8
  <2>10. \A k \in Keys : moved(k) \in Seq(Nat \X Nat)
    <3>. SUFFICES ASSUME NEW k \in Keys PROVE moved(k) \in Seq(Nat \X Nat)
      OBVIOUS
    <3>1. left(k) \in Seq(Nat \X Nat)
      BY DEF GraphData
    <3>. HIDE DEF left
    <3>2. DOMAIN left(k) = 1..Len(left(k)) /\ Len(left(k)) \in Nat
      BY <3>1
    <3>3. \A n \in DOMAIN left(k) : left(k)[n][1] \in Nat /\ left(k)[n][2] \in Nat
      BY <3>1
    <3>4. \A n \in DOMAIN left(k) : <<new(left(k)[n][1]), left(k)[n][2]>> \in Nat \X Nat
      BY <2>5, <3>3
    <3>. QED  BY <3>2, <3>4
  <2>11. h \in GraphData
    <3>1. h.departures \in [Keys -> Seq(Nat \X Nat)]
      BY <2>1, <2>10
    <3>2. /\ h.onDay \subseteq GraphDays \X Nat /\ h.completeStops \in SUBSET Keys /\ h.completeDays \in SUBSET GraphDays
          /\ h.scanDays \in SUBSET GraphDays /\ h.cursor \in 0..NJourneys
          /\ h.topology \in BOOLEAN /\ h.patterns \in Nat \cup {Nil}
      BY <2>1 DEF GraphData
    <3>. QED  BY <2>2, <2>7, <2>9, <3>1, <3>2 DEF GraphData
  <2>12. ASSUME NEW d \in keep, NEW id \in Nat, <<d, id>> \in g.dayJourneys, JourneysFit(g, d)
         PROVE  id \in active /\ <<d, new(id)>> \in h.dayJourneys
    <3>1. id \in active
      BY <2>12 DEF JourneysFit
    <3>2. <<d, id>> \in {e \in g.dayJourneys : e[1] \in keep}
      BY <2>12
    <3>3. <<d, new(id)>> \in {<<e[1], new(e[2])>> : e \in {e \in g.dayJourneys : e[1] \in keep}}
      BY <3>2
    <3>. QED  BY <2>1, <3>1, <3>3
  <2>13. ASSUME NEW d, NEW i, <<d, i>> \in h.dayJourneys
         PROVE  d \in keep /\ \E id \in Nat : <<d, id>> \in g.dayJourneys /\ i = new(id)
    <3>1. PICK e \in g.dayJourneys : e[1] \in keep /\ <<d, i>> = <<e[1], new(e[2])>>
      BY <2>1, <2>13
    <3>. QED  BY <2>8, <3>1
  <2>14. ASSUME NEW d \in GraphDays, JourneysFit(g, d) PROVE JourneysFit(h, d)
    <3>. SUFFICES ASSUME NEW i \in Nat, <<d, i>> \in h.dayJourneys PROVE i \in Ids(h) /\ d \in ServiceDays[h.journeys[i]]
      BY DEF JourneysFit
    <3>1. PICK id \in Nat : <<d, id>> \in g.dayJourneys /\ i = new(id)
      BY <2>13
    <3>2. id \in active /\ d \in ServiceDays[g.journeys[id]]
      BY <2>12, <2>13, <2>14, <3>1 DEF JourneysFit
    <3>. QED  BY <2>7, <3>1, <3>2
  <2>15. ASSUME NEW d \in GraphDays, JourneysFit(g, d), NEW stop \in Stops, EntriesFit(g, d, stop)
         PROVE  EntriesFit(h, d, stop)
    <3>. DEFINE old == g.departures[<<d, stop>>]
                now == h.departures[<<d, stop>>]
    <3>1. /\ \A n \in DOMAIN old : /\ <<d, old[n][1]>> \in g.dayJourneys
                                   /\ \E m \in DOMAIN Calls[g.journeys[old[n][1]]][stop] :
                                        old[n][2] = Calls[g.journeys[old[n][1]]][stop][m]
          /\ \A i \in Ids(g) : <<d, i>> \in g.dayJourneys =>
               \A m \in DOMAIN Calls[g.journeys[i]][stop] :
                 \E n \in DOMAIN old : old[n] = <<i, Calls[g.journeys[i]][stop][m]>>
      BY <2>15 DEF EntriesFit
    <3>2. <<d, stop>> \in Keys /\ old \in Seq(Nat \X Nat) /\ <<d, stop>>[1] = d
      BY DEF Keys, GraphData
    <3>3. now = moved(<<d, stop>>)
      BY <2>1, <3>2
    <3>4. CASE d \notin keep
      <4>1. DOMAIN now = {} /\ \A i : <<d, i>> \notin h.dayJourneys
        BY <2>13, <3>2, <3>3, <3>4
      <4>. HIDE DEF now
      <4>. QED  BY <4>1 DEF EntriesFit, now
    <3>5. CASE d \in keep
      <4>1. left(<<d, stop>>) = old
        BY <3>2, <3>5
      <4>2. DOMAIN now = DOMAIN old /\ \A n \in DOMAIN old : now[n] = <<new(old[n][1]), old[n][2]>>
        BY <3>3, <4>1
      <4>. HIDE DEF old, now
      <4>3. ASSUME NEW n \in DOMAIN now
            PROVE  /\ <<d, now[n][1]>> \in h.dayJourneys
                   /\ \E m \in DOMAIN Calls[h.journeys[now[n][1]]][stop] : now[n][2] = Calls[h.journeys[now[n][1]]][stop][m]
        <5>1. n \in DOMAIN old /\ old[n][1] \in Nat /\ <<d, old[n][1]>> \in g.dayJourneys
          BY <3>1, <3>2, <4>2, <4>3
        <5>2. old[n][1] \in active /\ <<d, new(old[n][1])>> \in h.dayJourneys
          BY <2>12, <2>15, <3>5, <5>1
        <5>3. now[n][1] = new(old[n][1]) /\ now[n][2] = old[n][2] /\ h.journeys[new(old[n][1])] = g.journeys[old[n][1]]
          BY <2>7, <4>2, <5>1, <5>2
        <5>. QED  BY <3>1, <5>1, <5>2, <5>3
      <4>4. ASSUME NEW i \in Ids(h), <<d, i>> \in h.dayJourneys, NEW m \in DOMAIN Calls[h.journeys[i]][stop]
            PROVE  \E n \in DOMAIN now : now[n] = <<i, Calls[h.journeys[i]][stop][m]>>
        <5>1. PICK id \in Nat : <<d, id>> \in g.dayJourneys /\ i = new(id)
          BY <2>13, <4>4
        <5>2. id \in active /\ id \in Ids(g)
          BY <2>12, <2>15, <3>5, <5>1
        <5>3. h.journeys[i] = g.journeys[id]
          BY <2>7, <5>1, <5>2
        <5>4. PICK n \in DOMAIN old : old[n] = <<id, Calls[g.journeys[id]][stop][m]>>
          BY <3>1, <4>4, <5>1, <5>2, <5>3
        <5>. QED  BY <4>2, <5>1, <5>3, <5>4
      <4>. QED  BY <4>3, <4>4 DEF EntriesFit, now
    <3>. QED  BY <3>4, <3>5
  <2>16. ASSUME NEW d \in keep, NEW j \in Journeys, JourneysFit(g, d), InGraph(g, d, j) PROVE InGraph(h, d, j)
    <3>1. PICK id \in Ids(g) : g.journeys[id] = j /\ <<d, id>> \in g.dayJourneys
      BY <2>16 DEF InGraph
    <3>2. id \in active /\ <<d, new(id)>> \in h.dayJourneys
      BY <2>3, <2>12, <2>16, <3>1
    <3>. QED  BY <2>7, <3>1, <3>2 DEF InGraph
  <2>. QED  BY <2>1, <2>11, <2>14, <2>15, <2>16
<1>. QED  BY <1>1, <1>2

\* A day keeps its promises through what does not touch it.
LEMMA DayKept ==
  ASSUME NEW g, NEW h, NEW d \in GraphDays, DayOK(g, d), SameDay(g, h, d), h.onDay \subseteq g.onDay,
         h.completeStops = g.completeStops, h.completeDays = g.completeDays,
         h.scanDays = g.scanDays, h.cursor = g.cursor
  PROVE  DayOK(h, d)
<1>1. /\ JourneysFit(h, d) /\ \A stop \in Stops : EntriesFit(h, d, stop)
      /\ \A j : InGraph(g, d, j) => InGraph(h, d, j)
  BY SameDayFits DEF DayOK
<1>2. DaysFit(h, d)
  BY DEF DayOK, DaysFit, SameDay
<1>3. PromisesKept(h, d)
  <2>1. \A stop \in Stops : <<d, stop>> \in h.completeStops => \A j \in Timetable(d, stop) : InGraph(h, d, j)
    BY <1>1 DEF DayOK, PromisesKept
  <2>2. d \in h.completeDays => /\ \A j \in Journeys : d \in ServiceDays[j] => InGraph(h, d, j)
                                /\ \A stop \in Stops : InOrder(h.departures[<<d, stop>>])
    BY <1>1 DEF DayOK, PromisesKept, SameDay
  <2>3. d \in h.scanDays \ h.completeDays => \A j \in 1..h.cursor : d \in ServiceDays[j] => InGraph(h, d, j)
    BY <1>1 DEF DayOK, PromisesKept
  <2>. QED  BY <2>1, <2>2, <2>3 DEF PromisesKept
<1>. QED  BY <1>1, <1>2, <1>3 DEF DayOK

\* Indexes and topology are beside what a graph answers from, and sealing forgets which journeys of
\* the complete days are there.
LEMMA Routed ==
  ASSUME NEW g \in GraphData
  PROVE  /\ BuildRouting(g) \in GraphData /\ BuildRouting([g EXCEPT !.topology = TRUE]) \in GraphData
         /\ \A h \in {BuildRouting(g), BuildRouting([g EXCEPT !.topology = TRUE])} :
              /\ h.journeys = g.journeys /\ h.onDay = g.onDay /\ h.dayJourneys = g.dayJourneys
              /\ h.departures = g.departures /\ h.completeStops = g.completeStops
              /\ h.completeDays = g.completeDays /\ h.scanDays = g.scanDays /\ h.cursor = g.cursor
<1>1. Len(g.journeys) \in Nat
  BY DEF GraphData
<1>. QED  BY <1>1 DEF BuildRouting, GraphData

LEMMA Sealed ==
  ASSUME NEW g \in GraphData
  PROVE  /\ Seal(g) \in GraphData /\ Seal(g).onDay = {e \in g.onDay : e[1] \notin g.completeDays}
         /\ Seal(g).journeys = g.journeys /\ Seal(g).dayJourneys = g.dayJourneys
         /\ Seal(g).departures = g.departures /\ Seal(g).completeStops = g.completeStops
         /\ Seal(g).completeDays = g.completeDays /\ Seal(g).scanDays = g.scanDays
         /\ Seal(g).cursor = g.cursor
BY DEF Seal, GraphData

LEMMA SortedGraph ==
  ASSUME NEW g \in GraphData, NEW h, h = Sorted(g)
  PROVE  /\ h \in GraphData
         /\ h.journeys = g.journeys /\ h.onDay = g.onDay /\ h.dayJourneys = g.dayJourneys
         /\ h.completeStops = g.completeStops /\ h.completeDays = g.completeDays
         /\ h.scanDays = g.scanDays /\ h.cursor = g.cursor
         /\ \A k \in Keys : InOrder(h.departures[k])
         /\ \A d \in GraphDays, stop \in Stops : EntriesFit(g, d, stop) => EntriesFit(h, d, stop)
<1>1. /\ h.journeys = g.journeys /\ h.onDay = g.onDay /\ h.dayJourneys = g.dayJourneys
      /\ h.completeStops = g.completeStops /\ h.completeDays = g.completeDays
      /\ h.scanDays = g.scanDays /\ h.cursor = g.cursor
      /\ h.departures = [k \in Keys |-> SortBucket(g.departures[k])]
  BY DEF Sorted, GraphData
<1>2. \A k \in Keys : g.departures[k] \in Seq(Nat \X Nat)
  BY DEF GraphData
<1>3. /\ h.departures \in [Keys -> Seq(Nat \X Nat)]
      /\ \A k \in Keys : InOrder(h.departures[k])
      /\ \A k \in Keys : \A n \in DOMAIN h.departures[k] : \E m \in DOMAIN g.departures[k] : h.departures[k][n] = g.departures[k][m]
      /\ \A k \in Keys : \A m \in DOMAIN g.departures[k] : \E n \in DOMAIN h.departures[k] : h.departures[k][n] = g.departures[k][m]
  BY <1>1, <1>2, SortedBucket
<1>4. h \in GraphData
  BY <1>3 DEF Sorted, GraphData
<1>5. ASSUME NEW d \in GraphDays, NEW stop \in Stops, EntriesFit(g, d, stop) PROVE EntriesFit(h, d, stop)
  <2>. DEFINE old == g.departures[<<d, stop>>]
              now == h.departures[<<d, stop>>]
              at == g.journeys
              ids == g.dayJourneys
  <2>1. /\ \A n \in DOMAIN old : /\ <<d, old[n][1]>> \in ids
                                 /\ \E m \in DOMAIN Calls[at[old[n][1]]][stop] :
                                      old[n][2] = Calls[at[old[n][1]]][stop][m]
        /\ \A id \in Ids(g) : <<d, id>> \in ids =>
             \A m \in DOMAIN Calls[at[id]][stop] : \E n \in DOMAIN old : old[n] = <<id, Calls[at[id]][stop][m]>>
    BY <1>5 DEF EntriesFit
  <2>2. <<d, stop>> \in Keys /\ h.journeys = at /\ h.dayJourneys = g.dayJourneys /\ Ids(h) = Ids(g)
    BY <1>1 DEF Keys, Ids
  <2>3. /\ \A n \in DOMAIN now : \E m \in DOMAIN old : now[n] = old[m]
        /\ \A m \in DOMAIN old : \E n \in DOMAIN now : now[n] = old[m]
    BY <1>3, <2>2
  <2>6. h.departures[<<d, stop>>] = now /\ h.dayJourneys = ids /\ h.journeys = at
    BY <2>2
  <2>. HIDE DEF old, at, now, ids
  <2>4. \A n \in DOMAIN now : /\ <<d, now[n][1]>> \in ids
                              /\ \E m \in DOMAIN Calls[at[now[n][1]]][stop] : now[n][2] = Calls[at[now[n][1]]][stop][m]
    BY <2>1, <2>3
  <2>5. \A id \in Ids(g) : <<d, id>> \in ids =>
          \A m \in DOMAIN Calls[at[id]][stop] : \E n \in DOMAIN now : now[n] = <<id, Calls[at[id]][stop][m]>>
    BY <2>1, <2>3
  <2>. QED  BY <2>2, <2>4, <2>5, <2>6 DEF EntriesFit
<1>. QED  BY <1>1, <1>3, <1>4, <1>5

\* A scan that ends over days whose journeys are all there makes them complete; the other days keep
\* their promises unless a compaction finds them in use.
LEMMA ScanCompleted ==
  ASSUME NEW g \in GraphData, NEW dates, dates \subseteq GraphDays, NEW h, h = CompleteScan(Evicted(g, dates))
  PROVE  /\ h \in GraphData /\ h.completeDays = dates /\ h.scanDays = {}
         /\ \A d \in GraphDays :
              /\ DayOK(g, d)
              /\ d \in dates => \A j \in Journeys : d \in ServiceDays[j] => InGraph(g, d, j)
              /\ d \notin dates => \A e \in h.onDay : e[1] # d
              => DayOK(h, d)
<1>. DEFINE a == [g EXCEPT !.completeDays = dates, !.scanDays = {}, !.cursor = 0]
            b == Compact(a, dates)
            c == Sorted(b)
            r == BuildRouting(c)
<1>0. h = Seal(r)
  BY DEF CompleteScan, Evicted
<1>1. /\ a \in GraphData /\ a.journeys = g.journeys /\ a.onDay = g.onDay /\ a.dayJourneys = g.dayJourneys
      /\ a.departures = g.departures /\ a.completeStops = g.completeStops
      /\ a.completeDays = dates /\ a.scanDays = {} /\ a.cursor = 0
  <2>1. 0 \in 0..NJourneys
    BY GraphAssumption
  <2>. QED  BY <2>1 DEF GraphData
<1>. HIDE DEF a
<1>2. /\ b \in GraphData
      /\ b.onDay = a.onDay /\ b.completeDays = a.completeDays /\ b.scanDays = a.scanDays /\ b.cursor = a.cursor
      /\ \A d \in GraphDays : JourneysFit(a, d) /\ (\A stop \in Stops : EntriesFit(a, d, stop))
           => JourneysFit(b, d) /\ (\A stop \in Stops : EntriesFit(b, d, stop))
      /\ \A d \in dates, j \in Journeys : JourneysFit(a, d) /\ InGraph(a, d, j) => InGraph(b, d, j)
      /\ \A key \in b.completeStops : key \in a.completeStops /\ (key[1] \in dates \/ b = a)
  BY <1>1, Compacted
<1>. HIDE DEF b
<1>3. /\ c \in GraphData
      /\ c.journeys = b.journeys /\ c.onDay = b.onDay /\ c.dayJourneys = b.dayJourneys
      /\ c.completeStops = b.completeStops /\ c.completeDays = b.completeDays
      /\ c.scanDays = b.scanDays /\ c.cursor = b.cursor
      /\ \A k \in Keys : InOrder(c.departures[k])
      /\ \A d \in GraphDays, stop \in Stops : EntriesFit(b, d, stop) => EntriesFit(c, d, stop)
  BY <1>2, SortedGraph
<1>. HIDE DEF c
<1>4. /\ r \in GraphData
      /\ r.journeys = c.journeys /\ r.onDay = c.onDay /\ r.dayJourneys = c.dayJourneys
      /\ r.departures = c.departures /\ r.completeStops = c.completeStops
      /\ r.completeDays = c.completeDays /\ r.scanDays = c.scanDays /\ r.cursor = c.cursor
  BY <1>3, Routed
<1>. HIDE DEF r
<1>5. /\ h \in GraphData /\ h.onDay = {e \in r.onDay : e[1] \notin r.completeDays}
      /\ h.journeys = r.journeys /\ h.dayJourneys = r.dayJourneys
      /\ h.departures = r.departures /\ h.completeStops = r.completeStops
      /\ h.completeDays = r.completeDays /\ h.scanDays = r.scanDays /\ h.cursor = r.cursor
  BY <1>0, <1>4, Sealed
<1>6. /\ h.completeDays = dates /\ h.scanDays = {}
      /\ h.onDay = {e \in g.onDay : e[1] \notin dates}
      /\ h.journeys = b.journeys /\ h.dayJourneys = b.dayJourneys /\ h.completeStops = b.completeStops
  BY <1>1, <1>2, <1>3, <1>4, <1>5
<1>7. ASSUME NEW d \in GraphDays, DayOK(g, d),
             d \in dates => \A j \in Journeys : d \in ServiceDays[j] => InGraph(g, d, j),
             d \notin dates => \A e \in h.onDay : e[1] # d
      PROVE  DayOK(h, d)
  <2>1. SameDay(g, a, d) /\ SameDay(c, h, d)
    BY <1>1, <1>4, <1>5 DEF SameDay
  <2>2. /\ JourneysFit(a, d) /\ \A stop \in Stops : EntriesFit(a, d, stop)
        /\ \A j : InGraph(g, d, j) => InGraph(a, d, j)
    BY <1>7, <2>1, SameDayFits DEF DayOK
  <2>3. JourneysFit(b, d) /\ \A stop \in Stops : EntriesFit(b, d, stop)
    BY <1>2, <2>2
  <2>4. JourneysFit(h, d)
    BY <1>6, <2>3 DEF JourneysFit, Ids
  <2>5. \A stop \in Stops : EntriesFit(h, d, stop)
    BY <1>3, <2>1, <2>3, SameDayFits
  <2>6. DaysFit(h, d)
    <3>1. \A id : <<d, id>> \notin h.onDay
      <4>1. \A id : <<d, id>>[1] = d
        OBVIOUS
      <4>. QED  BY <1>6, <1>7, <4>1
    <3>. QED  BY <3>1 DEF DaysFit
  <2>7. \A j : InGraph(b, d, j) => InGraph(h, d, j)
    BY <1>6 DEF InGraph, Ids
  <2>8. \A j \in Journeys : d \in dates /\ d \in ServiceDays[j] => InGraph(h, d, j)
    BY <1>2, <1>7, <2>2, <2>7
  <2>9. ASSUME NEW stop \in Stops, <<d, stop>> \in h.completeStops, NEW j \in Timetable(d, stop) PROVE InGraph(h, d, j)
    <3>1. j \in Journeys /\ d \in ServiceDays[j]
      BY DEF Timetable
    <3>2. CASE d \in dates
      BY <2>8, <3>1, <3>2
    <3>3. CASE d \notin dates
      <4>1. <<d, stop>> \in b.completeStops /\ <<d, stop>>[1] = d
        BY <1>6, <2>9
      <4>2. <<d, stop>> \in g.completeStops /\ b = a
        BY <1>1, <1>2, <3>3, <4>1
      <4>3. InGraph(g, d, j)
        BY <1>7, <4>2 DEF DayOK, PromisesKept
      <4>. QED  BY <2>2, <2>7, <4>2, <4>3
    <3>. QED  BY <3>2, <3>3
  <2>10. \A stop \in Stops : InOrder(h.departures[<<d, stop>>])
    BY <1>3, <1>4, <1>5 DEF Keys
  <2>11. PromisesKept(h, d)
    BY <1>6, <2>8, <2>9, <2>10 DEF PromisesKept
  <2>. QED  BY <2>4, <2>5, <2>6, <2>11 DEF DayOK
<1>. QED  BY <1>5, <1>6, <1>7

-----------------------------------------------------------------------------
(* Requests, and the fill worker. *)

LEMMA Windows ==
  /\ \A day : Window(day) \subseteq GraphDays
  /\ NJourneys \in Nat /\ Journeys = 1..NJourneys /\ 0 \in GraphDays /\ 0 \in 0..NJourneys
  /\ \A k \in Keys : k = <<k[1], k[2]>> /\ k[1] \in GraphDays /\ k[2] \in Stops
<1>1. LastDay \in Nat /\ NJourneys \in Nat
  BY GraphAssumption
<1>. QED  BY <1>1 DEF Window, Journeys, GraphDays, Keys

LEMMA RequestSteps ==
  ASSUME GraphInv, NEW key \in Asked, Ask(key) \/ Loaded(key) \/ LoadFails(key)
  PROVE  GraphInv'
<1>. USE DEF GraphInv
<1>1. UNCHANGED <<graph, today, builder, filler, saver, file, hasComplete, dirty, spoiled>>
  BY DEF Ask, Loaded, LoadFails
<1>2. GraphTypeOK'
  <2>1. key \in Keys
    BY GraphAssumption DEF Keys, GraphDays
  <2>2. flights' \subseteq Keys /\ pending' \subseteq Keys /\ queue' \in Seq(Keys)
    <3>1. flights' \in {flights \cup {key}, flights \ {key}} /\ pending' \in {pending, pending \cup {key}}
      BY DEF Ask, Loaded, LoadFails
    <3>2. queue' = queue \/ queue' = Append(queue, key)
      BY DEF Ask, Loaded, LoadFails
    <3>. QED  BY <2>1, <3>1, <3>2 DEF GraphTypeOK
  <2>3. faults' \in 0..MaxFaults
    <3>1. faults' = faults \/ (faults > 0 /\ faults' = faults - 1)
      BY DEF Ask, Loaded, LoadFails
    <3>2. faults \in 0..MaxFaults /\ MaxFaults \in Nat
      BY GraphAssumption DEF GraphTypeOK
    <3>. QED  BY <3>1, <3>2
  <2>. QED  BY <1>1, <2>2, <2>3 DEF GraphTypeOK
<1>3. BuilderOK' /\ FillerOK'
  BY <1>1 DEF BuilderOK, FillerOK, Missing
<1>4. ASSUME NEW d \in GraphDays \ spoiled PROVE DayOK(graph', d) /\ StoredOK(d)'
  BY <1>1 DEF StoredOK
<1>. QED  BY <1>1, <1>2, <1>3, <1>4

LEMMA FillSteps ==
  ASSUME GraphInv, TakeFill \/ AddFill \/ MarkStop
  PROVE  GraphInv'
<1>. USE DEF GraphInv
<1>1. CASE TakeFill
  <2>1. /\ queue # <<>> /\ filler = Nil /\ queue' = Tail(queue)
        /\ \/ pending' = pending \ {Head(queue)} /\ filler' = filler
           \/ /\ ~StopComplete(graph, Head(queue)) /\ pending' = pending
              /\ filler' = [key |-> Head(queue), next |-> 1]
        /\ UNCHANGED <<graph, today, builder, flights, saver, file, hasComplete, dirty, faults, spoiled>>
    BY <1>1 DEF TakeFill
  <2>2. Head(queue) \in Keys /\ queue' \in Seq(Keys) /\ 1 \in 1..(NJourneys + 1)
    BY <2>1, Windows DEF GraphTypeOK
  <2>3. GraphTypeOK'
    BY <2>1, <2>2 DEF GraphTypeOK
  <2>4. BuilderOK'
    BY <2>1 DEF BuilderOK, Missing
  <2>5. FillerOK'
    <3>1. \A j \in Timetable(Head(queue)[1], Head(queue)[2]) : ~(j < 1)
      BY Windows DEF Timetable
    <3>. QED  BY <2>1, <3>1 DEF FillerOK, StopComplete
  <2>6. ASSUME NEW d \in GraphDays \ spoiled PROVE DayOK(graph', d) /\ StoredOK(d)'
    BY <2>1 DEF StoredOK
  <2>. QED  BY <2>1, <2>3, <2>4, <2>5, <2>6
<1>2. CASE AddFill
  <2>. DEFINE d == filler.key[1]
              j == Min(ToFill)
  <2>1. /\ filler # Nil /\ ToFill # {} /\ graph' = AddJourney(graph, {d}, j)
        /\ filler' = [filler EXCEPT !.next = j + 1]
        /\ UNCHANGED <<today, builder, flights, pending, queue, saver, file, hasComplete, dirty, faults, spoiled>>
    BY <1>2 DEF AddFill
  <2>2. /\ filler \in [key: Keys, next: 1..(NJourneys + 1)] /\ filler.key \in Keys /\ d \in GraphDays
        /\ filler.next \in Nat /\ graph \in GraphData
    BY <2>1, Windows DEF GraphTypeOK
  <2>3. j \in ToFill /\ \A i \in ToFill : j <= i
    <3>1. ToFill \subseteq Nat
      BY Windows DEF ToFill, Timetable
    <3>. QED  BY <2>1, <3>1, Least
  <2>4. j \in Journeys /\ j \in Nat /\ j + 1 \in 1..(NJourneys + 1) /\ d \in ServiceDays[j]
    BY <2>3, Windows DEF ToFill, Timetable
  <2>. HIDE DEF j
  <2>5. /\ graph' \in GraphData /\ graph'.completeDays = graph.completeDays /\ graph'.scanDays = graph.scanDays
        /\ graph'.cursor = graph.cursor
        /\ \A e \in GraphDays, i \in Journeys : InGraph(graph, e, i) => InGraph(graph', e, i)
        /\ DaysFit(graph, d) => InGraph(graph', d, j)
        /\ \A e \in GraphDays : DayOK(graph, e) /\ (e = d => e \notin graph.completeDays) => DayOK(graph', e)
    BY <2>1, <2>2, <2>4, JourneyAdded
  <2>6. GraphTypeOK'
    BY <2>1, <2>2, <2>4, <2>5 DEF GraphTypeOK
  <2>7. BuilderOK'
    BY <2>1, <2>5, Windows DEF BuilderOK, Missing
  <2>8. filler'.key = filler.key /\ filler'.next = j + 1
    BY <2>1, <2>2
  <2>9. FillerOK'
    <3>. SUFFICES ASSUME d \notin spoiled
                  PROVE  /\ d \notin graph'.completeDays
                         /\ \A i \in Timetable(d, filler.key[2]) : i < j + 1 => InGraph(graph', d, i)
      BY <2>1, <2>8 DEF FillerOK
    <3>1. d \notin graph'.completeDays
      BY <2>1, <2>5 DEF FillerOK
    <3>2. ASSUME NEW i \in Timetable(d, filler.key[2]), i < j + 1 PROVE InGraph(graph', d, i)
      <4>1. i \in Journeys /\ i \in Nat
        BY Windows DEF Timetable
      <4>2. CASE i < filler.next
        BY <2>1, <2>2, <2>5, <4>1, <4>2 DEF FillerOK
      <4>3. CASE i >= filler.next
        <5>1. i = j
          BY <2>3, <2>4, <3>2, <4>1, <4>3 DEF ToFill
        <5>2. DaysFit(graph, d)
          BY <2>2 DEF DayOK
        <5>. QED  BY <2>5, <5>1, <5>2
      <4>. QED  BY <2>2, <4>1, <4>2, <4>3
    <3>. QED  BY <3>1, <3>2
  <2>10. ASSUME NEW e \in GraphDays \ spoiled PROVE DayOK(graph', e) /\ StoredOK(e)'
    BY <2>1, <2>5 DEF FillerOK, StoredOK
  <2>. QED  BY <2>1, <2>6, <2>7, <2>9, <2>10
<1>3. CASE MarkStop
  <2>1. /\ filler # Nil /\ ToFill = {} /\ graph' = [graph EXCEPT !.completeStops = @ \cup {filler.key}]
        /\ dirty' = TRUE /\ saver' = [saver EXCEPT !.fresh = FALSE]
        /\ pending' = pending \ {filler.key} /\ filler' = Nil
        /\ UNCHANGED <<today, builder, flights, queue, file, hasComplete, faults, spoiled>>
    BY <1>3 DEF MarkStop
  <2>2. filler.key \in Keys /\ graph \in GraphData /\ filler.next \in Nat
    BY <2>1, Windows DEF GraphTypeOK
  <2>3. /\ graph'.journeys = graph.journeys /\ graph'.onDay = graph.onDay
        /\ graph'.dayJourneys = graph.dayJourneys /\ graph'.departures = graph.departures
        /\ graph'.completeStops = graph.completeStops \cup {filler.key}
        /\ graph'.completeDays = graph.completeDays /\ graph'.scanDays = graph.scanDays
        /\ graph'.cursor = graph.cursor /\ graph' \in GraphData
    BY <2>1, <2>2 DEF GraphData
  <2>4. saver'.at = saver.at /\ saver'.data = saver.data
    BY <2>1 DEF GraphTypeOK
  <2>5. GraphTypeOK'
    BY <2>1, <2>3 DEF GraphTypeOK
  <2>6. \A d : SameDay(graph, graph', d)
    BY <2>3 DEF SameDay
  <2>7. \A d, j : InGraph(graph, d, j) => InGraph(graph', d, j)
    BY <2>6, SameDayFits
  <2>8. BuilderOK'
    BY <2>1, <2>3, <2>7 DEF BuilderOK, Missing
  <2>9. ASSUME NEW d \in GraphDays \ spoiled PROVE DayOK(graph', d)
    <3>1. JourneysFit(graph', d) /\ \A stop \in Stops : EntriesFit(graph', d, stop)
      BY <2>6, SameDayFits DEF DayOK
    <3>2. DaysFit(graph', d)
      BY <2>3 DEF DayOK, DaysFit
    <3>3. ASSUME NEW stop \in Stops, <<d, stop>> \in graph'.completeStops, NEW j \in Timetable(d, stop)
          PROVE  InGraph(graph', d, j)
      <4>1. CASE <<d, stop>> \in graph.completeStops
        BY <2>7, <4>1 DEF DayOK, PromisesKept
      <4>2. CASE <<d, stop>> = filler.key
        <5>1. j \notin ToFill /\ filler.key[1] = d /\ filler.key[2] = stop /\ j \in Nat
          BY <2>1, <4>2, Windows DEF Timetable
        <5>2. j < filler.next
          BY <2>2, <5>1 DEF ToFill
        <5>. QED  BY <2>1, <2>7, <5>1, <5>2 DEF FillerOK
      <4>. QED  BY <2>3, <3>3, <4>1, <4>2
    <3>4. PromisesKept(graph', d)
      BY <2>3, <2>7, <3>3 DEF DayOK, PromisesKept
    <3>. QED  BY <3>1, <3>2, <3>4 DEF DayOK
  <2>10. ASSUME NEW d \in GraphDays \ spoiled PROVE StoredOK(d)'
    BY <2>1, <2>4 DEF StoredOK
  <2>. QED  BY <2>1, <2>4, <2>5, <2>8, <2>9, <2>10 DEF FillerOK
<1>. QED  BY <1>1, <1>2, <1>3

-----------------------------------------------------------------------------
(* The background scan. *)

\* Steps that leave every graph as it is.
LEMMA QuietSteps ==
  ASSUME GraphInv, BeginRebuild \/ (\E by \in {"ticker", "builder"} : StartSave(by)) \/ Skip \/ NextDay
  PROVE  GraphInv'
<1>. USE DEF GraphInv
<1>1. UNCHANGED <<graph, file, filler, spoiled, flights, pending, queue, hasComplete, faults>>
  BY DEF BeginRebuild, StartSave, Skip, NextDay
<1>2. GraphTypeOK' /\ (saver'.at = "write" => saver.at = "write" /\ saver'.data = saver.data)
  <2>1. CASE BeginRebuild
    BY <1>1, <2>1, Windows DEF BeginRebuild, GraphTypeOK, Idle
  <2>2. CASE \E by \in {"ticker", "builder"} : StartSave(by)
    BY <1>1, <2>2 DEF StartSave, GraphTypeOK, SnapshotComplete, GraphData
  <2>3. CASE Skip
    BY <1>1, <2>3, Windows DEF Skip, GraphTypeOK, Idle
  <2>4. CASE NextDay
    <3>1. today' \in GraphDays
      BY <2>4, GraphAssumption DEF NextDay, GraphTypeOK, GraphDays
    <3>. QED  BY <1>1, <2>4, <3>1 DEF NextDay, GraphTypeOK
  <2>. QED  BY <2>1, <2>2, <2>3, <2>4
<1>3. BuilderOK'
  <2>1. builder' = builder \/ builder'.at \in {"progress", "wait"}
    <3>1. BeginRebuild => builder'.at = "progress"
      BY DEF BeginRebuild, Idle
    <3>2. Skip => builder'.at = "wait"
      BY DEF Skip, Idle
    <3>3. (\E by \in {"ticker", "builder"} : StartSave(by)) \/ NextDay => builder' = builder
      BY DEF StartSave, NextDay
    <3>. QED  BY <3>1, <3>2, <3>3
  <2>. QED  BY <1>1, <2>1 DEF BuilderOK, Missing
<1>4. FillerOK' /\ \A d \in GraphDays \ spoiled' : DayOK(graph', d) /\ StoredOK(d)'
  BY <1>1, <1>2 DEF FillerOK, StoredOK
<1>. QED  BY <1>1, <1>2, <1>3, <1>4

\* Steps that change what is recorded of a scan and nothing else of the graph.
LEMMA RecordSteps ==
  ASSUME GraphInv, SetProgress \/ BuildFails \/ EndScan
  PROVE  GraphInv'
<1>. USE DEF GraphInv
<1>. DEFINE cursor == graph'.cursor
            days == graph'.scanDays
<1>1. /\ UNCHANGED <<today, flights, pending, queue, filler, saver, file, hasComplete, dirty, spoiled>>
      /\ graph \in GraphData /\ graph' = [graph EXCEPT !.scanDays = days, !.cursor = cursor]
      /\ days = Window(builder.day) /\ cursor \in 0..NJourneys
      /\ builder'.day = builder.day
  <2>1. CASE SetProgress
    BY <2>1, Windows DEF SetProgress, GraphTypeOK, GraphData
  <2>2. CASE BuildFails \/ EndScan
    <3>1. builder.at \in {"topology", "scan"} /\ graph' = [graph EXCEPT !.cursor = builder.cursor]
      BY <2>2 DEF BuildFails, EndScan
    <3>2. days = graph.scanDays /\ cursor = builder.cursor
      BY <3>1 DEF GraphTypeOK, GraphData
    <3>. QED  BY <2>2, <3>1, <3>2 DEF BuildFails, EndScan, GraphTypeOK, GraphData, BuilderOK
  <2>. QED  BY <2>1, <2>2
<1>. HIDE DEF cursor, days
<1>2. /\ graph'.journeys = graph.journeys /\ graph'.onDay = graph.onDay
      /\ graph'.dayJourneys = graph.dayJourneys /\ graph'.departures = graph.departures
      /\ graph'.completeStops = graph.completeStops /\ graph'.completeDays = graph.completeDays
      /\ graph'.scanDays = days /\ graph'.cursor = cursor /\ graph' \in GraphData
  BY <1>1, Windows DEF GraphData
<1>3. GraphTypeOK'
  <2>1. /\ builder' \in [at: {"wait", "progress", "topology", "scan", "complete", "save"}, day: GraphDays,
                         cursor: 0..NJourneys, seen: Nat]
    <3>1. CASE SetProgress
      <4>1. builder' = [builder EXCEPT !.at = IF graph.topology THEN "scan" ELSE "topology", !.cursor = cursor]
        <5>1. PICK c :
                /\ graph' = [graph EXCEPT !.scanDays = Window(builder.day), !.cursor = c]
                /\ builder' = [builder EXCEPT !.at = IF graph.topology THEN "scan" ELSE "topology", !.cursor = c]
          BY <3>1 DEF SetProgress
        <5>2. graph'.cursor = c
          BY <5>1 DEF GraphTypeOK, GraphData
        <5>. QED  BY <5>1, <5>2 DEF cursor
      <4>. QED  BY <1>1, <4>1 DEF GraphTypeOK
    <3>2. CASE BuildFails \/ EndScan
      <4>1. builder' \in {[builder EXCEPT !.at = "save"], [builder EXCEPT !.at = "complete"]}
        BY <3>2 DEF BuildFails, EndScan
      <4>. QED  BY <4>1 DEF GraphTypeOK
    <3>. QED  BY <3>1, <3>2
  <2>2. faults' \in 0..MaxFaults
    <3>1. faults' = faults \/ (faults > 0 /\ faults' = faults - 1)
      BY DEF SetProgress, BuildFails, EndScan
    <3>2. faults \in 0..MaxFaults /\ MaxFaults \in Nat
      BY GraphAssumption DEF GraphTypeOK
    <3>. QED  BY <3>1, <3>2
  <2>. QED  BY <1>1, <1>2, <2>1, <2>2 DEF GraphTypeOK
<1>4. \A d : SameDay(graph, graph', d)
  BY <1>2 DEF SameDay
<1>5. \A d, j : InGraph(graph, d, j) <=> InGraph(graph', d, j)
  BY <1>2 DEF InGraph, Ids
\* What is recorded has been passed.
<1>6. ASSUME NEW d \in (Window(builder.day) \ graph.completeDays) \ spoiled, NEW j \in 1..cursor, d \in ServiceDays[j]
      PROVE  InGraph(graph, d, j)
  <2>0. j \in Journeys /\ d \in GraphDays /\ j \in Nat
    BY <1>1, Windows
  <2>1. CASE SetProgress
    <3>1. cursor = IF graph.scanDays = Window(builder.day) THEN graph.cursor ELSE 0
      BY <2>1 DEF SetProgress, cursor, GraphTypeOK, GraphData
    <3>2. graph.scanDays = Window(builder.day) /\ j \in 1..graph.cursor
      BY <1>6, <3>1
    <3>. QED  BY <1>6, <2>0, <3>2 DEF DayOK, PromisesKept
  <2>2. CASE BuildFails \/ EndScan
    <3>1. builder.at \in {"topology", "scan"} /\ cursor = builder.cursor
      BY <2>2 DEF BuildFails, EndScan, cursor, GraphTypeOK, GraphData
    <3>2. j <= builder.cursor
      BY <1>1, <3>1
    <3>. QED  BY <1>6, <2>0, <3>1, <3>2 DEF BuilderOK, Missing
  <2>. QED  BY <2>1, <2>2
<1>7. ASSUME NEW d \in GraphDays \ spoiled PROVE DayOK(graph', d)
  <2>1. JourneysFit(graph', d) /\ \A stop \in Stops : EntriesFit(graph', d, stop)
    BY <1>4, SameDayFits DEF DayOK
  <2>2. DaysFit(graph', d)
    BY <1>2 DEF DayOK, DaysFit
  <2>3. d \in graph'.scanDays \ graph'.completeDays =>
          \A j \in 1..graph'.cursor : d \in ServiceDays[j] => InGraph(graph', d, j)
    BY <1>1, <1>2, <1>5, <1>6
  <2>4. PromisesKept(graph', d)
    BY <1>2, <1>5, <2>3 DEF DayOK, PromisesKept
  <2>. QED  BY <2>1, <2>2, <2>4 DEF DayOK
<1>8. BuilderOK'
  <2>1. Missing(graph', builder'.day)  = Window(builder.day) \ graph.completeDays
    BY <1>1, <1>2 DEF Missing
  <2>. SUFFICES ASSUME builder'.at \in {"topology", "scan", "complete"},
                       NEW d \in (Window(builder.day) \ graph.completeDays) \ spoiled, NEW j \in Journeys,
                       d \in ServiceDays[j], j <= builder'.cursor \/ builder'.at = "complete"
                PROVE  InGraph(graph', d, j)
    BY <1>1, <1>2, <2>1 DEF BuilderOK
  <2>2. j \in Nat /\ j >= 1
    BY Windows
  <2>3. CASE SetProgress
    <3>1. builder'.cursor = cursor /\ builder'.at \in {"scan", "topology"}
      BY <1>2, <2>3 DEF SetProgress, GraphTypeOK, GraphData
    <3>2. j \in 1..cursor
      BY <1>1, <2>2, <3>1
    <3>. QED  BY <1>5, <1>6, <3>2
  <2>4. CASE BuildFails
    BY <2>4 DEF BuildFails, GraphTypeOK
  <2>5. CASE EndScan
    <3>1. builder.at = "scan" /\ ToVisit = {} /\ builder.cursor \in Nat
      BY <2>5, Windows DEF EndScan, GraphTypeOK
    <3>2. d \in ServiceDays[j] \cap Missing(graph, builder.day)
      BY DEF Missing
    <3>3. j <= builder.cursor
      BY <2>2, <3>1, <3>2 DEF ToVisit
    <3>4. InGraph(graph, d, j)
      BY <3>1, <3>2, <3>3 DEF BuilderOK, Missing
    <3>. QED  BY <1>5, <3>4
  <2>. QED  BY <2>3, <2>4, <2>5
<1>9. FillerOK' /\ \A d \in GraphDays \ spoiled : StoredOK(d)'
  BY <1>1, <1>2, <1>5 DEF FillerOK, StoredOK
<1>. QED  BY <1>1, <1>3, <1>7, <1>8, <1>9

LEMMA TopologyStep ==
  ASSUME GraphInv, LoadTopology
  PROVE  GraphInv'
<1>. USE DEF GraphInv
<1>. DEFINE r == BuildRouting([graph EXCEPT !.topology = TRUE])
<1>1. /\ builder.at = "topology" /\ graph' = Seal(r) /\ builder' = [builder EXCEPT !.at = "scan"]
      /\ UNCHANGED <<today, flights, pending, queue, filler, saver, file, hasComplete, dirty, faults, spoiled>>
  BY DEF LoadTopology
<1>2. /\ graph \in GraphData /\ r \in GraphData /\ r.onDay = graph.onDay
      /\ r.journeys = graph.journeys /\ r.dayJourneys = graph.dayJourneys /\ r.departures = graph.departures
      /\ r.completeStops = graph.completeStops /\ r.completeDays = graph.completeDays
      /\ r.scanDays = graph.scanDays /\ r.cursor = graph.cursor
  BY Routed DEF GraphTypeOK
<1>. HIDE DEF r
<1>3. /\ graph' \in GraphData /\ graph'.onDay \subseteq graph.onDay
      /\ graph'.journeys = graph.journeys /\ graph'.dayJourneys = graph.dayJourneys
      /\ graph'.departures = graph.departures
      /\ graph'.completeStops = graph.completeStops /\ graph'.completeDays = graph.completeDays
      /\ graph'.scanDays = graph.scanDays /\ graph'.cursor = graph.cursor
  BY <1>1, <1>2, Sealed
<1>4. GraphTypeOK'
  BY <1>1, <1>3 DEF GraphTypeOK
<1>5. \A d : SameDay(graph, graph', d)
  BY <1>3 DEF SameDay
<1>6. \A d, j : InGraph(graph, d, j) => InGraph(graph', d, j)
  BY <1>5, SameDayFits
<1>7. \A d \in GraphDays \ spoiled : DayOK(graph', d)
  BY <1>3, <1>5, DayKept
<1>8. builder'.at = "scan" /\ builder'.day = builder.day /\ builder'.cursor = builder.cursor
  BY <1>1 DEF GraphTypeOK
<1>9. BuilderOK'
  BY <1>1, <1>3, <1>6, <1>8 DEF BuilderOK, Missing
<1>10. FillerOK' /\ \A d \in GraphDays \ spoiled : StoredOK(d)'
  BY <1>1, <1>3, <1>6 DEF FillerOK, StoredOK
<1>. QED  BY <1>1, <1>4, <1>7, <1>9, <1>10

LEMMA VisitStep ==
  ASSUME GraphInv, Visit
  PROVE  GraphInv'
<1>. USE DEF GraphInv
<1>. DEFINE j == Min(ToVisit)
            missing == Missing(graph, builder.day)
            g == AddJourney(graph, missing \cap ServiceDays[j], j)
<1>1. /\ builder.at = "scan" /\ ToVisit # {} /\ (graph' = [g EXCEPT !.cursor = j] \/ graph' = g)
      /\ builder' = [builder EXCEPT !.cursor = j, !.seen = builder.seen + 1]
      /\ UNCHANGED <<today, flights, pending, queue, filler, saver, file, hasComplete, dirty, faults, spoiled>>
  BY DEF Visit
<1>2. j \in ToVisit /\ \A i \in ToVisit : j <= i
  <2>1. ToVisit \subseteq Nat
    BY Windows DEF ToVisit
  <2>. QED  BY <1>1, <2>1, Least
<1>. HIDE DEF j
<1>3. j \in Journeys /\ j \in Nat /\ j \in 0..NJourneys /\ j > builder.cursor
  BY <1>2, Windows DEF ToVisit
<1>4. missing \subseteq GraphDays /\ graph \in GraphData /\ builder.cursor \in Nat /\ builder.day \in GraphDays
  BY Windows DEF Missing, GraphTypeOK
<1>5. missing \cap graph.completeDays = {} /\ graph.scanDays = Window(builder.day)
  BY <1>1 DEF Missing, BuilderOK
<1>6. /\ g \in GraphData /\ g.completeStops = graph.completeStops /\ g.completeDays = graph.completeDays
      /\ g.scanDays = graph.scanDays /\ g.cursor = graph.cursor
      /\ \A d \in GraphDays, i \in Journeys : InGraph(graph, d, i) => InGraph(g, d, i)
      /\ \A d \in missing \cap ServiceDays[j] : DaysFit(graph, d) => InGraph(g, d, j)
      /\ \A d \in GraphDays : DayOK(graph, d) /\ (d \in missing \cap ServiceDays[j] => d \notin graph.completeDays) => DayOK(g, d)
  <2>. DEFINE days == missing \cap ServiceDays[j]
  <2>1. days \subseteq GraphDays /\ days \subseteq ServiceDays[j] /\ g = AddJourney(graph, days, j)
    BY <1>4
  <2>. HIDE DEF days, g
  <2>2. /\ g \in GraphData /\ g.completeStops = graph.completeStops /\ g.completeDays = graph.completeDays
        /\ g.scanDays = graph.scanDays /\ g.cursor = graph.cursor
        /\ \A d \in GraphDays, i \in Journeys : InGraph(graph, d, i) => InGraph(g, d, i)
        /\ \A d \in days : DaysFit(graph, d) => InGraph(g, d, j)
        /\ \A d \in GraphDays : DayOK(graph, d) /\ (d \in days => d \notin graph.completeDays) => DayOK(g, d)
    BY <1>3, <1>4, <2>1, JourneyAdded
  <2>. QED  BY <2>2 DEF days
<1>. HIDE DEF g
\* What the scan has passed: the journeys up to the one before, those between that do not run on a
\* missing day, and this one.
<1>7. ASSUME NEW d \in missing \ spoiled, NEW i \in Journeys, d \in ServiceDays[i], i <= j PROVE InGraph(g, d, i)
  <2>1. d \in GraphDays /\ i \in Nat
    BY <1>4, Windows
  <2>2. CASE i <= builder.cursor
    BY <1>1, <1>6, <1>7, <2>1, <2>2 DEF BuilderOK
  <2>3. CASE i > builder.cursor
    <3>1. i \in ToVisit
      BY <1>7, <2>3 DEF ToVisit
    <3>2. i = j
      BY <1>2, <1>3, <1>7, <2>1, <3>1
    <3>. QED  BY <1>6, <1>7, <2>1, <3>2 DEF DayOK
  <2>. QED  BY <1>4, <2>1, <2>2, <2>3
<1>8. /\ graph'.journeys = g.journeys /\ graph'.onDay = g.onDay
      /\ graph'.dayJourneys = g.dayJourneys /\ graph'.departures = g.departures
      /\ graph'.completeStops = g.completeStops /\ graph'.completeDays = g.completeDays
      /\ graph'.scanDays = g.scanDays /\ graph'.cursor \in {g.cursor, j} /\ graph' \in GraphData
  BY <1>1, <1>3, <1>6 DEF GraphData
<1>9. \A d : SameDay(g, graph', d)
  BY <1>8 DEF SameDay
<1>10. \A d, i : InGraph(g, d, i) => InGraph(graph', d, i)
  BY <1>9, SameDayFits
<1>11. ASSUME NEW d \in GraphDays \ spoiled PROVE DayOK(graph', d)
  <2>1. DayOK(g, d)
    BY <1>5, <1>6
  <2>2. JourneysFit(graph', d) /\ \A stop \in Stops : EntriesFit(graph', d, stop)
    BY <1>9, <2>1, SameDayFits DEF DayOK
  <2>3. DaysFit(graph', d)
    BY <1>8, <2>1 DEF DayOK, DaysFit
  <2>4. ASSUME d \in graph'.scanDays \ graph'.completeDays, NEW i \in 1..graph'.cursor, d \in ServiceDays[i]
        PROVE  InGraph(g, d, i)
    <3>1. CASE graph'.cursor = g.cursor
      BY <1>8, <2>1, <2>4, <3>1 DEF DayOK, PromisesKept
    <3>2. CASE graph'.cursor = j
      <4>1. i \in Journeys /\ i <= j
        BY <1>3, <2>4, <3>2, Windows
      <4>2. d \in missing
        BY <1>5, <1>6, <1>8, <2>4 DEF Missing
      <4>. QED  BY <1>7, <2>4, <4>1, <4>2
    <3>. QED  BY <1>8, <3>1, <3>2
  <2>5. PromisesKept(graph', d)
    BY <1>8, <1>10, <2>1, <2>4 DEF DayOK, PromisesKept
  <2>. QED  BY <2>2, <2>3, <2>5 DEF DayOK
<1>12. builder'.at = "scan" /\ builder'.day = builder.day /\ builder'.cursor = j
  BY <1>1 DEF GraphTypeOK
<1>13. GraphTypeOK'
  <2>1. builder' \in [at: {"wait", "progress", "topology", "scan", "complete", "save"}, day: GraphDays,
                      cursor: 0..NJourneys, seen: Nat]
    <3>1. builder.seen + 1 \in Nat
      BY DEF GraphTypeOK
    <3>. QED  BY <1>1, <1>3, <3>1 DEF GraphTypeOK
  <2>. QED  BY <1>1, <1>8, <2>1 DEF GraphTypeOK
<1>14. BuilderOK'
  <2>1. Missing(graph', builder'.day) = missing
    BY <1>6, <1>8, <1>12 DEF Missing
  <2>. HIDE DEF missing
  <2>. QED  BY <1>1, <1>5, <1>6, <1>7, <1>8, <1>10, <1>12, <2>1 DEF BuilderOK
<1>15. FillerOK'
  <2>1. filler # Nil => filler.key[1] \in GraphDays
    BY Windows DEF GraphTypeOK
  <2>2. \A d, stop : \A i \in Timetable(d, stop) : i \in Journeys
    BY DEF Timetable
  <2>. QED  BY <1>1, <1>6, <1>8, <1>10, <2>1, <2>2 DEF FillerOK
<1>16. \A d \in GraphDays \ spoiled : StoredOK(d)'
  BY <1>1 DEF StoredOK
<1>. QED  BY <1>1, <1>11, <1>13, <1>14, <1>15, <1>16

LEMMA CompleteStep ==
  ASSUME GraphInv, CompleteRolling
  PROVE  GraphInv'
<1>. USE DEF GraphInv
<1>. DEFINE dates == Window(builder.day)
<1>1. /\ builder.at = "complete" /\ graph' = CompleteScan(Evicted(graph, dates))
      /\ spoiled' = spoiled \cup InUse(graph') /\ builder' = [builder EXCEPT !.at = "save"]
      /\ UNCHANGED <<today, flights, pending, queue, filler, saver, file, hasComplete, dirty, faults>>
  BY DEF CompleteRolling
<1>2. dates \subseteq GraphDays /\ graph \in GraphData
  BY Windows DEF GraphTypeOK
<1>. HIDE DEF dates
<1>3. /\ graph' \in GraphData /\ graph'.completeDays = dates /\ graph'.scanDays = {}
      /\ \A d \in GraphDays :
           /\ DayOK(graph, d)
           /\ d \in dates => \A j \in Journeys : d \in ServiceDays[j] => InGraph(graph, d, j)
           /\ d \notin dates => \A e \in graph'.onDay : e[1] # d
           => DayOK(graph', d)
  BY <1>1, <1>2, ScanCompleted
<1>4. spoiled \subseteq spoiled' /\ spoiled' \subseteq GraphDays
  <2>1. filler # Nil => filler.key[1] \in GraphDays
    BY Windows DEF GraphTypeOK
  <2>. QED  BY <1>1, <2>1 DEF InUse, GraphTypeOK
<1>5. GraphTypeOK'
  BY <1>1, <1>3, <1>4 DEF GraphTypeOK
<1>6. BuilderOK'
  <2>1. builder'.at = "save"
    BY <1>1 DEF GraphTypeOK
  <2>. QED  BY <2>1 DEF BuilderOK
<1>7. FillerOK'
  <2>1. filler # Nil => filler.key[1] \in spoiled'
    BY <1>1 DEF InUse
  <2>. QED  BY <1>1, <2>1 DEF FillerOK
<1>8. ASSUME NEW d \in GraphDays \ spoiled' PROVE DayOK(graph', d) /\ StoredOK(d)'
  <2>1. DayOK(graph, d) /\ StoredOK(d)
    BY <1>4, <1>8
  <2>2. ASSUME d \in dates, NEW j \in Journeys, d \in ServiceDays[j] PROVE InGraph(graph, d, j)
    <3>1. CASE d \in graph.completeDays
      BY <2>1, <2>2, <3>1 DEF DayOK, PromisesKept
    <3>2. CASE d \notin graph.completeDays
      <4>1. d \in Missing(graph, builder.day) \ spoiled
        BY <1>4, <1>8, <2>2, <3>2 DEF Missing, dates
      <4>. QED  BY <1>1, <2>2, <4>1 DEF BuilderOK
    <3>. QED  BY <3>1, <3>2
  <2>3. d \notin dates => \A e \in graph'.onDay : e[1] # d
    BY <1>1, <1>3, <1>8 DEF InUse
  <2>4. DayOK(graph', d)
    BY <1>3, <2>1, <2>2, <2>3
  <2>. QED  BY <1>1, <2>1, <2>4 DEF StoredOK
<1>. QED  BY <1>1, <1>3, <1>5, <1>6, <1>7, <1>8

-----------------------------------------------------------------------------
(* Checkpoints and restarts. *)

LEMMA IdleFits ==
  /\ IdleSaver \in [at: {"idle", "capture", "write"}, by: {"ticker", "builder"}, complete: BOOLEAN,
                    data: GraphData \cup {Nil}, fresh: BOOLEAN]
  /\ Idle \in [at: {"wait", "progress", "topology", "scan", "complete", "save"}, day: GraphDays,
               cursor: 0..NJourneys, seen: Nat]
  /\ IdleSaver.at = "idle" /\ Idle.at = "wait"
BY Windows DEF IdleSaver, Idle

LEMMA SaveSteps ==
  ASSUME GraphInv, Capture \/ Rename \/ SaveFails
  PROVE  GraphInv'
<1>. USE DEF GraphInv
<1>1. /\ UNCHANGED <<graph, today, flights, pending, queue, filler, spoiled>>
      /\ \/ Capture /\ saver' = [saver EXCEPT !.at = "write", !.data = graph] /\ file' = file /\ builder' = builder
         \/ saver' = IdleSaver /\ file' \in {file, saver.data} /\ saver.at = "write" /\ builder' \in {Idle, builder}
  BY DEF Capture, Rename, SaveFails, Saved
<1>2. graph \in GraphData /\ (Capture => saver'.at = "write" /\ saver'.data = graph) /\ IdleSaver.at = "idle"
  BY <1>1 DEF GraphTypeOK, IdleSaver, Capture
<1>3. GraphTypeOK'
  <2>1. saver' \in [at: {"idle", "capture", "write"}, by: {"ticker", "builder"}, complete: BOOLEAN,
                    data: GraphData \cup {Nil}, fresh: BOOLEAN]
    <3>1. CASE saver' = IdleSaver
      BY <3>1, IdleFits
    <3>2. CASE saver' = [saver EXCEPT !.at = "write", !.data = graph]
      BY <1>2, <3>2 DEF GraphTypeOK
    <3>. QED  BY <1>1, <3>1, <3>2
  <2>2. builder' \in [at: {"wait", "progress", "topology", "scan", "complete", "save"}, day: GraphDays,
                      cursor: 0..NJourneys, seen: Nat]
    BY <1>1, Windows DEF GraphTypeOK, Idle
  <2>3. faults' \in 0..MaxFaults
    <3>1. faults' = faults \/ (faults > 0 /\ faults' = faults - 1)
      BY DEF Capture, Rename, SaveFails
    <3>2. faults \in 0..MaxFaults /\ MaxFaults \in Nat
      BY GraphAssumption DEF GraphTypeOK
    <3>. QED  BY <3>1, <3>2
  <2>4. hasComplete' \in BOOLEAN /\ dirty' \in BOOLEAN
    <3>1. hasComplete \in BOOLEAN /\ dirty \in BOOLEAN /\ saver.complete \in BOOLEAN /\ saver.fresh \in BOOLEAN
      BY DEF GraphTypeOK
    <3>2. CASE Rename
      BY <3>1, <3>2, Zenon DEF Rename
    <3>3. CASE Capture \/ SaveFails
      BY <3>1, <3>3 DEF Capture, SaveFails
    <3>. QED  BY <3>2, <3>3
  <2>5. file' \in GraphData \cup {Nil}
    BY <1>1 DEF GraphTypeOK
  <2>. QED  BY <1>1, <2>1, <2>2, <2>3, <2>4, <2>5 DEF GraphTypeOK
<1>4. BuilderOK' /\ FillerOK'
  <2>1. builder' = builder \/ builder'.at = "wait"
    BY <1>1 DEF Idle
  <2>. QED  BY <1>1, <2>1 DEF BuilderOK, FillerOK, Missing
<1>5. ASSUME NEW d \in GraphDays \ spoiled PROVE DayOK(graph', d) /\ StoredOK(d)'
  <2>1. CASE Capture
    BY <1>1, <1>2, <2>1 DEF StoredOK, Capture
  <2>2. CASE saver' = IdleSaver /\ file' \in {file, saver.data} /\ saver.at = "write"
    BY <1>1, <1>2, <2>2 DEF StoredOK
  <2>. QED  BY <1>1, <2>1, <2>2
<1>. QED  BY <1>1, <1>2, <1>3, <1>4, <1>5

LEMMA EmptyFits ==
  EmptyGraph \in GraphData /\ \A d \in GraphDays : DayOK(EmptyGraph, d)
<1>1. EmptyGraph \in GraphData
  BY Windows DEF EmptyGraph, GraphData
<1>2. ASSUME NEW d \in GraphDays PROVE DayOK(EmptyGraph, d)
  <2>1. /\ EmptyGraph.dayJourneys = {} /\ EmptyGraph.onDay = {} /\ EmptyGraph.completeStops = {}
        /\ EmptyGraph.completeDays = {} /\ EmptyGraph.scanDays = {}
        /\ \A stop \in Stops : EmptyGraph.departures[<<d, stop>>] = <<>>
    BY DEF EmptyGraph, Keys
  <2>2. JourneysFit(EmptyGraph, d) /\ DaysFit(EmptyGraph, d) /\ PromisesKept(EmptyGraph, d)
    BY <2>1 DEF JourneysFit, DaysFit, PromisesKept
  <2>3. ASSUME NEW stop \in Stops PROVE EntriesFit(EmptyGraph, d, stop)
    <3>1. DOMAIN EmptyGraph.departures[<<d, stop>>] = {}
      BY <2>1
    <3>. QED  BY <2>1, <3>1 DEF EntriesFit
  <2>. QED  BY <2>2, <2>3 DEF DayOK
<1>. QED  BY <1>1, <1>2

LEMMA RestoredFits ==
  ASSUME NEW g \in GraphData
  PROVE  Restored(g) \in GraphData /\ \A d \in GraphDays : DayOK(g, d) => DayOK(Restored(g), d)
<1>. DEFINE h == IF g.completeDays # {} /\ g.patterns # Len(g.journeys) THEN BuildRouting(g) ELSE g
<1>1. /\ h \in GraphData /\ h.journeys = g.journeys /\ h.onDay = g.onDay /\ h.dayJourneys = g.dayJourneys
      /\ h.departures = g.departures /\ h.completeStops = g.completeStops
      /\ h.completeDays = g.completeDays /\ h.scanDays = g.scanDays /\ h.cursor = g.cursor
  BY Routed
<1>2. Restored(g) = IF h.scanDays # {} \/ h.completeDays = {} THEN h ELSE Seal(h)
  BY DEF Restored
<1>. HIDE DEF h
<1>3. /\ Restored(g) \in GraphData /\ Restored(g).onDay \subseteq g.onDay
      /\ Restored(g).journeys = g.journeys /\ Restored(g).dayJourneys = g.dayJourneys
      /\ Restored(g).departures = g.departures /\ Restored(g).completeStops = g.completeStops
      /\ Restored(g).completeDays = g.completeDays /\ Restored(g).scanDays = g.scanDays
      /\ Restored(g).cursor = g.cursor
  BY <1>1, <1>2, Sealed
<1>4. \A d : SameDay(g, Restored(g), d)
  BY <1>3 DEF SameDay
<1>. QED  BY <1>3, <1>4, DayKept

LEMMA RestartStep ==
  ASSUME GraphInv, Restart
  PROVE  GraphInv'
<1>. USE DEF GraphInv
<1>1. /\ faults > 0 /\ faults' = faults - 1 /\ graph' = (IF file = Nil THEN EmptyGraph ELSE Restored(file))
      /\ hasComplete' = SnapshotComplete(graph') /\ dirty' = FALSE
      /\ builder' = Idle /\ flights' = {} /\ pending' = {} /\ queue' = <<>> /\ filler' = Nil
      /\ saver' = IdleSaver /\ UNCHANGED <<today, file, spoiled>>
  BY DEF Restart
<1>2. graph' \in GraphData
  BY <1>1, EmptyFits, RestoredFits DEF GraphTypeOK
<1>3. \A d \in GraphDays \ spoiled : DayOK(graph', d)
  BY <1>1, EmptyFits, RestoredFits DEF GraphTypeOK, StoredOK
<1>4. GraphTypeOK'
  <2>1. faults' \in 0..MaxFaults
    BY <1>1, GraphAssumption DEF GraphTypeOK
  <2>2. hasComplete' \in BOOLEAN
    BY <1>1, <1>2 DEF SnapshotComplete, GraphData
  <2>3. queue' \in Seq(Keys)
    BY <1>1
  <2>. QED  BY <1>1, <1>2, <2>1, <2>2, <2>3, IdleFits DEF GraphTypeOK
<1>5. builder'.at = "wait" /\ saver'.at = "idle"
  BY <1>1 DEF Idle, IdleSaver
<1>. QED  BY <1>1, <1>3, <1>4, <1>5 DEF BuilderOK, FillerOK, StoredOK

-----------------------------------------------------------------------------

LEMMA GraphInitially == GraphInit => GraphInv
<1>. SUFFICES ASSUME GraphInit PROVE GraphInv
  OBVIOUS
<1>1. GraphTypeOK
  <2>1. <<>> \in Seq(Keys) /\ MaxFaults \in 0..MaxFaults
    BY GraphAssumption
  <2>. QED  BY <2>1, EmptyFits, IdleFits, Windows DEF GraphInit, GraphTypeOK
<1>2. builder.at = "wait" /\ saver.at = "idle"
  BY DEF GraphInit, Idle, IdleSaver
<1>. QED  BY <1>1, <1>2, EmptyFits DEF GraphInit, GraphInv, BuilderOK, FillerOK, StoredOK

LEMMA GraphStep == GraphInv /\ [GraphNext]_graphVars => GraphInv'
<1>. SUFFICES ASSUME GraphInv, [GraphNext]_graphVars PROVE GraphInv'
  OBVIOUS
<1>1. CASE UNCHANGED graphVars
  BY <1>1 DEF graphVars, GraphInv, GraphTypeOK, BuilderOK, FillerOK, StoredOK, Missing
<1>. QED
  BY <1>1, RequestSteps, FillSteps, QuietSteps, RecordSteps, TopologyStep, VisitStep, CompleteStep, SaveSteps,
     RestartStep DEF GraphNext

\* The binary search of a bucket in order leaves out only what leaves before the time asked for.
LEMMA SearchFinds ==
  ASSUME NEW entries \in Seq(Nat \X Nat), InOrder(entries), NEW from \in Nat
  PROVE  \A n \in DOMAIN entries : entries[n][2] >= from => n > SearchStart(entries, from)
<1>. DEFINE size == Len(entries)
            late == {n \in DOMAIN entries : entries[n][2] >= from}
            fits(n) == /\ n = 0 \/ entries[n][2] < from
                       /\ n = size \/ entries[n + 1][2] >= from
<1>1. size \in Nat /\ DOMAIN entries = 1..size /\ \A n \in 1..size : entries[n][2] \in Nat
  OBVIOUS
<1>2. \E n \in 0..size : fits(n)
  <2>1. CASE late = {}
    <3>1. size = 0 \/ (size \in 1..size /\ ~(entries[size][2] >= from))
      BY <1>1, <2>1
    <3>2. fits(size)
      BY <1>1, <3>1
    <3>. HIDE DEF fits
    <3>. QED  BY <1>1, <3>2
  <2>2. CASE late # {}
    <3>1. PICK m \in late : \A n \in late : m <= n
      <4>1. late \subseteq Nat
        BY <1>1
      <4>. HIDE DEF late
      <4>. QED  BY <2>2, <4>1, Least
    <3>2. m - 1 \in 0..size /\ (m - 1) + 1 = m
      BY <1>1, <3>1
    <3>3. m - 1 = 0 \/ (m - 1 \in DOMAIN entries /\ m - 1 \notin late)
      BY <1>1, <3>1, <3>2
    <3>4. fits(m - 1)
      BY <1>1, <3>1, <3>2, <3>3
    <3>. QED  BY <3>2, <3>4
  <2>. QED  BY <2>1, <2>2
<1>3. SearchStart(entries, from) \in 0..size /\ fits(SearchStart(entries, from))
  <2>1. SearchStart(entries, from) = CHOOSE n \in 0..size : fits(n)
    BY DEF SearchStart
  <2>. HIDE DEF fits
  <2>. QED  BY <1>2, <2>1
<1>. DEFINE start == SearchStart(entries, from)
<1>4. start \in 0..size /\ (start = 0 \/ entries[start][2] < from)
  BY <1>3
<1>. HIDE DEF start
<1>5. ASSUME NEW n \in DOMAIN entries, entries[n][2] >= from PROVE n > start
  <2>1. CASE start = 0
    BY <1>1, <2>1
  <2>2. CASE start # 0
    <3>1. start \in DOMAIN entries /\ entries[start][2] < from /\ entries[start][2] \in Nat
      BY <1>1, <1>4, <2>2
    <3>2. n < start => entries[n][2] <= entries[start][2]
      BY <3>1 DEF InOrder
    <3>. QED  BY <1>1, <1>4, <1>5, <3>1, <3>2
  <2>. QED  BY <2>1, <2>2
<1>. QED  BY <1>5 DEF start

LEMMA AnswersAreWhole == GraphInv => CompleteAnswers
<1>. SUFFICES ASSUME GraphInv, NEW key \in Keys, NEW from \in DepartureTimes, StopComplete(graph, key), key[1] \notin spoiled
              PROVE  Departing(graph, key, from) = Due(key, from)
  BY DEF CompleteAnswers
<1>. DEFINE d == key[1]
            stop == key[2]
            entries == graph.departures[key]
            start == IF d \in graph.completeDays THEN SearchStart(entries, from) ELSE 0
<1>1. key = <<d, stop>> /\ d \in GraphDays /\ stop \in Stops /\ d \notin spoiled
  BY Windows
<1>2. graph \in GraphData /\ DayOK(graph, d) /\ entries \in Seq(Nat \X Nat)
  BY <1>1 DEF GraphInv, GraphTypeOK, GraphData
<1>3. from \in Nat
  <2>1. PICK j \in Journeys, s \in Stops : from \in {Calls[j][s][n] : n \in DOMAIN Calls[j][s]}
    BY DEF DepartureTimes
  <2>2. Calls[j][s] \in Seq(Nat)
    BY GraphAssumption DEF Journeys
  <2>. QED  BY <2>1, <2>2
<1>4. \A n \in DOMAIN entries : entries[n][2] >= from => n > start
  <2>1. CASE d \in graph.completeDays
    <3>1. InOrder(entries)
      BY <1>1, <1>2, <2>1 DEF DayOK, PromisesKept
    <3>. QED  BY <1>2, <1>3, <2>1, <3>1, SearchFinds
  <2>2. CASE d \notin graph.completeDays
    BY <1>2, <2>2
  <2>. QED  BY <2>1, <2>2
<1>5. Departing(graph, key, from) = {graph.journeys[entries[n][1]] : n \in {n \in DOMAIN entries : n > start /\ entries[n][2] >= from}}
  BY DEF Departing
<1>. HIDE DEF start
<1>6. /\ \A n \in DOMAIN entries : /\ <<d, entries[n][1]>> \in graph.dayJourneys
                                   /\ \E m \in DOMAIN Calls[graph.journeys[entries[n][1]]][stop] :
                                        entries[n][2] = Calls[graph.journeys[entries[n][1]]][stop][m]
      /\ \A i \in Ids(graph) : <<d, i>> \in graph.dayJourneys =>
           \A m \in DOMAIN Calls[graph.journeys[i]][stop] :
             \E n \in DOMAIN entries : entries[n] = <<i, Calls[graph.journeys[i]][stop][m]>>
  <2>1. EntriesFit(graph, d, stop)
    BY <1>1, <1>2 DEF DayOK
  <2>2. graph.departures[<<d, stop>>] = entries
    BY <1>1
  <2>. HIDE DEF entries, d, stop
  <2>. QED  BY <2>1, <2>2 DEF EntriesFit
<1>7. ASSUME NEW j \in Due(key, from) PROVE j \in Departing(graph, key, from)
  <2>1. j \in Journeys /\ d \in ServiceDays[j] /\ \E m \in DOMAIN Calls[j][stop] : Calls[j][stop][m] >= from
    BY <1>7 DEF Due
  <2>2. PICK m \in DOMAIN Calls[j][stop] : Calls[j][stop][m] >= from
    BY <2>1
  <2>3. InGraph(graph, d, j)
    <3>1. CASE d \in graph.completeDays
      BY <1>2, <2>1, <3>1 DEF DayOK, PromisesKept
    <3>2. CASE d \notin graph.completeDays
      <4>1. Calls[j][stop] # <<>>
        BY <2>1
      <4>2. j \in Timetable(d, stop) /\ <<d, stop>> \in graph.completeStops
        BY <1>1, <2>1, <3>2, <4>1 DEF Timetable, StopComplete
      <4>. QED  BY <1>1, <1>2, <4>2 DEF DayOK, PromisesKept
    <3>. QED  BY <3>1, <3>2
  <2>4. PICK i \in Ids(graph) : graph.journeys[i] = j /\ <<d, i>> \in graph.dayJourneys
    BY <2>3 DEF InGraph
  <2>5. PICK n \in DOMAIN entries : entries[n] = <<i, Calls[j][stop][m]>>
    BY <1>6, <2>4
  <2>6. entries[n][1] = i /\ entries[n][2] >= from
    BY <2>2, <2>5
  <2>. QED  BY <1>4, <1>5, <2>4, <2>6
<1>8. ASSUME NEW j \in Departing(graph, key, from) PROVE j \in Due(key, from)
  <2>1. PICK n \in DOMAIN entries : entries[n][2] >= from /\ j = graph.journeys[entries[n][1]]
    BY <1>5, <1>8
  <2>2. entries[n][1] \in Nat
    BY <1>2
  <2>3. entries[n][1] \in Ids(graph) /\ d \in ServiceDays[j]
    BY <1>2, <1>6, <2>1, <2>2 DEF DayOK, JourneysFit
  <2>4. j \in Journeys
    <3>1. graph.journeys \in Seq(Journeys)
      BY <1>2 DEF GraphData
    <3>2. entries[n][1] \in DOMAIN graph.journeys
      BY <2>3 DEF Ids
    <3>. HIDE DEF entries
    <3>. QED  BY <2>1, <3>1, <3>2
  <2>5. \E m \in DOMAIN Calls[j][stop] : entries[n][2] = Calls[j][stop][m]
    BY <1>6, <2>1
  <2>. QED  BY <2>1, <2>3, <2>4, <2>5 DEF Due
<1>. QED  BY <1>7, <1>8

LEMMA NothingIsLost == GraphInv => ResumeLosesNothing
<1>. SUFFICES ASSUME GraphInv PROVE Scanned(graph) /\ (file # Nil => Scanned(file))
  BY DEF ResumeLosesNothing
<1>1. ASSUME NEW g \in GraphData, \A d \in GraphDays \ spoiled : DayOK(g, d) PROVE Scanned(g)
  <2>. SUFFICES ASSUME NEW d \in (g.scanDays \ g.completeDays) \ spoiled, NEW j \in 1..g.cursor, d \in ServiceDays[j]
                PROVE  InGraph(g, d, j)
    BY DEF Scanned, InGraph
  <2>1. d \in GraphDays
    BY DEF GraphData
  <2>. QED  BY <1>1, <2>1 DEF DayOK, PromisesKept
<1>2. graph \in GraphData /\ (file # Nil => file \in GraphData)
  BY DEF GraphInv, GraphTypeOK
<1>. QED  BY <1>1, <1>2 DEF GraphInv, StoredOK

\* A stop or a day that counts as complete answers with every journey that leaves it, and a scan that
\* is resumed after a failure or a restart misses none, whatever the order of requests, fills, scans,
\* compactions and checkpoints (graph.go:438-441, 596-627, 731-866, 1116-1212, snapshot.go:163-203),
\* for every timetable, window of days and number of faults.
THEOREM GraphAnswers == GraphSpec => []GraphAnswersFully
<1>1. GraphInit => GraphInv
  BY GraphInitially
<1>2. GraphInv /\ [GraphNext]_graphVars => GraphInv'
  BY GraphStep
<1>3. GraphInv => GraphAnswersFully
  BY AnswersAreWhole, NothingIsLost DEF GraphAnswersFully, GraphInv
<1>. QED  BY <1>1, <1>2, <1>3, PTL DEF GraphSpec
=============================================================================
