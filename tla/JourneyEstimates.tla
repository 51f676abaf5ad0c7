-------------------------- MODULE JourneyEstimates --------------------------
(***************************************************************************)
(* How the vehicle tracker's consumers turn the observations of a journey, positions and   *)
(* predictions of its feed, into the estimates of its snapshot.  Each consumer holds the     *)
(* journeys it works on in a cache of its own, and leaves estimates alone that would come      *)
(* out the same.                                                                                *)
(***************************************************************************)
EXTENDS TrackedJourneys, Integers, Sequences, FiniteSets, SequencesExt, FiniteSetsExt

CONSTANTS
  Timetables,  \* the versions of a journey: [legs, track]
  Points,      \* places on the line the tracks are drawn on
  Predictions, \* lists of stop updates a feed sends: [stop, arrival, late]
  Slack,       \* offsets up to this count as on time
  Minute,      \* estimates are rounded to this
  MaxTime,
  MaxImports   \* bounds the timetable imports

ASSUME EstimatesAssumption ==
  /\ Minute \in Nat \ {0}
  /\ {Slack, MaxTime, MaxImports} \subseteq Nat

VARIABLES
  timetable,  \* the version of each journey in the database
  imports,    \* timetable imports so far
  cache,      \* journeyCache of each consumer: the version it holds of a journey, or None
  now,
  snapshot,   \* the realtime journey stored, or Fresh: [next, offset, stops]
  said        \* what the last observation that spoke of a stop said of it

estimateVars == <<timetable, imports, cache, now, snapshot, said>>

\* A realtime journey as the tracker makes it when none is stored.
Fresh == [next |-> None, offset |-> 0, stops |-> <<>>]

EstimatesInit ==
  /\ timetable \in [Journeys -> Timetables]
  /\ imports = 0
  /\ cache = [c \in Consumers |-> [j \in Journeys |-> None]]
  /\ now = 0
  /\ snapshot = [j \in Journeys |-> Fresh]
  /\ said = [j \in Journeys |-> <<>>]

Overlay(f, g) == [k \in DOMAIN f \cup DOMAIN g |-> IF k \in DOMAIN g THEN g[k] ELSE f[k]]

-----------------------------------------------------------------------------
(* The cache. *)

\* getCachedTrackedJourney: what is in the cache is used and kept, what is not is loaded.
VersionFor(c, j) == IF cache[c][j] # None THEN cache[c][j] ELSE timetable[j]
Use(c, j) == cache' = [cache EXCEPT ![c][j] = VersionFor(c, j)]

\* Other journeys have been used since, as many as the cache has room for: this one goes.
Evict(c, j) ==
  /\ cache[c][j] # None
  /\ cache' = [cache EXCEPT ![c][j] = None]
  /\ UNCHANGED <<timetable, imports, now, snapshot, said>>

-----------------------------------------------------------------------------
(* Where a position lies on the journey: [leg, done, of], done/of of the leg behind it. *)

Abs(x) == IF x < 0 THEN -x ELSE x
\* closestTrackPosition, on a track from one point to another
Projected(track, p) ==
  LET low == Min(ToSet(track))  high == Max(ToSet(track))
  IN IF p < low THEN low ELSE IF p > high THEN high ELSE p
Distance(track, p) == Abs(p - Projected(track, p))
Along(track, p) == Abs(Projected(track, p) - track[1])
Length(track) == Abs(track[2] - track[1])

Tracked(version) == {k \in DOMAIN version.legs : version.legs[k].track # None}
\* Of equally close legs the first.
Closest(version, p) ==
  CHOOSE k \in Tracked(version) :
    \A i \in Tracked(version) :
      LET d == Distance(version.legs[k].track, p)  e == Distance(version.legs[i].track, p)
      IN d < e \/ (d = e /\ k <= i)

\* pathForGlobalProgress: the first leg whose end lies further on along the journey's own track.
OnWholeTrack(version, p) ==
  LET legs == version.legs
      done == Along(version.track, p)
      End(k) == Along(version.track, legs[k].at)
      leg == Min({k \in DOMAIN legs : done <= End(k) \/ k = Len(legs)})
      start == IF leg = 1 THEN 0 ELSE End(leg - 1)
      span == End(leg) - start
  IN IF span <= 0 THEN [leg |-> leg, done |-> 0, of |-> 1]
     ELSE [leg |-> leg, done |-> Max({0, Min({span, done - start})}), of |-> span]

\* The stop fallback: the closest destination, between it and the one before.
NearStop(version, p) ==
  LET legs == version.legs
      Away(k) == Abs(p - legs[k].at)
      leg == CHOOSE k \in DOMAIN legs : \A i \in DOMAIN legs : Away(k) < Away(i) \/ (Away(k) = Away(i) /\ k <= i)
      both == IF leg = 1 THEN 0 ELSE Away(leg - 1) + Away(leg)
  IN IF both = 0 THEN [leg |-> leg, done |-> 1, of |-> 2] ELSE [leg |-> leg, done |-> Away(leg - 1), of |-> both]

\* matchJourneyPositionWithStopFallback
Match(version, p) ==
  IF Tracked(version) # {}
  THEN LET leg == Closest(version, p)  track == version.legs[leg].track
       IN [leg |-> leg, done |-> Along(track, p), of |-> Length(track)]
  ELSE IF version.track # None THEN OnWholeTrack(version, p)
  ELSE NearStop(version, p)

-----------------------------------------------------------------------------
(* A position. *)

\* How late the vehicle is where it is.
Offset(version, match, at) ==
  LET leg == version.legs[match.leg]
      expected == leg.depart + (match.done * (leg.reach - leg.depart)) \div match.of
  IN IF Abs(at - expected) <= Slack THEN 0 ELSE at - expected

Rounded(t) == ((t + Minute \div 2) \div Minute) * Minute
Key(leg, i) == <<leg.to, i>>

\* estimateFutureStops: it leaves no stop before its time, and makes up lateness where it waits.
WithStop(version, sofar, i) ==
  LET arrive == Rounded(version.legs[i].reach + sofar.offset)
      leaves == version.legs[i + 1].depart
      depart == IF i = Len(version.legs) THEN None ELSE IF arrive > leaves THEN arrive ELSE leaves
  IN [offset |-> IF i = Len(version.legs) THEN sofar.offset ELSE depart - leaves,
      stops |-> Overlay(sofar.stops, [k \in {Key(version.legs[i], i)} |-> [arrive |-> arrive, depart |-> depart]])]
FutureStops(version, leg, offset) ==
  LET upto[i \in leg..Len(version.legs)] ==
        WithStop(version, IF i = leg THEN [offset |-> offset, stops |-> <<>>] ELSE upto[i - 1], i)
  IN upto[Len(version.legs)].stops

BugNeedsRebuild(stored, estimates) == FALSE

\* futureStopsNeedRebuild
NeedsRebuild(stored, estimates) ==
  \E k \in DOMAIN estimates : k \notin DOMAIN stored.stops \/ stored.stops[k] # estimates[k]

Save(j, next, offset, stops) ==
  snapshot' = [snapshot EXCEPT ![j] = [next |-> next, offset |-> offset, stops |-> Overlay(@.stops, stops)]]

Locate(c, j, p) ==
  LET version == VersionFor(c, j)
      match == Match(version, p)
      offset == Offset(version, match, now)
      estimates == FutureStops(version, match.leg, offset)
      same == /\ snapshot[j].next = match.leg /\ snapshot[j].offset = offset
              /\ ~NeedsRebuild(snapshot[j], estimates)
  IN /\ Save(j, match.leg, offset, IF same THEN <<>> ELSE estimates)
     /\ said' = [said EXCEPT ![j] = Overlay(@, estimates)]
     /\ Use(c, j)
     /\ UNCHANGED <<timetable, imports, now>>

-----------------------------------------------------------------------------
(* Predictions. *)

\* journeyStopOccurrences: the calls at a stop, the origin being call 0.
Occurrences(version, stop) ==
  LET n == Len(version.legs)
  IN SetToSortSeq({k - 1 : k \in {i \in 1..n : version.legs[i].from = stop}} \cup
                  (IF version.legs[n].to = stop THEN {n} ELSE {}), <)
\* The updates of a stop in turn, each for the next call there; what is left over is dropped.
Addressed(version, updates) ==
  LET Before(i) == Cardinality({k \in 1..(i - 1) : updates[k].stop = updates[i].stop})
  IN {i \in DOMAIN updates : Before(i) < Len(Occurrences(version, updates[i].stop))}
CallOf(version, updates, i) ==
  Occurrences(version, updates[i].stop)[Cardinality({k \in 1..i : updates[k].stop = updates[i].stop})]

\* A time, or else the time of the timetable later by a delay: that one has no date.
Estimate(version, update, call) ==
  LET last == call = Len(version.legs)
      arrive == IF last THEN version.legs[call].reach ELSE version.legs[call + 1].arrive
      depart == IF last THEN arrive ELSE version.legs[call + 1].depart
  IN [arrive |-> IF update.arrival # None THEN update.arrival ELSE arrive + update.late,
      depart |-> IF update.departure # None THEN update.departure ELSE depart + update.late]
StopUpdates(version, updates) ==
  LET CallsOf == {<<updates[i].stop, CallOf(version, updates, i)>> : i \in Addressed(version, updates)}
      Update(key) == updates[CHOOSE i \in Addressed(version, updates) :
                               <<updates[i].stop, CallOf(version, updates, i)>> = key]
  IN [key \in CallsOf |-> Estimate(version, Update(key), key[2])]
Dateless(version, updates) ==
  {<<updates[i].stop, CallOf(version, updates, i)>> : i \in {k \in Addressed(version, updates) : updates[k].arrival = None}}

\* The call made last: of those with a time before now the latest, of equally late ones the first.
Passed(version, updates) ==
  LET estimates == StopUpdates(version, updates)
      At(k) == <<version.legs[k].from, k - 1>>
      Time(k) == IF At(k) \in DOMAIN estimates THEN estimates[At(k)].arrive ELSE version.legs[k].arrive
      past == {k \in DOMAIN version.legs : At(k) \notin Dateless(version, updates) /\ Time(k) < now}
  IN IF past = {} THEN None
     ELSE CHOOSE k \in past : \A i \in past : Time(k) > Time(i) \/ (Time(k) = Time(i) /\ k <= i)

\* Predictions that place the vehicle nowhere are dropped.
Predict(c, j, updates) ==
  LET version == VersionFor(c, j)
      leg == Passed(version, updates)
      estimates == StopUpdates(version, updates)
  IN /\ IF leg = None THEN UNCHANGED <<snapshot, said>>
        ELSE /\ Save(j, leg, 0, estimates)
             /\ said' = [said EXCEPT ![j] = Overlay(@, estimates)]
     /\ Use(c, j)
     /\ UNCHANGED <<timetable, imports, now>>

-----------------------------------------------------------------------------

Tick ==
  /\ now < MaxTime
  /\ now' = now + 1
  /\ UNCHANGED <<timetable, imports, cache, snapshot, said>>

\* The snapshot's time to live is over.
Expire(j) ==
  /\ snapshot[j] # Fresh
  /\ snapshot' = [snapshot EXCEPT ![j] = Fresh]
  /\ said' = [said EXCEPT ![j] = <<>>]
  /\ UNCHANGED <<timetable, imports, cache, now>>

Import(j, version) ==
  /\ imports < MaxImports /\ version # timetable[j]
  /\ timetable' = [timetable EXCEPT ![j] = version]
  /\ imports' = imports + 1
  /\ UNCHANGED <<cache, now, snapshot, said>>

EstimatesNext ==
  \/ Tick
  \/ \E j \in Journeys :
       \/ Expire(j)
       \/ \E v \in Timetables : Import(j, v)
       \/ \E c \in Consumers :
            \/ Evict(c, j)
            \/ \E p \in Points : Locate(c, j, p)
            \/ \E u \in Predictions : Predict(c, j, u)

EstimatesSpec == EstimatesInit /\ [][EstimatesNext]_estimateVars
-----------------------------------------------------------------------------

\* Leaving estimates alone that would come out the same never leaves one behind: each is what
\* the last observation that spoke of the stop said of it, whoever took it, though positions,
\* predictions, expiries and timetable imports come in any order.
EstimatesAreNewest ==
  \A j \in Journeys : snapshot[j] # Fresh => snapshot[j].stops = said[j]
=============================================================================
