------------------------------ MODULE TflArrivals ------------------------------
(***************************************************************************)
(* A TfL vehicle has no timetable journey: each poll of the arrivals feed turns *)
(* the predictions of one vehicle and destination into a realtime journey, by    *)
(* reconciling them with the calls stored before, and lists it on the boards of   *)
(* the stops it is expected at.  A call keeps the index it was given, from 0.      *)
(***************************************************************************)
EXTENDS Naturals, Sequences, FiniteSets, SequencesExt, FiniteSetsExt, Functions

CONSTANTS
  Route,     \* the stops the vehicle calls at
  Imported,  \* the routes of its line that were imported
  Gap, MaxDelay, \* ticks between calls, and by how many the vehicle may be late
  Window,    \* how many calls ahead the feed predicts
  Grace, FreshFor, KeepFor, \* an entry past its time, a board's patience, a journey's TTL
  Horizon,   \* bound on time
  None

TflAssumption ==
  /\ {Gap, MaxDelay, Window, Grace, FreshFor, KeepFor, Horizon} \subseteq Nat
  /\ Grace < FreshFor /\ FreshFor < KeepFor /\ Len(Route) > 1

Stops == Range(Route) \cup UNION {Range(r) : r \in Imported}

VARIABLES
  now,
  ahead,    \* the vehicle's next call, a position of Route; Len(Route) + 1 at the end
  delay,
  journey,  \* the stored journey, or None
  board,    \* per stop, the score the journey is listed with, or None
  listed,   \* stops the journey is listed at
  pending,  \* whether the journey has been saved and not yet listed
  torn,     \* history: whether a restart came between the two
  seen,     \* history: positions whose estimates the last poll stored
  made,     \* history: positions passed after a poll that stored an estimate of them
  erratic    \* history: whether a poll left out a call and predicted a later one, or
             \* went back to a call that one before it had left behind

vars == <<now, ahead, delay, journey, board, listed, pending, torn, seen, made, erratic>>

Expected(k) == (k - 1) * Gap + delay

Init ==
  /\ now = 0 /\ ahead = 1 /\ delay \in 0..MaxDelay /\ journey = None
  /\ board = [s \in Stops |-> None] /\ listed = {} /\ pending = FALSE /\ torn = FALSE
  /\ seen = {} /\ made = {} /\ erratic = FALSE

-----------------------------------------------------------------------------
(* The vehicle and the clock. *)

Tick ==
  /\ now < Horizon /\ now' = now + 1
  /\ ahead > Len(Route) \/ now < Expected(ahead)
  /\ IF journey # None /\ now - journey.modified >= KeepFor /\ ~pending
     THEN journey' = None /\ seen' = {} /\ made' = {} /\ erratic' = FALSE
     ELSE UNCHANGED <<journey, seen, made, erratic>>
  /\ UNCHANGED <<ahead, delay, board, listed, pending, torn>>

Call ==
  /\ ahead <= Len(Route) /\ now + 1 >= Expected(ahead)
  /\ ahead' = ahead + 1 /\ made' = made \cup (seen \cap {ahead})
  /\ UNCHANGED <<now, delay, journey, board, listed, pending, torn, seen, erratic>>

Delay(d) ==
  /\ d # delay /\ delay' = d /\ ahead <= Len(Route) /\ now <= (ahead - 1) * Gap + d
  /\ UNCHANGED <<now, ahead, journey, board, listed, pending, torn, seen, made, erratic>>

-----------------------------------------------------------------------------
(* reconcileTFLRealtimeStops. *)

Earlier(c, d) == c.at < d.at \/ (c.at = d.at /\ c.index < d.index)

\* sort.SliceStable.
Sorted(calls) ==
  FoldLeft(LAMBDA acc, c : SelectSeq(acc, LAMBDA d : ~Earlier(c, d)) \o <<c>>
                           \o SelectSeq(acc, LAMBDA d : Earlier(c, d)), <<>>, calls)

CountOf(calls, stop) == Len(SelectSeq(calls, LAMBDA c : c.stop = stop))

\* The most times a route calls at a stop.
Limit(stop) ==
  LET times == {Len(SelectSeq(r, LAMBDA s : s = stop)) : r \in Imported}
  IN  Max(times \cup {1})

\* Calls of one stop up to a number of them.
Limited(calls, number) ==
  FoldLeft(LAMBDA acc, c : IF CountOf(acc, c.stop) < number[c.stop] THEN Append(acc, c) ELSE acc,
           <<>>, calls)

Historical(c) == [c EXCEPT !.past = TRUE]

\* Stored estimates that no prediction replaces: as many of a stop's first ones are
\* replaced as it has predictions.
Unmatched(previous, current) ==
  LET estimates == SelectSeq(previous, LAMBDA c : ~c.past)
  IN  FoldLeft(LAMBDA acc, c :
                 IF acc.left[c.stop] > 0 THEN [acc EXCEPT !.left[c.stop] = @ - 1]
                 ELSE [acc EXCEPT !.calls = Append(@, c)],
               [calls |-> <<>>, left |-> [s \in Stops |-> CountOf(current, s)]], estimates).calls

BugGone(previous, current) == <<>>

\* Estimates without a prediction that are earlier than all predictions.
Gone(previous, current) ==
  LET first == Min({current[i].at : i \in DOMAIN current})
  IN  IF current = <<>> THEN <<>>
      ELSE SelectSeq(Unmatched(previous, current), LAMBDA c : c.at < first)

Room(stop, current) ==
  IF Limit(stop) > CountOf(current, stop) THEN Limit(stop) - CountOf(current, stop) ELSE 0

Reconciled(stored, predicted) ==
  LET current  == Limited(Sorted(predicted), [s \in Stops |-> Limit(s)])
      previous == Sorted(stored)
      history  == Limited(SelectSeq(previous, LAMBDA c : c.past) \o Gone(previous, current),
                          [s \in Stops |-> Room(s, current)])
  IN  Sorted([i \in DOMAIN history |-> Historical(history[i])] \o current)

Indexed(calls) == [i \in DOMAIN calls |-> [calls[i] EXCEPT !.index = i - 1]]

-----------------------------------------------------------------------------
(* parseGroupedArrivals. *)

StopsOf(calls) == [i \in DOMAIN calls |-> calls[i].stop]

\* The calls' stops, and the destination when the predictions do not reach it.
Observed(calls) ==
  LET stops == StopsOf(calls)
  IN  IF Last(stops) = Last(Route) THEN stops ELSE Append(stops, Last(Route))

Matches(stops) == {r \in Imported : SelectSeq(r, LAMBDA s : s \in Range(stops)) = stops}

\* The path, as the sequence of its stops: the only route that fits, or what was observed.
Path(stops) == IF Cardinality(Matches(stops)) = 1 THEN CHOOSE r \in Matches(stops) : TRUE ELSE stops

\* The first leg whose origin has an estimate under its own index; 0 if there is none.
FirstLeg(path, calls) ==
  LET legs == {i \in 1..(Len(path) - 1) :
                 i \in DOMAIN calls /\ calls[i].stop = path[i] /\ ~calls[i].past}
  IN  IF legs = {} THEN 0 ELSE Min(legs)

\* Departed and next are the ends of the leg before that one, or of the first leg.
Reference(path, calls, stored) ==
  LET leg == FirstLeg(path, calls)
      ref == IF leg > 1 THEN leg - 1 ELSE 1
  IN  IF leg = 0 THEN [departed |-> None, next |-> IF stored = None THEN None ELSE stored.next]
      ELSE [departed |-> path[ref], next |-> path[ref + 1]]

\* The positions the feed predicts: it may lag behind the vehicle, end early, or leave
\* one out.
Feeds ==
  {from..to \ omitted : from \in {ahead, ahead - 1} \ {0}, to \in ahead..(ahead + Window - 1),
                        omitted \in {{}, {ahead + 1}}}

Predictions(near) ==
  LET order == SetToSortSeq(near, <)
  IN  [i \in DOMAIN order |->
         [stop |-> Route[order[i]], at |-> Expected(order[i]), past |-> FALSE, index |-> 0]]

\* One vehicle of one poll: the stored journey is read, reconciled and saved.
Poll(near) ==
  LET predicted == Predictions(near)
      calls     == Indexed(Reconciled(IF journey = None THEN <<>> ELSE journey.calls, predicted))
      path      == Path(Observed(calls))
      ref       == Reference(path, calls, journey)
  IN  /\ ~pending /\ predicted # <<>>
      /\ journey # None => journey.modified < now  \* at most one poll a tick
      /\ journey' = [calls |-> calls, path |-> path, departed |-> ref.departed,
                     next |-> ref.next, modified |-> now]
      /\ pending' = TRUE
      /\ seen' = near
      /\ erratic' = (erratic \/ near # Min(near)..Max(near) \/ ahead < Min(near)
                           \/ (seen # {} /\ Min(near) < Min(seen)))
      /\ UNCHANGED <<now, ahead, delay, board, listed, torn, made>>

-----------------------------------------------------------------------------
(* The boards. *)

EstimatesAt(stop) == {journey.calls[i].at : i \in {j \in DOMAIN journey.calls :
                          journey.calls[j].stop = stop /\ ~journey.calls[j].past}}

BugListing(stop, before) == IF EstimatesAt(stop) # {} THEN Min(EstimatesAt(stop)) ELSE before

\* A pipeline removes the stops listed before and lists the present ones.
Listing(stop, before) ==
  IF EstimatesAt(stop) # {} THEN Min(EstimatesAt(stop))
  ELSE IF stop \in listed THEN None ELSE before

Index ==
  /\ pending /\ pending' = FALSE /\ torn' = FALSE
  /\ board' = [s \in Stops |-> Listing(s, board[s])]
  /\ listed' = {s \in Stops : EstimatesAt(s) # {}}
  /\ UNCHANGED <<now, ahead, delay, journey, seen, made, erratic>>

\* The process ends after saving.
Restart ==
  /\ pending /\ pending' = FALSE /\ torn' = TRUE
  /\ UNCHANGED <<now, ahead, delay, journey, board, listed, seen, made, erratic>>

\* A reader first removes what is past its time.
Clean(stop) ==
  /\ board[stop] # None /\ board[stop] + Grace <= now
  /\ board' = [board EXCEPT ![stop] = None]
  /\ UNCHANGED <<now, ahead, delay, journey, listed, pending, torn, seen, made, erratic>>

\* BoardQuery at a stop: when the vehicle is shown, or None.
Shown(stop) ==
  IF /\ board[stop] # None /\ board[stop] + Grace > now
     /\ journey # None /\ now - journey.modified <= FreshFor
     /\ EstimatesAt(stop) # {} /\ Min(EstimatesAt(stop)) + Grace >= now
  THEN Min(EstimatesAt(stop)) ELSE None

Next ==
  \/ Tick \/ Call \/ Index \/ Restart
  \/ \E d \in 0..MaxDelay : Delay(d)
  \/ \E near \in {f \cap DOMAIN Route : f \in Feeds} \ {{}} : Poll(near)
  \/ \E s \in Stops : Clean(s)

Spec == Init /\ [][Next]_vars

-----------------------------------------------------------------------------
(* Properties *)

\* A call the vehicle has made after a poll expected it stays in the journey, beside those
\* the last poll expects (modearrivaltracker.go:580-597).
MadeCallsStay ==
  journey # None =>
    \A s \in Stops :
      CountOf(journey.calls, s) >= Cardinality({k \in made \cup seen : Route[k] = s})

\* Historical calls come first, unless the feed left a call out, and no stop occurs more
\* often than on a route.
StoryInOrder ==
  journey # None =>
    /\ ~erratic => \A i, j \in DOMAIN journey.calls :
           i < j /\ journey.calls[j].past => journey.calls[i].past
    /\ \A s \in Stops : CountOf(journey.calls, s) <= Limit(s)

\* When the feed was not erratic, the journey was observed from its origin and a call
\* before the last is expected, the stop said to be next is the first expected one, or
\* the one after the origin.
NextIsAhead ==
  journey # None /\ ~erratic /\ journey.departed # None
      /\ IsPrefix(StopsOf(journey.calls), journey.path) =>
    LET first == Min({i \in DOMAIN journey.calls : ~journey.calls[i].past})
    IN  journey.next = journey.path[IF first = 1 THEN 2 ELSE first]

\* Once listed, the vehicle is shown at exactly the stops it is expected at, for as long
\* as the poll is recent, at the time of its earliest call there.
BoardShowsEstimates ==
  ~pending /\ ~torn /\ journey # None =>
    \A s \in Stops :
      /\ EstimatesAt(s) # {} /\ now - journey.modified <= FreshFor
           /\ Min(EstimatesAt(s)) + Grace > now
         => Shown(s) = Min(EstimatesAt(s))
      /\ EstimatesAt(s) = {} => board[s] = None
=============================================================================
