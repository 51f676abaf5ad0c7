----------------------------- MODULE RailFormation -----------------------------
(***************************************************************************)
(* What readers are told of a train's formation.  LINX sends the vehicles in the *)
(* morning, Darwin sends formations and how full each coach is.  The allocation,  *)
(* the loading, the position and the rest of the run are four records of Redis     *)
(* that expire apart; readers put them together, and Darwin writes back what it     *)
(* read.                                                                            *)
(***************************************************************************)
EXTENDS Integers, Sequences, FiniteSets, SequencesExt, TLC

CONSTANTS
  Formations,  \* Darwin's formations of the run: sequences of [fid, coaches]
  Consists,    \* LINX's consists: sequences of [group, position, reversed, vehicles]
  Loadings,    \* Darwin's loading messages: [fid, coaches, percentage]
  MaxMessages, MaxObservations, \* bounds on the feeds
  None

FormationAssumption ==
  /\ \A c \in Consists : \A i, j \in DOMAIN c : c[i].position = c[j].position => i = j
  /\ \A m \in Loadings : m.percentage >= 0 /\ m.coaches # <<>>

VARIABLES
  run,        \* the realtime journey's details, or None
  mapped,     \* whether Darwin's identifier of the run finds it
  allocation, \* the trains allocated, or None
  loading,    \* the trains with a loading, or None
  position,   \* time of the last observation of the train, or None
  retries,    \* Darwin's formations that found no run
  darwin,     \* what the Darwin feed is doing, or None
  retry,      \* a formation that the retry loop has found the run of, or None
  linx,       \* what the LINX consumer is doing, or None
  told,       \* history: [at, stray], the loading told of <<formation, coach>>
  sent, clock

vars == <<run, mapped, allocation, loading, position, retries, darwin, retry, linx, told, sent, clock>>

NothingTold == [at |-> <<>>, stray |-> FALSE]

Init ==
  /\ run = None /\ mapped = FALSE /\ allocation = None /\ loading = None /\ position = None
  /\ retries = {} /\ darwin = None /\ retry = None /\ linx = None
  /\ told = NothingTold /\ sent = 0 /\ clock = 0

-----------------------------------------------------------------------------
(* Trains, as the feeds build them. *)

BuildDarwinRailTrains(formation) == [i \in DOMAIN formation |->
  [id |-> formation[i].fid, position |-> i, length |-> Len(formation[i].coaches),
   carriages |-> [k \in DOMAIN formation[i].coaches |->
     [id |-> formation[i].coaches[k], vehicle |-> None, role |-> "Passenger", occupancy |-> -1]]]]

Counted(carriages) == Len(SelectSeq(carriages, LAMBDA c : c.role # "PowerCar"))

\* BuildRailTrains: a reversed unit is listed from its other end.
BuildRailTrains(consist) ==
  LET placed == SortSeq(consist, LAMBDA a, b : a.position < b.position)
      Carriages(unit) ==
        LET order == IF unit.reversed THEN Reverse(unit.vehicles) ELSE unit.vehicles
        IN [k \in DOMAIN order |->
             [id |-> <<unit.group, order[k].id>>, vehicle |-> order[k].id,
              role |-> order[k].role, occupancy |-> -1]]
  IN [i \in DOMAIN placed |->
       [id |-> placed[i].group, position |-> placed[i].position,
        length |-> Counted(Carriages(placed[i])), carriages |-> Carriages(placed[i])]]

Index(seq, Test(_)) == {i \in DOMAIN seq : Test(seq[i])}

\* findDarwinRailTrain: by its identifier, else the only train, else the only one with the coaches.
FindDarwinRailTrain(trains, fid, coaches) ==
  LET named == Index(trains, LAMBDA t : t.id = fid)
      holding == Index(trains, LAMBDA t : Range(coaches) \subseteq {t.carriages[k].id : k \in DOMAIN t.carriages})
  IN IF named # {} THEN named
     ELSE IF Len(trains) = 1 THEN {1}
     ELSE IF Cardinality(holding) = 1 THEN holding ELSE {}

NewCarriage(coach, percentage) ==
  [id |-> coach, vehicle |-> None, role |-> "Passenger", occupancy |-> percentage]

\* applyDarwinFormationLoading: coaches that the train lacks are added to it.
ApplyLoading(trains, m) ==
  LET found == FindDarwinRailTrain(trains, m.fid, m.coaches)
      Loaded(carriages) ==
        [k \in DOMAIN carriages |->
          IF carriages[k].id \in Range(m.coaches) THEN [carriages[k] EXCEPT !.occupancy = m.percentage]
          ELSE carriages[k]]
        \o LET missing == SelectSeq(m.coaches, LAMBDA c : \A k \in DOMAIN carriages : carriages[k].id # c)
            IN [k \in DOMAIN missing |-> NewCarriage(missing[k], m.percentage)]
  IN IF found = {}
     THEN Append(trains, [id |-> m.fid, position |-> Len(trains) + 1, length |-> 0,
                          carriages |-> Loaded(<<>>)])
     ELSE [i \in DOMAIN trains |->
            IF i \in found THEN [trains[i] EXCEPT !.carriages = Loaded(trains[i].carriages)] ELSE trains[i]]

-----------------------------------------------------------------------------
(* The two records of the formation, and how they are read. *)

\* UpdateRailDetailedAllocation: no carriage has a loading; no carriages delete the record.
AllocationOf(trains) ==
  IF \A i \in DOMAIN trains : trains[i].carriages = <<>> THEN None
  ELSE [i \in DOMAIN trains |-> [trains[i] EXCEPT !.carriages =
         [k \in DOMAIN @ |-> [@[k] EXCEPT !.occupancy = -1]]]]

\* UpdateRailDetailedLoading: only the carriages with a loading, and their trains.
LoadingOf(trains) ==
  LET known == [i \in DOMAIN trains |-> [trains[i] EXCEPT !.length = 0,
                 !.carriages = SelectSeq(@, LAMBDA c : c.occupancy >= 0)]]
      kept == SelectSeq(known, LAMBDA t : t.carriages # <<>>)
  IN IF kept = <<>> THEN None ELSE kept

\* enrichRailTrainAllocation: the length leaves out power cars.
Enriched(trains) ==
  [i \in DOMAIN trains |->
    IF trains[i].length = 0 \/ Counted(trains[i].carriages) < Len(trains[i].carriages)
    THEN [trains[i] EXCEPT !.length = Counted(trains[i].carriages)] ELSE trains[i]]

BugMatchingRailTrain(trains, t) ==
  LET named == Index(trains, LAMBDA u : u.id = t.id)
  IN IF named # {} THEN named ELSE IF Len(trains) = 1 THEN {1} ELSE {}

\* matchingRailTrainIndex: every train that is stored has an identifier.
MatchingRailTrain(trains, t) == Index(trains, LAMBDA u : u.id = t.id)

\* mergeRailTrainLoading: by the carriage's identifier, else by its vehicle, else as one more.
MergeCarriages(carriages, loads) ==
  LET SameId(c, l) == c.id = l.id
      SameVehicle(c, l) ==
        l.vehicle # None /\ c.vehicle = l.vehicle /\ \A k \in DOMAIN carriages : carriages[k].id # l.id
      Matched(c) == SelectSeq(loads, LAMBDA l : SameId(c, l) \/ SameVehicle(c, l))
      Unmatched(l) == \A k \in DOMAIN carriages : ~SameId(carriages[k], l) /\ ~SameVehicle(carriages[k], l)
  IN [k \in DOMAIN carriages |->
       IF Matched(carriages[k]) = <<>> THEN carriages[k]
       ELSE [carriages[k] EXCEPT !.occupancy = Last(Matched(carriages[k])).occupancy]]
     \o SelectSeq(loads, Unmatched)

\* mergeRailDetailed: a train with a loading that no train matches is shown as one more.
MergeRailDetailed(allocated, loads) ==
  LET Found(t) == MatchingRailTrain(allocated, t)
      Loads(i) == SelectSeq(loads, LAMBDA t : i \in Found(t))
  IN [i \in DOMAIN allocated |->
       [allocated[i] EXCEPT !.carriages =
         FoldLeft(LAMBDA acc, t : MergeCarriages(acc, t.carriages), allocated[i].carriages, Loads(i))]]
     \o SelectSeq(loads, LAMBDA t : Found(t) = {})

\* GetRailDetailed, as ApplyRailDetailed adds it to a run.
GetRailDetailed ==
  IF allocation = None /\ loading = None THEN <<>>
  ELSE IF allocation = None THEN loading
  ELSE IF loading = None THEN Enriched(allocation)
  ELSE MergeRailDetailed(Enriched(allocation), loading)

\* ApplyRealtimeJourneyOverlays: the records put over what a run was saved with.
Overlaid(journey) ==
  [journey EXCEPT !.trains = GetRailDetailed,
                  !.location = IF position # None THEN [known |-> TRUE, observed |-> position] ELSE @]

\* The run as it is stored (toCTDF), with what overlays it.
FindByIdentifier ==
  IF run = None THEN None
  ELSE Overlaid([rid |-> run.rid, total |-> run.total, trains |-> <<>>,
                 location |-> [known |-> run.location, observed |-> None]])

FindByMapping == IF mapped THEN FindByIdentifier ELSE None

\* storedRealtimeJourneyFromCTDF: a position with its time of observation is not copied.
Stored(journey) ==
  [rid |-> journey.rid, total |-> journey.total,
   location |-> journey.location.known /\ journey.location.observed = None]

\* SaveRealtimeJourney, with the mappings of its identifiers.
Save(journey) == run' = Stored(journey) /\ mapped' = (mapped \/ journey.rid)

\* A run that a feed creates because it finds none.
Created == [rid |-> FALSE, total |-> None, trains |-> <<>>, location |-> [known |-> FALSE, observed |-> None]]

-----------------------------------------------------------------------------
(* The Darwin feed: one message at a time. *)

Receive == darwin = None /\ sent < MaxMessages /\ sent' = sent + 1

\* A train status finds the run or creates it, and gives it Darwin's identifier.
ReadStatus ==
  /\ Receive
  /\ LET found == FindByIdentifier
     IN darwin' = [kind |-> "status", journey |-> [(IF found = None THEN Created ELSE found) EXCEPT !.rid = TRUE]]
  /\ UNCHANGED <<run, mapped, allocation, loading, position, retries, retry, linx, told, clock>>

SaveStatus ==
  /\ darwin # None /\ darwin.kind = "status"
  /\ Save(darwin.journey) /\ darwin' = None
  /\ UNCHANGED <<allocation, loading, position, retries, retry, linx, told, sent, clock>>

\* Schedule formations: kept for the retry loop when the run is not known.
ReadFormation(formation) ==
  /\ Receive
  /\ IF FindByMapping = None
     THEN retries' = retries \cup {formation} /\ UNCHANGED darwin
     ELSE darwin' = [kind |-> "formation", trains |-> BuildDarwinRailTrains(formation)] /\ UNCHANGED retries
  /\ UNCHANGED <<run, mapped, allocation, loading, position, retry, linx, told, clock>>

UpdateAllocation ==
  /\ darwin # None /\ darwin.kind = "formation"
  /\ allocation' = AllocationOf(darwin.trains) /\ darwin' = None
  /\ UNCHANGED <<run, mapped, loading, position, retries, retry, linx, told, sent, clock>>

\* What is told, as its reader meets it; a formation that is not known may go to another train.
Telling(m, trains) ==
  [at |-> [k \in {<<m.fid, c>> : c \in Range(m.coaches)} |-> m.percentage] @@ told.at,
   stray |-> told.stray \/ (trains # <<>> /\ \A i \in DOMAIN trains : trains[i].id # m.fid)]

ReadLoading(m) ==
  /\ Receive /\ FindByMapping # None
  /\ darwin' = [kind |-> "loading", step |-> 1, tell |-> Telling(m, GetRailDetailed),
                journey |-> [FindByMapping EXCEPT !.trains = ApplyLoading(@, m)]]
  /\ UNCHANGED <<run, mapped, allocation, loading, position, retries, retry, linx, told, clock>>

UpdateLoading ==
  /\ darwin # None /\ darwin.kind = "loading" /\ darwin.step = 1
  /\ loading' = LoadingOf(darwin.journey.trains)
  /\ told' = darwin.tell /\ darwin' = [darwin EXCEPT !.step = 2]
  /\ UNCHANGED <<run, mapped, allocation, position, retries, retry, linx, sent, clock>>

\* The mean of the loadings that are known, then the whole run is written.
SaveLoading ==
  /\ darwin # None /\ darwin.kind = "loading" /\ darwin.step = 2
  /\ LET loads == FoldLeft(LAMBDA acc, t : acc \o SelectSeq(t.carriages, LAMBDA c : c.occupancy >= 0),
                           <<>>, darwin.journey.trains)
         sum == FoldLeft(LAMBDA acc, c : acc + c.occupancy, 0, loads)
     IN Save([darwin.journey EXCEPT !.total = sum \div Len(loads)])
  /\ darwin' = None
  /\ UNCHANGED <<allocation, loading, position, retries, retry, linx, told, sent, clock>>

\* RetryRecords, beside the feed: what it applies is not removed.
FindRetry(formation) ==
  /\ retry = None /\ formation \in retries /\ FindByMapping # None
  /\ retry' = BuildDarwinRailTrains(formation)
  /\ UNCHANGED <<run, mapped, allocation, loading, position, retries, darwin, linx, told, sent, clock>>

ApplyRetry ==
  /\ retry # None
  /\ allocation' = IF FindByMapping # None THEN AllocationOf(retry) ELSE allocation
  /\ retry' = None
  /\ UNCHANGED <<run, mapped, loading, position, retries, darwin, linx, told, sent, clock>>

-----------------------------------------------------------------------------
(* The LINX consumer, the tracker and Redis. *)

\* ProcessPassengerTrainConsist: finds the run or creates it.
ReadConsist(consist) ==
  /\ linx = None /\ sent < MaxMessages /\ sent' = sent + 1
  /\ linx' = [consist |-> consist, found |-> FindByIdentifier, saved |-> FALSE]
  /\ UNCHANGED <<run, mapped, allocation, loading, position, retries, darwin, retry, told, clock>>

SaveConsist ==
  /\ linx # None /\ ~linx.saved
  /\ IF linx.found = None THEN Save(Created) ELSE mapped' = (mapped \/ linx.found.rid) /\ UNCHANGED run
  /\ linx' = [linx EXCEPT !.saved = TRUE]
  /\ UNCHANGED <<allocation, loading, position, retries, darwin, retry, told, sent, clock>>

UpdateConsist ==
  /\ linx # None /\ linx.saved
  /\ allocation' = AllocationOf(BuildRailTrains(linx.consist)) /\ linx' = None
  /\ UNCHANGED <<run, mapped, loading, position, retries, darwin, retry, told, sent, clock>>

\* RecordRailObservation
Observe ==
  /\ clock < MaxObservations /\ run # None
  /\ clock' = clock + 1 /\ position' = clock + 1
  /\ UNCHANGED <<run, mapped, allocation, loading, retries, darwin, retry, linx, told, sent>>

\* Each record has a time of its own to live.
Expire ==
  /\ \/ run # None /\ run' = None /\ UNCHANGED <<mapped, allocation, loading, position, told>>
     \/ mapped /\ mapped' = FALSE /\ UNCHANGED <<run, allocation, loading, position, told>>
     \/ allocation # None /\ allocation' = None /\ UNCHANGED <<run, mapped, loading, position, told>>
     \/ loading # None /\ loading' = None /\ told' = NothingTold /\ UNCHANGED <<run, mapped, allocation, position>>
     \/ position # None /\ position' = None /\ UNCHANGED <<run, mapped, allocation, loading, told>>
  /\ UNCHANGED <<retries, darwin, retry, linx, sent, clock>>

Next ==
  \/ ReadStatus \/ SaveStatus
  \/ \E f \in Formations : ReadFormation(f)
  \/ UpdateAllocation
  \/ \E m \in Loadings : ReadLoading(m)
  \/ UpdateLoading \/ SaveLoading
  \/ \E f \in Formations : FindRetry(f)
  \/ ApplyRetry
  \/ \E c \in Consists : ReadConsist(c)
  \/ SaveConsist \/ UpdateConsist
  \/ Observe \/ Expire

Spec == Init /\ [][Next]_vars

-----------------------------------------------------------------------------
(* Properties *)

TypeOK ==
  /\ run # None => run.rid \in BOOLEAN /\ run.location \in BOOLEAN
  /\ mapped \in BOOLEAN /\ clock \in 0..MaxObservations /\ sent \in 0..MaxMessages
  /\ position \in {None} \cup 1..MaxObservations /\ retries \subseteq Formations

\* However the records of the formation are replaced and expire apart, and whatever the
\* retry loop and LINX write while Darwin works on a loading, a reader finds every loading told
\* of a coach with the train of its formation, and on that train no other one: mergeRailDetailed
\* scopes loading to a train.
LoadingOnItsTrain ==
  ~told.stray =>
    /\ \A key \in DOMAIN told.at : \E i \in DOMAIN GetRailDetailed :
         LET t == GetRailDetailed[i]
         IN t.id = key[1] /\ \E k \in DOMAIN t.carriages :
              t.carriages[k].id = key[2] /\ t.carriages[k].occupancy = told.at[key]
    /\ \A i \in DOMAIN GetRailDetailed :
         LET t == GetRailDetailed[i]
         IN \A k \in DOMAIN t.carriages : t.carriages[k].occupancy >= 0 =>
              /\ <<t.id, t.carriages[k].id>> \in DOMAIN told.at
              /\ t.carriages[k].occupancy = told.at[<<t.id, t.carriages[k].id>>]

\* A position is only shown with the time it was observed, even when a feed that read it
\* writes the run back after the position itself has expired: "Copying the coordinates alone
\* would allow an old snapshot to surface without metadata" (storage.go).
PositionHasItsTime ==
  run # None => LET l == FindByIdentifier.location IN l.known => l.observed # None

\* What readers are told is what the feeds told.
ReadersAreToldTheFeeds == LoadingOnItsTrain /\ PositionHasItsTime
=============================================================================
