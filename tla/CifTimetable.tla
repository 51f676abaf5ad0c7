----------------------------- MODULE CifTimetable -----------------------------
(***************************************************************************)
(* The national rail timetable file.  Its lines are read into train definitions, these   *)
(* become journeys: a permanent or new schedule is a journey, a cancellation or an overlay  *)
(* takes its dates from the journeys of the train read so far, and an overlay is one more.    *)
(* The refreshed journeys keep the tracks of the legs of those they replace.                    *)
(***************************************************************************)
EXTENDS Integers, Sequences, FiniteSets, SequencesExt, FiniteSetsExt, Functions

CONSTANTS
  Files,       \* timetable files: sequences of lines, see ReadLine
  Lives,       \* journeys in use before: [id -> sequence of legs with tracks]
  Tiplocs,     \* [tiploc -> stop, or None], the stops that carry a TIPLOC
  Stations,    \* [tiploc -> stop with its CRS, or None], from the station file
  FullLength,  \* the TIPLOCs of seven letters: the station file pads the others
  None

VARIABLES
  file, live,  \* as above; file is what is left to read
  whole,       \* the file as it was
  current,     \* the definition being read
  holding,     \* it is not yet in sets
  sets,        \* TrainDefinitionSets
  journeys,    \* by identifier
  stage

vars == <<file, live, whole, current, holding, sets, journeys, stage>>

Init ==
  /\ whole \in Files /\ live \in Lives /\ file = whole
  /\ current = None /\ holding = FALSE /\ sets = <<>>
  /\ journeys = <<>> /\ stage = "parse"

-----------------------------------------------------------------------------
(* ParseMCA.  A cancellation has no locations: the next schedule or the trailer ends it. *)

BasicSchedule(line) == [schedule |-> line, atoc |-> None, locations |-> <<>>]

ReadLine ==
  /\ stage = "parse" /\ file # <<>>
  /\ file' = Tail(file)
  /\ LET line == Head(file)
         added == IF holding THEN Append(sets, current) ELSE sets
     IN CASE line.kind = "BS" ->
               /\ sets' = added
               /\ current' = BasicSchedule(line)
               /\ holding' = TRUE
          [] line.kind = "BX" ->
               /\ current' = [current EXCEPT !.atoc = line.atoc]
               /\ UNCHANGED <<holding, sets>>
          [] line.kind \in {"LO", "LI"} ->
               /\ current' = [current EXCEPT !.locations = Append(@, line)]
               /\ UNCHANGED <<holding, sets>>
          [] line.kind = "LT" ->
               /\ current' = [current EXCEPT !.locations = Append(@, line)]
               /\ sets' = Append(sets, current')
               /\ holding' = FALSE
          [] line.kind = "ZZ" ->
               /\ sets' = added
               /\ UNCHANGED <<current, holding>>
  /\ UNCHANGED <<live, whole, journeys, stage>>

Parsed ==
  /\ stage = "parse" /\ file = <<>>
  /\ stage' = "convert"
  /\ UNCHANGED <<file, live, whole, current, holding, sets, journeys>>

-----------------------------------------------------------------------------
(* CreateJourneyFromTraindef *)

StopOf(tiploc) ==
  IF Tiplocs[tiploc] # None THEN Tiplocs[tiploc]
  ELSE IF tiploc \in FullLength THEN Stations[tiploc] ELSE None

\* Where passengers can get off, the ends, and between two of them the points passed.
CallsAt(locations) == SelectSeq([i \in DOMAIN locations |-> i], LAMBDA i : locations[i].kind # "LI" \/ locations[i].public)
Leg(locations, i, k) ==
  [from |-> StopOf(locations[i].tiploc), to |-> StopOf(locations[k].tiploc),
   passing |-> [p \in 1..(k - i - 1) |-> locations[i + p].tiploc], track |-> None]

\* A stop that is not known leaves a gap.
PathOf(locations) ==
  LET calls == CallsAt(locations)
      legs == [c \in 1..(Len(calls) - 1) |-> Leg(locations, calls[c], calls[c + 1])]
  IN SelectSeq(legs, LAMBDA leg : leg.from # None /\ leg.to # None)

IsValidPassengerJourney(definition) == definition.schedule.passenger /\ definition.atoc \notin {"LT", "ZZ", None}

\* [uid, days, from, to, exclude: ranges, path]
CreateJourney(definition) ==
  LET s == definition.schedule
  IN [uid |-> s.uid, stp |-> s.stp, days |-> s.days, from |-> s.from, to |-> s.to, exclude |-> {},
      path |-> PathOf(definition.locations)]

-----------------------------------------------------------------------------
(* ConvertToCTDF: a definition at a time, in the order of the file. *)

Basic(s) == <<s.uid, s.from>>
Id(s) == <<s.uid, s.from, s.stp>>
With(f, key, value) == [k \in DOMAIN f \cup {key} |-> IF k = key THEN value ELSE f[k]]

BugExcluding(s) ==
  [id \in DOMAIN journeys |->
     IF journeys[id].uid = s.uid /\ journeys[id].stp # "O"
     THEN [journeys[id] EXCEPT !.exclude = @ \cup {<<s.from, s.to>>}] ELSE journeys[id]]

\* The range goes from every journey of the train so far, those of overlays included.
Excluding(s) ==
  [id \in DOMAIN journeys |->
     IF journeys[id].uid = s.uid THEN [journeys[id] EXCEPT !.exclude = @ \cup {<<s.from, s.to>>}] ELSE journeys[id]]
TrainDef == Head(sets)
Converting == stage = "convert" /\ sets # <<>>
NextSet == sets' = Tail(sets) /\ UNCHANGED <<file, live, whole, current, holding, stage>>

\* A new journey replaces one of the same train and first day, whatever its indicator.
AddSchedule ==
  /\ Converting /\ TrainDef.schedule.stp \in {"P", "N"} /\ IsValidPassengerJourney(TrainDef)
  /\ journeys' = With(journeys, Basic(TrainDef.schedule), CreateJourney(TrainDef))
  /\ NextSet

AddOverlay ==
  /\ Converting /\ TrainDef.schedule.stp = "O" /\ IsValidPassengerJourney(TrainDef)
  /\ journeys' = With(Excluding(TrainDef.schedule), Id(TrainDef.schedule), CreateJourney(TrainDef))
  /\ NextSet

Cancel ==
  /\ Converting /\ TrainDef.schedule.stp = "C"
  /\ journeys' = Excluding(TrainDef.schedule)
  /\ NextSet

SkipDefinition ==
  /\ Converting /\ TrainDef.schedule.stp # "C" /\ ~IsValidPassengerJourney(TrainDef)
  /\ UNCHANGED journeys
  /\ NextSet

-----------------------------------------------------------------------------
(* Import: preserveMatchingJourneyTrackRefs, then the journeys with a path are written. *)

\* Tracks are handed out in order, those of the same points passed first, else those recorded without points.
Matches(used, old, leg, passing) ==
  {o \in DOMAIN old \ used : /\ old[o].from = leg.from /\ old[o].to = leg.to
                             /\ old[o].passing = passing /\ old[o].track # None}
Candidates(used, old, leg) ==
  IF Matches(used, old, leg, leg.passing) # {} THEN Matches(used, old, leg, leg.passing)
  ELSE Matches(used, old, leg, <<>>)
Give(done, old, leg) ==
  LET found == Candidates(done.used, old, leg)
  IN IF found = {} THEN [done EXCEPT !.path = Append(@, leg)]
     ELSE [path |-> Append(done.path, [leg EXCEPT !.track = old[Min(found)].track]),
           used |-> done.used \cup {Min(found)}]

Preserved(path, old) ==
  FoldLeft(LAMBDA done, leg : Give(done, old, leg), [path |-> <<>>, used |-> {}], path).path

\* An identifier's key in journeys is not its primary identifier, which names the indicator.
Import ==
  /\ stage = "convert" /\ sets = <<>>
  /\ journeys' =
       [id \in {k \in DOMAIN journeys : journeys[k].path # <<>>} |->
          LET primary == <<journeys[id].uid, journeys[id].from, journeys[id].stp>>
          IN IF primary \in DOMAIN live THEN [journeys[id] EXCEPT !.path = Preserved(@, live[primary])]
             ELSE journeys[id]]
  /\ stage' = "done"
  /\ UNCHANGED <<file, live, whole, current, holding, sets>>

Next == ReadLine \/ Parsed \/ AddSchedule \/ AddOverlay \/ Cancel \/ SkipDefinition \/ Import

Spec == Init /\ [][Next]_vars

-----------------------------------------------------------------------------
(* What the file says, in the industry's own terms. *)

Runs(j, d) == d \in j.days /\ j.from <= d /\ d <= j.to /\ \A e \in j.exclude : d < e[1] \/ e[2] < d

\* Where each definition starts; the lines up to the next schedule are its own.
Schedules == {i \in DOMAIN whole : whole[i].kind = "BS"}
LinesOf(i) ==
  LET own == {k \in DOMAIN whole : k > i /\ whole[k].kind # "ZZ" /\ ~\E b \in Schedules : i < b /\ b <= k}
  IN [k \in 1..Cardinality(own) |-> whole[i + k]]
Definition(i) ==
  LET lines == LinesOf(i)
  IN [schedule |-> whole[i],
      atoc |-> IF lines # <<>> /\ lines[1].kind = "BX" THEN lines[1].atoc ELSE None,
      locations |-> SelectSeq(lines, LAMBDA l : l.kind # "BX")]
Counts(i) == whole[i].stp = "C" \/ IsValidPassengerJourney(Definition(i))
Applies(i, uid, d) ==
  /\ Counts(i) /\ whole[i].uid = uid
  /\ d \in whole[i].days /\ whole[i].from <= d /\ d <= whole[i].to

\* The schedule of a train on a day: of those for the day the last that a short-term plan filed, nothing if it
\* cancels.
InForce(uid, d) ==
  LET applying == {i \in Schedules : Applies(i, uid, d)}
      short == {i \in applying : whole[i].stp \in {"C", "O"}}
  IN IF short # {} THEN {i \in {Max(short)} : whole[i].stp = "O"} ELSE applying

\* After an import every train runs on every day exactly as the schedule in force says, on its passenger calls,
\* once, however permanent schedules, overlays and cancellations are stacked; and a leg's track was the track of the
\* same leg before, each handed to one leg.
RunsAsFiled ==
  stage = "done" =>
    /\ \A i \in Schedules : \A d \in whole[i].from..whole[i].to :
         LET uid == whole[i].uid
             running == {j \in Range(journeys) : j.uid = uid /\ Runs(j, d)}
             Bare(path) == [l \in DOMAIN path |-> [path[l] EXCEPT !.track = None]]
             filed == {k \in InForce(uid, d) : PathOf(Definition(k).locations) # <<>>}
         IN /\ {Bare(j.path) : j \in running} = {PathOf(Definition(k).locations) : k \in filed}
            /\ Cardinality(running) = Cardinality(filed)
    /\ \A id \in DOMAIN journeys :
         LET path == journeys[id].path
             tracked == {l \in DOMAIN path : path[l].track # None}
             old == live[<<journeys[id].uid, journeys[id].from, journeys[id].stp>>]
         IN /\ \A l, m \in tracked : l # m => path[l].track # path[m].track
            /\ \A l \in tracked : \E o \in DOMAIN old :
                 /\ old[o].track = path[l].track /\ old[o].from = path[l].from /\ old[o].to = path[l].to
                 /\ old[o].passing \in {<<>>, path[l].passing}
=============================================================================
