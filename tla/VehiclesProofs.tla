------------------------- MODULE VehiclesProofs -------------------------
(***************************************************************************)
(* Proofs about VehicleTracker: what the mapping script and the order of the   *)
(* commands of a consumer guarantee, for any number of consumers, observations  *)
(* and journeys, and any sizes of batches.  Of JourneyEstimates: that the estimates  *)
(* they store follow the observations.                                            *)
(***************************************************************************)
EXTENDS VehicleTracker, JourneyEstimates, SequenceTheorems, FiniteSetTheorems, TLAPS

-----------------------------------------------------------------------------
(* The invariant. *)

Rest     == {"idle", "ack"}
Handling == {"own", "claim", "find", "locate", "previous", "set", "publish"}

\* A consumer has something to do exactly while it is not at rest, and knows its journey
\* once the observation is admitted.
WorkInHand(c) ==
  /\ step[c] \in Rest <=> todo[c] = <<>>
  /\ step[c] \in Handling => held[c].journey \in Journeys
  /\ step[c] = "store" => held[c].journey \in Journeys \cup {NA}
  /\ step[c] = "claim" => Current(c).source = "GTFS-RT"
  /\ step[c] \in {"find", "previous", "set", "publish"} => Current(c).kind = "trip"

TypeInv == TypeOK /\ \A c \in Consumers : WorkInHand(c)

\* A delivery is with one consumer at most, and two consumers are only at work together
\* once `overlap` says so.
DeliveredOnce ==
  \A c, d \in Consumers : c # d => unacked[c] \cap unacked[d] = {}

OneAtWork ==
  ~overlap => \A c, d \in Consumers : c # d => step[c] \in Rest \/ step[d] \in Rest

QueueInv ==
  /\ DeliveredOnce /\ OneAtWork
  /\ \A c \in Consumers : ready \cap unacked[c] = {}

\* The mapping of a LocalID is as new as anything of it that was admitted; who is about to
\* store one has found none.
Trusted(l) == errors = 0 /\ (l \in Known \/ ~overlap)

Watermark(l) ==
  \A i \in DOMAIN admitted : Feed[admitted[i]].local = l =>
    mapping[l] # None /\ Feed[admitted[i]].at <= mapping[l].at

StoresFirst(l) ==
  \A c \in Consumers : step[c] \in {"identify", "store"} /\ Current(c).local = l => mapping[l] = None

AdmitInv ==
  /\ errors = 0 => \A l \in Known : mapping[l] # None
  /\ \A l \in Locals : Trusted(l) => InOrder(l) /\ Watermark(l) /\ StoresFirst(l)

\* Only what was admitted is told, and what a consumer is about to tell was not told yet.
WasAdmitted(o) == \E i \in DOMAIN admitted : admitted[i] = o

NotYetTold(o) == \A j \in Journeys : \A i \in DOMAIN published[j] : published[j][i].by # o

NoticeInv ==
  /\ \A j \in Journeys : \A i \in DOMAIN published[j] : WasAdmitted(published[j][i].by)
  /\ \A c \in Consumers : step[c] \in Handling =>
       /\ WasAdmitted(Head(todo[c]))
       /\ Trusted(Current(c).local) => NotYetTold(Head(todo[c]))
  /\ NoticeOnce

\* While consumers take turns, what one of them has read of a journey is what is there, or
\* it has expired: the snapshot it merges with, the one its events start from, and the
\* marker it has asked.
InTurn == errors = 0 /\ ~overlap

EndsAt(j, stop) == published[j] # <<>> /\ Last(published[j]).to = stop

Connected(j) ==
  /\ \A i \in 2..Len(published[j]) : published[j][i].from \in {None, published[j][i - 1].to}
  /\ details[j] # None /\ (\A c \in Consumers : step[c] = "publish" => held[c].journey # j) =>
       EndsAt(j, details[j].next)

TellsOn(c) ==
  /\ step[c] \in {"set", "publish"} /\ held[c].previous # None =>
       EndsAt(held[c].journey, held[c].previous.next)
  /\ step[c] = "publish" /\ details[held[c].journey] # None =>
       details[held[c].journey].next = Current(c).next

StoryInv ==
  InTurn =>
    /\ \A c \in Consumers : held[c].known
    /\ crashes = 0 => (\A j \in Journeys : Connected(j)) /\ (\A c \in Consumers : TellsOn(c))

MergesLatest(c) ==
  step[c] \in {"previous", "set"} \/ (step[c] = "locate" /\ Current(c).kind = "trip") =>
    details[held[c].journey] \in {None, held[c].found}

AsksOwner(c) == Current(c).source = "siri-vm" /\ (Current(c).by = "timetable" \/ Current(c).local \in Known)

GivesWay(c) ==
  step[c] \in {"store", "find", "locate", "previous", "set"} /\ AsksOwner(c) =>
    owner # held[c].journey

WriteInv == InTurn => \A c \in Consumers : MergesLatest(c) /\ GivesWay(c)

TrackerInv == TypeInv /\ QueueInv /\ AdmitInv /\ NoticeInv /\ StoryInv /\ WriteInv

-----------------------------------------------------------------------------
(* What a step of a consumer is about. *)

\* The observation a consumer is at.
LEMMA AtHand ==
  ASSUME TypeInv, NEW c \in Consumers, step[c] \notin Rest
  PROVE  /\ todo[c] # <<>> /\ Head(todo[c]) = todo[c][1]
         /\ Head(todo[c]) \in Observations /\ Head(todo[c]) \in unacked[c]
         /\ Current(c).local \in Locals /\ Current(c).at \in Nat /\ Current(c).at > 0
         /\ Current(c).source \in {"siri-vm", "GTFS-RT"} /\ Current(c).kind \in {"trip", "location"}
         /\ Current(c).journey \in Journeys \cup {None}
         /\ Current(c).by \in {"timetable", "location"} /\ Current(c).next \in Nat
<1>1. todo[c] # <<>> /\ todo[c] \in Seq(Observations)
  BY DEF TypeInv, TypeOK, WorkInHand
<1>2. Head(todo[c]) = todo[c][1] /\ 1 \in DOMAIN todo[c] /\ todo[c][1] \in Observations
  BY <1>1
<1>3. todo[c][1] \in unacked[c]
  BY <1>2 DEF TypeInv, TypeOK
<1>4. Current(c) \in Observation
  BY <1>1, <1>2, TrackerAssumption DEF Current
<1>. QED  BY <1>1, <1>2, <1>3, <1>4 DEF Observation

\* The commands a consumer sends for one observation.
Commands(c) ==
  \/ TouchMapping(c) \/ TouchMisses(c) \/ CheckOwner(c) \/ Identify(c) \/ StoreMapping(c)
  \/ ClaimJourney(c) \/ FindForUpdate(c) \/ GiveUp(c) \/ UpdateLocation(c)
  \/ PreviousForEvents(c) \/ SetDetails(c) \/ PublishEvents(c)

LEMMA CommandsKeep ==
  ASSUME TypeOK, NEW c \in Consumers, Commands(c)
  PROVE  /\ step[c] \notin Rest /\ todo' = todo /\ UNCHANGED queue /\ overlap' = overlap
         /\ \A d \in Consumers : d # c => step'[d] = step[d] /\ held'[d] = held[d]
<1>. USE DEF TypeOK, Goto, Rest, queue, Nothing
<1>1. CASE TouchMapping(c)   BY <1>1 DEF TouchMapping
<1>2. CASE TouchMisses(c)    BY <1>2 DEF TouchMisses
<1>3. CASE CheckOwner(c)     BY <1>3 DEF CheckOwner
<1>4. CASE Identify(c)       BY <1>4 DEF Identify
<1>5. CASE StoreMapping(c)   BY <1>5 DEF StoreMapping
<1>6. CASE ClaimJourney(c)   BY <1>6 DEF ClaimJourney
<1>7. CASE FindForUpdate(c)  BY <1>7 DEF FindForUpdate
<1>8. CASE GiveUp(c)         BY <1>8 DEF GiveUp
<1>9. CASE UpdateLocation(c) BY <1>9 DEF UpdateLocation
<1>10. CASE PreviousForEvents(c) BY <1>10 DEF PreviousForEvents
<1>11. CASE SetDetails(c)    BY <1>11 DEF SetDetails
<1>12. CASE PublishEvents(c) BY <1>12 DEF PublishEvents
<1>. QED
  BY <1>1, <1>2, <1>3, <1>4, <1>5, <1>6, <1>7, <1>8, <1>9, <1>10, <1>11, <1>12 DEF Commands

\* No step takes back a failed command or an overlap.
LEMMA FaultsStay ==
  ASSUME TypeOK, Next
  PROVE  /\ errors' \in Nat /\ crashes' \in Nat /\ (errors' = 0 => errors = 0)
         /\ (crashes' = 0 => crashes = 0) /\ (~overlap' => ~overlap)
<1>. USE DEF TypeOK, CommandFails, budgets
<1>1. CASE Crash BY <1>1 DEF Crash
<1>2. ASSUME NEW j \in Journeys, ExpireDetails(j) PROVE errors' = errors /\ crashes' = crashes /\ overlap' = overlap
  BY <1>2 DEF ExpireDetails
<1>3. ASSUME NEW c \in Consumers, Consumer(c)
      PROVE  /\ errors' \in {errors, errors + 1} /\ crashes' = crashes
             /\ overlap' = overlap \/ Consume(c)
  BY <1>3 DEF Consumer, Consume, TouchMapping, TouchMisses, CheckOwner, Identify, StoreMapping,
     ClaimJourney, FindForUpdate, GiveUp, UpdateLocation, PreviousForEvents, SetDetails,
     PublishEvents, EndOne, Ack
<1>4. ASSUME NEW c \in Consumers, Consume(c) PROVE overlap => overlap'
  BY <1>4 DEF Consume
<1>5. errors' \in Nat /\ crashes' \in Nat /\ (errors' = 0 => errors = 0) /\ (crashes' = 0 => crashes = 0)
  BY <1>1, <1>2, <1>3 DEF Next, Crash
<1>6. overlap => overlap'
  BY <1>1, <1>2, <1>3, <1>4, Zenon DEF Next, Crash
<1>. QED  BY <1>5, <1>6

-----------------------------------------------------------------------------
(* Types. *)

LEMMA WorkKept ==
  ASSUME NEW d \in Consumers, WorkInHand(d),
         step'[d] = step[d], held'[d] = held[d], todo'[d] = todo[d]
  PROVE  WorkInHand(d)'
BY DEF WorkInHand, Current

\* What commands change, and its types.
Stored ==
  /\ step \in [Consumers -> Steps] /\ held \in [Consumers -> Hand]
  /\ mapping \in [Locals -> Mapping \cup {None}] /\ owner \in Journeys \cup {None}
  /\ details \in [Journeys -> Snapshot \cup {None}] /\ location \in [Journeys -> Nat]
  /\ published \in [Journeys -> Seq(Event)] /\ admitted \in Seq(Observations)
  /\ crashes \in Nat /\ errors \in Nat /\ expiries \in Nat

\* Which commands write which key, and where a consumer may go.
LEMMA WhoWrites ==
  ASSUME TypeInv, NEW c \in Consumers, Commands(c)
  PROVE  /\ (mapping' = mapping /\ admitted' = admitted) \/ TouchMapping(c) \/ StoreMapping(c)
         /\ owner' = owner \/ ClaimJourney(c)
         /\ details' = details \/ SetDetails(c)
         /\ location' = location \/ UpdateLocation(c)
         /\ published' = published \/ PublishEvents(c)
         /\ held' = held \/ TouchMapping(c) \/ Identify(c) \/ FindForUpdate(c) \/ PreviousForEvents(c)
BY DEF Commands, TouchMapping, TouchMisses, CheckOwner, Identify, StoreMapping, ClaimJourney,
   FindForUpdate, GiveUp, UpdateLocation, PreviousForEvents, SetDetails, PublishEvents, redis

LEMMA StoredCommands ==
  ASSUME TypeInv, NEW c \in Consumers, Commands(c) PROVE Stored'
<1>1. Stored /\ held[c] \in Hand
  BY DEF TypeInv, TypeOK, Stored
<1>2. WorkInHand(c) /\ step[c] \notin Rest
  BY CommandsKeep DEF TypeInv
<1>3. /\ Head(todo[c]) \in Observations /\ Current(c).local \in Locals /\ Current(c).at \in Nat
      /\ Current(c).next \in Nat /\ Current(c).source \in {"siri-vm", "GTFS-RT"}
      /\ Current(c).journey \in Journeys \cup {None}
  BY <1>2, AtHand
<1>4. step' \in [Consumers -> Steps]
  <2>1. CASE TouchMapping(c)
    BY <1>1, <2>1 DEF TouchMapping, UpdateStep, Goto, Steps, Stored
  <2>2. CASE TouchMisses(c)
    BY <1>1, <2>2 DEF TouchMisses, UpdateStep, Goto, Steps, Stored
  <2>3. CASE CheckOwner(c)
    BY <1>1, <2>3 DEF CheckOwner, UpdateStep, Goto, Steps, Stored
  <2>4. CASE Identify(c)
    BY <1>1, <2>4 DEF Identify, UpdateStep, Goto, Steps, Stored
  <2>5. CASE StoreMapping(c)
    BY <1>1, <2>5 DEF StoreMapping, UpdateStep, Goto, Steps, Stored
  <2>6. CASE ClaimJourney(c)
    BY <1>1, <2>6 DEF ClaimJourney, UpdateStep, Goto, Steps, Stored
  <2>7. CASE FindForUpdate(c)
    BY <1>1, <2>7 DEF FindForUpdate, UpdateStep, Goto, Steps, Stored
  <2>8. CASE GiveUp(c)
    BY <1>1, <2>8 DEF GiveUp, UpdateStep, Goto, Steps, Stored
  <2>9. CASE UpdateLocation(c)
    BY <1>1, <2>9 DEF UpdateLocation, UpdateStep, Goto, Steps, Stored
  <2>10. CASE PreviousForEvents(c)
    BY <1>1, <2>10 DEF PreviousForEvents, UpdateStep, Goto, Steps, Stored
  <2>11. CASE SetDetails(c)
    BY <1>1, <2>11 DEF SetDetails, UpdateStep, Goto, Steps, Stored
  <2>12. CASE PublishEvents(c)
    BY <1>1, <2>12 DEF PublishEvents, UpdateStep, Goto, Steps, Stored
  <2>. QED
    BY <2>1, <2>2, <2>3, <2>4, <2>5, <2>6, <2>7, <2>8, <2>9, <2>10, <2>11, <2>12 DEF Commands
<1>5. held' \in [Consumers -> Hand]
  <2>0. held \in [Consumers -> Hand]
    BY <1>1 DEF Stored
  <2>1. CASE held' = held  BY <2>0, <2>1
  <2>2. CASE TouchMapping(c)
    <3>1. CASE mapping[Current(c).local].journey # NA /\ Current(c).at > mapping[Current(c).local].at
      <4>1. mapping[Current(c).local] \in Mapping
        BY <1>1, <1>3, <2>2 DEF TouchMapping, Stored
      <4>2. mapping[Current(c).local].journey \in Journeys \cup {None, NA}
        BY <4>1 DEF Mapping
      <4>3. held' = held \/ held' = [held EXCEPT ![c].journey = mapping[Current(c).local].journey]
        BY <2>2 DEF TouchMapping
      <4>. QED  BY <2>0, <4>2, <4>3 DEF Hand
    <3>2. QED
      <4>1. mapping[Current(c).local] \in Mapping
        BY <1>1, <1>3, <2>2 DEF TouchMapping, Stored
      <4>2. mapping[Current(c).local].at \in Nat
        BY <4>1 DEF Mapping
      <4>. QED  BY <1>3, <2>0, <2>2, <3>1, <4>2 DEF TouchMapping
  <2>3. CASE Identify(c)
    <3>1. held' = held \/ \E j \in Journeys \cup {None, NA} : held' = [held EXCEPT ![c].journey = j]
      BY <1>3, <2>3 DEF Identify
    <3>. QED  BY <2>0, <3>1 DEF Hand
  <2>4. CASE FindForUpdate(c)
    <3>1. details[held[c].journey] \in Snapshot \cup {None}
      BY <1>1, <1>2, <2>4 DEF FindForUpdate, Stored, WorkInHand, Handling
    <3>2. \/ held' = [held EXCEPT ![c].found = details[held[c].journey]]
          \/ held' = [held EXCEPT ![c].found = None]
      BY <2>4 DEF FindForUpdate
    <3>. QED  BY <2>0, <3>1, <3>2 DEF Hand
  <2>5. CASE PreviousForEvents(c)
    <3>1. details[held[c].journey] \in Snapshot \cup {None}
      BY <1>1, <1>2, <2>5 DEF PreviousForEvents, Stored, WorkInHand, Handling
    <3>2. \/ held' = [held EXCEPT ![c].previous = details[held[c].journey]]
          \/ held' = [held EXCEPT ![c].known = FALSE]
      BY <2>5 DEF PreviousForEvents
    <3>. QED  BY <2>0, <3>1, <3>2 DEF Hand
  <2>. QED  BY <2>1, <2>2, <2>3, <2>4, <2>5, WhoWrites
<1>6. mapping' \in [Locals -> Mapping \cup {None}] /\ admitted' \in Seq(Observations)
  <2>0. mapping \in [Locals -> Mapping \cup {None}] /\ admitted \in Seq(Observations)
    BY <1>1 DEF Stored
  <2>1. CASE mapping' = mapping /\ admitted' = admitted  BY <2>0, <2>1
  <2>2. CASE TouchMapping(c)
    <3>1. mapping[Current(c).local] \in Mapping
      BY <1>3, <2>0, <2>2 DEF TouchMapping
    <3>2. [mapping[Current(c).local] EXCEPT !.at = Current(c).at] \in Mapping
      BY <1>3, <3>1 DEF Mapping
    <3>3. admitted' = admitted \/ admitted' = Append(admitted, Head(todo[c]))
      BY <2>2 DEF TouchMapping
    <3>4. \/ mapping' = mapping
          \/ mapping' = [mapping EXCEPT ![Current(c).local] = [mapping[Current(c).local] EXCEPT !.at = Current(c).at]]
      BY <2>2 DEF TouchMapping
    <3>5. mapping' \in [Locals -> Mapping \cup {None}]
      BY <2>0, <3>2, <3>4
    <3>. QED  BY <1>3, <2>0, <3>3, <3>5
  <2>3. CASE StoreMapping(c)
    <3>1. [journey |-> held[c].journey, at |-> Current(c).at] \in Mapping
      BY <1>2, <1>3, <2>3 DEF StoreMapping, WorkInHand, Mapping
    <3>2. admitted' = admitted \/ admitted' = Append(admitted, Head(todo[c]))
      BY <2>3 DEF StoreMapping
    <3>3. \/ mapping' = mapping
          \/ mapping' = [mapping EXCEPT ![Current(c).local] = [journey |-> held[c].journey, at |-> Current(c).at]]
      BY <2>3 DEF StoreMapping
    <3>4. mapping' \in [Locals -> Mapping \cup {None}]
      BY <2>0, <3>1, <3>3
    <3>. QED  BY <1>3, <2>0, <3>2, <3>4
  <2>. QED  BY <2>1, <2>2, <2>3, WhoWrites
<1>7. owner' \in Journeys \cup {None}
  BY <1>1, <1>2, WhoWrites DEF ClaimJourney, Stored, WorkInHand, Handling
<1>8. details' \in [Journeys -> Snapshot \cup {None}]
  <2>1. CASE SetDetails(c)
    <3>1. Merged(c) \in SUBSET Observations
      BY <1>1, <1>3 DEF Merged, Hand, Snapshot
    <3>2. [source |-> Current(c).source, next |-> Current(c).next, merged |-> Merged(c)] \in Snapshot
      BY <1>3, <3>1 DEF Snapshot
    <3>. QED  BY <1>1, <2>1, <3>2 DEF SetDetails, Stored
  <2>. QED  BY <1>1, <2>1, WhoWrites DEF Stored
<1>9. location' \in [Journeys -> Nat]
  BY <1>1, <1>3, WhoWrites DEF UpdateLocation, Stored
<1>10. published' \in [Journeys -> Seq(Event)]
  <2>1. CASE PublishEvents(c)
    <3>1. Change(c) \in Event
      BY <1>1, <1>3 DEF Change, Event, Hand, Snapshot
    <3>2. held[c].journey \in Journeys
      BY <1>2, <2>1 DEF PublishEvents, WorkInHand, Handling
    <3>3. published \in [Journeys -> Seq(Event)]
      BY <1>1 DEF Stored
    <3>4. \/ published' = published
          \/ published' = [published EXCEPT ![held[c].journey] = Append(published[held[c].journey], Change(c))]
      BY <2>1 DEF PublishEvents
    <3>5. Append(published[held[c].journey], Change(c)) \in Seq(Event)
      BY <3>1, <3>2, <3>3
    <3>. QED  BY <3>2, <3>3, <3>4, <3>5
  <2>. QED  BY <1>1, <2>1, WhoWrites DEF Stored
<1>11. crashes' \in Nat /\ errors' \in Nat /\ expiries' \in Nat
  BY <1>1 DEF Stored, Commands, TouchMapping, TouchMisses, CheckOwner, Identify, StoreMapping, ClaimJourney,
     FindForUpdate, GiveUp, UpdateLocation, PreviousForEvents, SetDetails, PublishEvents, CommandFails, budgets
<1>. QED  BY <1>4, <1>5, <1>6, <1>7, <1>8, <1>9, <1>10, <1>11 DEF Stored

\* Where a command leads, and with which journey.
LEMMA Advance ==
  ASSUME TypeInv, NEW c \in Consumers, Commands(c)
  PROVE  /\ step'[c] \notin Rest
         /\ step'[c] \in Handling => held'[c].journey \in Journeys
         /\ step'[c] = "store" => held'[c].journey \in Journeys \cup {NA}
         /\ step'[c] = "claim" => Current(c).source = "GTFS-RT"
         /\ step'[c] \in {"find", "previous", "set", "publish"} => Current(c).kind = "trip"
<1>1. /\ step \in [Consumers -> Steps] /\ held \in [Consumers -> Hand]
      /\ mapping \in [Locals -> Mapping \cup {None}]
  BY DEF TypeInv, TypeOK
<1>2. /\ step[c] \notin Rest
      /\ step[c] \in Handling => held[c].journey \in Journeys
      /\ step[c] = "store" => held[c].journey \in Journeys \cup {NA}
      /\ step[c] \in {"find", "previous", "set", "publish"} => Current(c).kind = "trip"
  BY CommandsKeep DEF TypeInv, WorkInHand
<1>3. /\ Current(c).local \in Locals /\ Current(c).journey \in Journeys \cup {None}
      /\ Current(c).kind \in {"trip", "location"}
  BY <1>2, AtHand
<1>. USE DEF Rest, Handling
<1>4. CASE TouchMapping(c)
  <2>1. mapping[Current(c).local] \in Mapping
    BY <1>1, <1>3, <1>4 DEF TouchMapping
  <2>2. \/ step'[c] = "done"
        \/ /\ step'[c] = "own" /\ mapping[Current(c).local].journey # NA
           /\ held' = [held EXCEPT ![c].journey = mapping[Current(c).local].journey]
    BY <1>1, <1>4 DEF TouchMapping, Goto
  <2>. QED  BY <1>1, <2>1, <2>2 DEF Mapping, Hand
<1>5. CASE TouchMisses(c)
  BY <1>1, <1>2, <1>3, <1>5 DEF TouchMisses, UpdateStep, Goto
<1>6. CASE CheckOwner(c)
  BY <1>1, <1>2, <1>3, <1>6 DEF CheckOwner, UpdateStep, Goto
<1>7. CASE Identify(c)
  <2>1. \/ step'[c] = "done"
        \/ /\ step'[c] = "store"
           /\ held' = [held EXCEPT ![c].journey = IF Current(c).journey = None THEN NA ELSE Current(c).journey]
    BY <1>1, <1>7 DEF Identify, Goto
  <2>. QED  BY <1>1, <1>3, <2>1 DEF Hand
<1>8. CASE StoreMapping(c)
  BY <1>1, <1>2, <1>3, <1>8 DEF StoreMapping, UpdateStep, Goto
<1>9. CASE ClaimJourney(c)
  BY <1>1, <1>2, <1>3, <1>9 DEF ClaimJourney, UpdateStep, Goto
<1>10. CASE FindForUpdate(c)
  <2>1. step'[c] = "locate" /\ held'[c].journey = held[c].journey
    BY <1>1, <1>10 DEF FindForUpdate, Goto, Hand
  <2>. QED  BY <1>2, <1>10, <2>1 DEF FindForUpdate
<1>11. CASE GiveUp(c)
  BY <1>1, <1>2, <1>3, <1>11 DEF GiveUp, UpdateStep, Goto
<1>12. CASE UpdateLocation(c)
  BY <1>1, <1>2, <1>3, <1>12 DEF UpdateLocation, UpdateStep, Goto
<1>13. CASE PreviousForEvents(c)
  <2>1. step'[c] = "set" /\ held'[c].journey = held[c].journey
    BY <1>1, <1>13 DEF PreviousForEvents, Goto, Hand
  <2>. QED  BY <1>2, <1>13, <2>1 DEF PreviousForEvents
<1>14. CASE SetDetails(c)
  BY <1>1, <1>2, <1>3, <1>14 DEF SetDetails, UpdateStep, Goto
<1>15. CASE PublishEvents(c)
  BY <1>1, <1>2, <1>3, <1>15 DEF PublishEvents, UpdateStep, Goto
<1>. QED
  BY <1>4, <1>5, <1>6, <1>7, <1>8, <1>9, <1>10, <1>11, <1>12, <1>13, <1>14, <1>15 DEF Commands

LEMMA TypeCommands ==
  ASSUME TypeInv, NEW c \in Consumers, Commands(c) PROVE TypeInv'
<1>1. /\ step[c] \notin Rest /\ todo' = todo /\ UNCHANGED queue /\ overlap' = overlap
      /\ \A d \in Consumers : d # c => step'[d] = step[d] /\ held'[d] = held[d]
  BY CommandsKeep DEF TypeInv
<1>2. WorkInHand(c)'
  BY <1>1, Advance DEF TypeInv, WorkInHand, Current
<1>3. \A d \in Consumers : WorkInHand(d)'
  BY <1>1, <1>2, WorkKept DEF TypeInv
<1>4. TypeOK'
  BY <1>1, StoredCommands DEF TypeInv, TypeOK, Stored, queue
<1>. QED  BY <1>3, <1>4 DEF TypeInv

LEMMA TypeConsume ==
  ASSUME TypeInv, NEW c \in Consumers, Consume(c) PROVE TypeInv'
<1>0. PICK batch \in SUBSET ready :
        /\ batch # {} /\ ready' = ready \ batch /\ unacked' = [unacked EXCEPT ![c] = batch]
        /\ \E order \in SetToSeqs(batch) : todo' = [todo EXCEPT ![c] = order]
  BY DEF Consume
<1>1. PICK order \in SetToSeqs(batch) : todo' = [todo EXCEPT ![c] = order]
  BY <1>0
<1>2. batch \subseteq Observations /\ IsFiniteSet(batch) /\ Cardinality(batch) \in Nat \ {0}
  <2>1. batch \subseteq Observations
    BY DEF TypeInv, TypeOK
  <2>2. IsFiniteSet(batch)
    BY <2>1, TrackerAssumption, FS_Subset
  <2>. QED  BY <1>0, <2>1, <2>2, FS_CardinalityType, FS_EmptySet
<1>3. order \in Seq(Observations) /\ order # <<>> /\ \A i \in DOMAIN order : order[i] \in batch
  BY <1>2 DEF SetToSeqs
<1>4. step' = [step EXCEPT ![c] = "touch"] /\ held' = held /\ UNCHANGED <<redis, published, admitted, budgets>>
  BY DEF Consume, Goto
<1>5. overlap' \in BOOLEAN
  BY Zenon DEF Consume
<1>6. \A d \in Consumers : WorkInHand(d)'
  <2>1. ASSUME NEW d \in Consumers, d # c PROVE WorkInHand(d)'
    BY <1>1, <1>4, <2>1, WorkKept DEF TypeInv, TypeOK
  <2>2. WorkInHand(c)'
    BY <1>1, <1>3, <1>4 DEF TypeInv, TypeOK, WorkInHand, Rest, Handling
  <2>. QED  BY <2>1, <2>2
<1>7. ready' \subseteq Observations /\ unacked' \in [Consumers -> SUBSET Observations]
  BY <1>0, <1>2 DEF TypeInv, TypeOK
<1>8. todo' \in [Consumers -> Seq(Observations)]
  BY <1>1, <1>3 DEF TypeInv, TypeOK
<1>9. \A d \in Consumers : \A i \in DOMAIN todo'[d] : todo'[d][i] \in unacked'[d]
  BY <1>0, <1>1, <1>3 DEF TypeInv, TypeOK
<1>10. step' \in [Consumers -> Steps]
  BY <1>4 DEF TypeInv, TypeOK, Steps
<1>11. TypeOK'
  BY <1>4, <1>5, <1>7, <1>8, <1>9, <1>10 DEF TypeInv, TypeOK, redis, budgets
<1>. QED  BY <1>6, <1>11 DEF TypeInv

LEMMA TypeEndOne ==
  ASSUME TypeInv, NEW c \in Consumers, EndOne(c) PROVE TypeInv'
<1>1. /\ todo' = [todo EXCEPT ![c] = Tail(todo[c])] /\ held' = [held EXCEPT ![c] = Nothing]
      /\ step' = [step EXCEPT ![c] = IF Len(todo[c]) = 1 THEN "ack" ELSE "touch"]
      /\ UNCHANGED <<queue, redis, published, admitted, budgets, overlap>>
  BY DEF EndOne, Goto
<1>2. todo[c] \in Seq(Observations) /\ todo[c] # <<>>
  BY DEF TypeInv, TypeOK, WorkInHand, EndOne, Rest
<1>3. /\ Tail(todo[c]) \in Seq(Observations) /\ (Tail(todo[c]) = <<>> <=> Len(todo[c]) = 1)
      /\ \A i \in DOMAIN Tail(todo[c]) : i + 1 \in DOMAIN todo[c] /\ Tail(todo[c])[i] = todo[c][i + 1]
  <2>1. /\ Tail(todo[c]) \in Seq(Observations) /\ Len(Tail(todo[c])) = Len(todo[c]) - 1
        /\ \A i \in 1..Len(Tail(todo[c])) : Tail(todo[c])[i] = todo[c][i + 1]
    BY <1>2
  <2>2. DOMAIN Tail(todo[c]) = 1..Len(Tail(todo[c])) /\ DOMAIN todo[c] = 1..Len(todo[c]) /\ Len(todo[c]) \in Nat
    BY <1>2, <2>1
  <2>3. Tail(todo[c]) = <<>> <=> Len(Tail(todo[c])) = 0
    BY <2>1, EmptySeq
  <2>. QED  BY <2>1, <2>2, <2>3
<1>4. \A d \in Consumers : WorkInHand(d)'
  <2>1. ASSUME NEW d \in Consumers, d # c PROVE WorkInHand(d)'
    BY <1>1, <2>1, WorkKept DEF TypeInv, TypeOK
  <2>2. WorkInHand(c)'
    BY <1>1, <1>3 DEF TypeInv, TypeOK, WorkInHand, Rest, Handling
  <2>. QED  BY <2>1, <2>2
<1>5. todo' \in [Consumers -> Seq(Observations)]
  BY <1>1, <1>3 DEF TypeInv, TypeOK
<1>6. \A d \in Consumers : \A i \in DOMAIN todo'[d] : todo'[d][i] \in unacked'[d]
  BY <1>1, <1>3 DEF TypeInv, TypeOK, queue
<1>7. step' \in [Consumers -> Steps] /\ held' \in [Consumers -> Hand]
  <2>1. Nothing \in Hand
    BY DEF Nothing, Hand
  <2>. QED  BY <1>1, <2>1 DEF TypeInv, TypeOK, Steps
<1>8. TypeOK'
  BY <1>1, <1>5, <1>6, <1>7 DEF TypeInv, TypeOK, redis, budgets, queue
<1>. QED  BY <1>4, <1>8 DEF TypeInv

LEMMA TypeAck ==
  ASSUME TypeInv, NEW c \in Consumers, Ack(c) PROVE TypeInv'
<1>1. PICK o \in unacked[c] :
        /\ unacked' = [unacked EXCEPT ![c] = @ \ {o}]
        /\ step' = [step EXCEPT ![c] = IF unacked[c] = {o} THEN "idle" ELSE "ack"]
  BY DEF Ack, Goto
<1>2. UNCHANGED <<ready, todo, held, redis, published, admitted, budgets, overlap>> /\ step[c] = "ack"
  BY DEF Ack
<1>3. \A d \in Consumers : WorkInHand(d)'
  <2>1. ASSUME NEW d \in Consumers, d # c PROVE WorkInHand(d)'
    BY <1>1, <1>2, <2>1, WorkKept DEF TypeInv, TypeOK
  <2>2. WorkInHand(c)'
    BY <1>1, <1>2 DEF TypeInv, TypeOK, WorkInHand, Rest, Handling
  <2>. QED  BY <2>1, <2>2
<1>4. todo[c] = <<>>
  BY <1>2 DEF TypeInv, WorkInHand, Rest
<1>5. /\ unacked' \in [Consumers -> SUBSET Observations] /\ step' \in [Consumers -> Steps]
      /\ \A d \in Consumers : \A i \in DOMAIN todo'[d] : todo'[d][i] \in unacked'[d]
  BY <1>1, <1>2, <1>4 DEF TypeInv, TypeOK, Steps
<1>6. TypeOK'
  BY <1>2, <1>5 DEF TypeInv, TypeOK, redis, budgets
<1>. QED  BY <1>3, <1>6 DEF TypeInv

LEMMA TypeCrash ==
  ASSUME TypeInv, Crash PROVE TypeInv'
<1>1. /\ ready' = ready \cup UNION {unacked[c] : c \in Consumers}
      /\ unacked' = [c \in Consumers |-> {}] /\ todo' = [c \in Consumers |-> <<>>]
      /\ step' = [c \in Consumers |-> "idle"] /\ held' = [c \in Consumers |-> Nothing]
      /\ crashes' = crashes + 1 /\ UNCHANGED <<redis, published, admitted, errors, expiries, overlap>>
  BY DEF Crash
<1>2. Nothing \in Hand
  BY DEF Nothing, Hand
<1>3. ready' \subseteq Observations
  BY <1>1 DEF TypeInv, TypeOK
<1>4. TypeOK'
  BY <1>1, <1>2, <1>3 DEF TypeInv, TypeOK, redis, Steps
<1>5. \A c \in Consumers : WorkInHand(c)'
  BY <1>1 DEF WorkInHand, Rest, Handling
<1>. QED  BY <1>4, <1>5 DEF TypeInv

LEMMA TypeExpire ==
  ASSUME TypeInv, NEW j \in Journeys, ExpireDetails(j) PROVE TypeInv'
<1>1. /\ details' = [details EXCEPT ![j] = None] /\ expiries' = expiries + 1
      /\ UNCHANGED <<queue, todo, step, held, mapping, owner, location, published, admitted,
                     overlap, crashes, errors>>
  BY DEF ExpireDetails
<1>2. details' \in [Journeys -> Snapshot \cup {None}]
  BY <1>1 DEF TypeInv, TypeOK
<1>3. TypeOK'
  BY <1>1, <1>2 DEF TypeInv, TypeOK, queue
<1>4. \A c \in Consumers : WorkInHand(c)'
  BY <1>1, WorkKept DEF TypeInv
<1>. QED  BY <1>3, <1>4 DEF TypeInv

LEMMA TypeStep ==
  ASSUME TypeInv, [Next]_vars PROVE TypeInv'
<1>1. CASE UNCHANGED vars
  <2>1. TypeOK'
    BY <1>1 DEF vars, queue, redis, budgets, TypeInv, TypeOK
  <2>2. \A c \in Consumers : WorkInHand(c)'
    BY <1>1, WorkKept DEF vars, TypeInv
  <2>. QED  BY <2>1, <2>2 DEF TypeInv
<1>2. ASSUME NEW c \in Consumers, Consumer(c) PROVE TypeInv'
  BY <1>2, TypeCommands, TypeConsume, TypeEndOne, TypeAck DEF Consumer, Commands
<1>. QED  BY <1>1, <1>2, TypeCrash, TypeExpire DEF Next

LEMMA KnownJourney ==
  ASSUME NEW l \in Known PROVE JourneyOf(l) \in Journeys
<1>1. \E o \in Observations : Feed[o].local = l /\ Feed[o].journey # None
  BY TrackerAssumption
<1>2. \A o \in Observations : Feed[o].journey \in Journeys \cup {None}
  BY TrackerAssumption DEF Observation
<1>. QED  BY <1>1, <1>2 DEF JourneyOf

LEMMA TypeInit == Init => TypeInv
<1>. SUFFICES ASSUME Init PROVE TypeInv
  OBVIOUS
<1>1. Nothing \in Hand
  BY DEF Nothing, Hand
<1>2. mapping \in [Locals -> Mapping \cup {None}]
  BY KnownJourney DEF Init, Mapping, TimeOfKnown
<1>3. TypeOK
  <2>1. /\ ready \subseteq Observations /\ unacked \in [Consumers -> SUBSET Observations]
        /\ todo \in [Consumers -> Seq(Observations)]
        /\ \A c \in Consumers : \A i \in DOMAIN todo[c] : todo[c][i] \in unacked[c]
    BY DEF Init
  <2>2. step \in [Consumers -> Steps] /\ held \in [Consumers -> Hand]
    BY <1>1 DEF Init, Steps
  <2>3. /\ owner \in Journeys \cup {None} /\ details \in [Journeys -> Snapshot \cup {None}]
        /\ location \in [Journeys -> Nat] /\ published \in [Journeys -> Seq(Event)]
        /\ crashes \in Nat /\ errors \in Nat /\ expiries \in Nat
    BY DEF Init
  <2>4. admitted \in Seq(Observations)
    BY DEF Init
  <2>5. overlap \in BOOLEAN
    BY Zenon DEF Init
  <2>. QED  BY <1>2, <2>1, <2>2, <2>3, <2>4, <2>5 DEF TypeOK
<1>4. \A c \in Consumers : WorkInHand(c)
  BY DEF Init, WorkInHand, Rest, Handling
<1>. QED  BY <1>3, <1>4 DEF TypeInv

-----------------------------------------------------------------------------
(* Deliveries. *)

LEMMA QueueStep ==
  ASSUME TypeInv, QueueInv, [Next]_vars PROVE QueueInv'
<1>. USE DEF QueueInv, DeliveredOnce, OneAtWork
<1>1. CASE UNCHANGED vars
  BY <1>1 DEF vars, queue
<1>2. ASSUME NEW c \in Consumers, Commands(c) PROVE QueueInv'
  <2>1. /\ step[c] \notin Rest /\ UNCHANGED <<ready, unacked, overlap>>
        /\ \A d \in Consumers : d # c => step'[d] = step[d]
    BY <1>2, CommandsKeep DEF TypeInv, queue
  <2>. QED  BY <2>1
<1>3. ASSUME NEW c \in Consumers, Consume(c) PROVE QueueInv'
  <2>1. PICK batch \in SUBSET ready : ready' = ready \ batch /\ unacked' = [unacked EXCEPT ![c] = batch]
    BY <1>3 DEF Consume
  <2>2. /\ DeliveredOnce' /\ \A d \in Consumers : ready' \cap unacked'[d] = {}
    BY <2>1 DEF TypeInv, TypeOK
  <2>3. overlap' <=> (overlap \/ \E d \in Consumers \ {c} : step[d] \notin Rest)
    BY <1>3, Zenon DEF Consume, Rest
  <2>4. \A d \in Consumers \ {c} : step'[d] = step[d]
    BY <1>3 DEF Consume, Goto, TypeInv, TypeOK
  <2>5. OneAtWork'
    BY <2>3, <2>4
  <2>. QED  BY <2>2, <2>5
<1>4. ASSUME NEW c \in Consumers, EndOne(c) PROVE QueueInv'
  <2>1. /\ step[c] \notin Rest /\ UNCHANGED <<ready, unacked, overlap>>
        /\ \A d \in Consumers : d # c => step'[d] = step[d]
    BY <1>4 DEF EndOne, Goto, Rest, queue, TypeInv, TypeOK
  <2>. QED  BY <2>1
<1>5. ASSUME NEW c \in Consumers, Ack(c) PROVE QueueInv'
  <2>1. /\ step'[c] \in Rest /\ UNCHANGED <<ready, overlap>>
        /\ \A d \in Consumers : unacked'[d] \subseteq unacked[d] /\ (d # c => step'[d] = step[d])
    BY <1>5 DEF Ack, Goto, Rest, TypeInv, TypeOK
  <2>. QED  BY <2>1
<1>6. CASE Crash
  BY <1>6 DEF Crash, Rest
<1>7. ASSUME NEW j \in Journeys, ExpireDetails(j) PROVE QueueInv'
  BY <1>7 DEF ExpireDetails, queue
<1>. QED
  BY <1>1, <1>2, <1>3, <1>4, <1>5, <1>6, <1>7 DEF Next, Consumer, Commands

-----------------------------------------------------------------------------
(* Admission. *)

\* What an admission adds.
LEMMA Admits ==
  ASSUME TypeInv, NEW o \in Observations, admitted' = Append(admitted, o)
  PROVE  /\ Len(admitted) \in Nat /\ DOMAIN admitted = 1..Len(admitted)
         /\ DOMAIN admitted' = 1..(Len(admitted) + 1) /\ admitted'[Len(admitted) + 1] = o
         /\ \A i \in DOMAIN admitted : admitted'[i] = admitted[i] /\ admitted[i] \in Observations
BY DEF TypeInv, TypeOK

LEMMA AdmitKept ==
  ASSUME AdmitInv, mapping' = mapping, admitted' = admitted,
         errors' = 0 => errors = 0, ~overlap' => ~overlap,
         \A c \in Consumers : step'[c] \in {"identify", "store"} =>
           step[c] \in {"identify", "store"} /\ todo'[c] = todo[c]
  PROVE  AdmitInv'
<1>1. ASSUME NEW l \in Locals, Trusted(l)' PROVE InOrder(l)' /\ Watermark(l)' /\ StoresFirst(l)'
  <2>1. InOrder(l) /\ Watermark(l) /\ StoresFirst(l)
    BY <1>1 DEF AdmitInv, Trusted
  <2>2. InOrder(l)'
    BY <2>1 DEF InOrder
  <2>3. Watermark(l)'
    BY <2>1 DEF Watermark
  <2>4. StoresFirst(l)'
    BY <2>1 DEF StoresFirst, Current
  <2>. QED  BY <2>2, <2>3, <2>4
<1>2. errors' = 0 => \A l \in Known : mapping'[l] # None
  BY DEF AdmitInv
<1>. QED  BY <1>1, <1>2 DEF AdmitInv

LEMMA AdmitTouch ==
  ASSUME TypeInv, AdmitInv, NEW c \in Consumers, TouchMapping(c) PROVE AdmitInv'
<1>. DEFINE l == Current(c).local
            o == Head(todo[c])
<1>1. /\ step[c] = "touch" /\ mapping[l] # None
      /\ UNCHANGED <<queue, todo, owner, details, location, published, budgets, overlap>>
  BY DEF TouchMapping
<1>2. step[c] \notin Rest /\ \A d \in Consumers : d # c => step'[d] = step[d]
  BY CommandsKeep DEF TypeInv, Commands
<1>3. errors' = errors /\ overlap' = overlap /\ todo' = todo
  BY <1>1 DEF budgets
<1>4. /\ o \in Observations /\ Feed[o] = Current(c) /\ l \in Locals /\ Current(c).at \in Nat
      /\ mapping \in [Locals -> Mapping \cup {None}]
  BY <1>2, AtHand DEF Current, TypeInv, TypeOK
<1>5. CASE mapping' = mapping /\ admitted' = admitted /\ step' = [step EXCEPT ![c] = "done"]
  <2>1. \A d \in Consumers : step'[d] \in {"identify", "store"} => step[d] \in {"identify", "store"} /\ todo'[d] = todo[d]
    BY <1>2, <1>3, <1>5 DEF TypeInv, TypeOK
  <2>. QED  BY <1>3, <1>5, <2>1, AdmitKept
<1>6. CASE /\ mapping' = [mapping EXCEPT ![l] = [mapping[l] EXCEPT !.at = Current(c).at]]
           /\ admitted' = Append(admitted, o) /\ step' = [step EXCEPT ![c] = "own"]
           /\ Current(c).at > mapping[l].at
  <2>1. mapping[l] \in Mapping /\ mapping'[l] \in Mapping /\ mapping'[l].at = Current(c).at
    BY <1>1, <1>4, <1>6 DEF Mapping
  <2>2. mapping'[l] # None /\ \A k \in Locals : k # l => mapping'[k] = mapping[k]
    BY <1>4, <1>6, <2>1, TrackerAssumption
  <2>3. mapping[l].at \in Nat
    BY <2>1 DEF Mapping
  <2>4. ASSUME NEW k \in Locals, Trusted(k)' PROVE InOrder(k)' /\ Watermark(k)' /\ StoresFirst(k)'
    <3>1. InOrder(k) /\ Watermark(k) /\ StoresFirst(k)
      BY <1>3, <2>4 DEF AdmitInv, Trusted
    <3>2. /\ Len(admitted) \in Nat /\ DOMAIN admitted = 1..Len(admitted)
          /\ DOMAIN admitted' = 1..(Len(admitted) + 1) /\ admitted'[Len(admitted) + 1] = o
          /\ \A i \in DOMAIN admitted : admitted'[i] = admitted[i] /\ admitted[i] \in Observations
      BY <1>4, <1>6, Admits
    <3>3. \A i \in DOMAIN admitted : Feed[admitted[i]].at \in Nat
      BY <3>2, TrackerAssumption DEF Observation
    <3>4. k = l => \A i \in DOMAIN admitted : Feed[admitted[i]].local = l => Feed[admitted[i]].at < Current(c).at
      BY <1>4, <1>6, <2>3, <3>1, <3>3 DEF Watermark
    <3>5. InOrder(k)'
      BY <1>4, <3>1, <3>2, <3>4 DEF InOrder
    <3>6. Watermark(k)'
      <4>1. ASSUME NEW i \in DOMAIN admitted', Feed[admitted'[i]].local = k
            PROVE  mapping'[k] # None /\ Feed[admitted'[i]].at <= mapping'[k].at
        <5>1. CASE i \in DOMAIN admitted
          BY <1>4, <2>1, <2>2, <3>1, <3>2, <3>3, <3>4, <4>1, <5>1 DEF Watermark
        <5>2. CASE i = Len(admitted) + 1
          BY <1>4, <2>1, <2>2, <3>2, <4>1, <5>2
        <5>. QED  BY <3>2, <5>1, <5>2
      <4>. QED  BY <4>1 DEF Watermark
    <3>7. StoresFirst(k)'
      <4>1. ASSUME NEW d \in Consumers, step'[d] \in {"identify", "store"}, Current(d)'.local = k
            PROVE  mapping'[k] = None
        <5>1. d # c
          BY <1>6, <4>1 DEF TypeInv, TypeOK
        <5>2. mapping[k] = None
          BY <1>2, <1>3, <3>1, <4>1, <5>1 DEF StoresFirst, Current
        <5>. QED  BY <1>1, <2>2, <5>2
      <4>. QED  BY <4>1 DEF StoresFirst
    <3>. QED  BY <3>5, <3>6, <3>7
  <2>5. errors' = 0 => \A k \in Known : mapping'[k] # None
    BY <1>3, <2>2, TrackerAssumption DEF AdmitInv
  <2>. QED  BY <2>4, <2>5 DEF AdmitInv
<1>7. mapping[l] \in Mapping
  BY <1>1, <1>4
<1>. QED  BY <1>4, <1>5, <1>6, <1>7 DEF TouchMapping, Goto, Mapping

LEMMA AdmitStore ==
  ASSUME TypeInv, QueueInv, AdmitInv, NEW c \in Consumers, StoreMapping(c) PROVE AdmitInv'
<1>. DEFINE l == Current(c).local
            o == Head(todo[c])
<1>1. /\ step[c] = "store" /\ todo' = todo /\ overlap' = overlap /\ step[c] \notin Rest
      /\ \A d \in Consumers : d # c => step'[d] = step[d]
  BY CommandsKeep DEF TypeInv, Commands, StoreMapping
<1>2. /\ o \in Observations /\ Feed[o] = Current(c) /\ l \in Locals /\ Current(c).at \in Nat
      /\ mapping \in [Locals -> Mapping \cup {None}] /\ held[c].journey \in Journeys \cup {NA}
  BY <1>1, AtHand DEF Current, TypeInv, TypeOK, WorkInHand
<1>3. CASE errors' = errors + 1
  <2>1. errors' # 0
    BY <1>3 DEF TypeInv, TypeOK
  <2>. QED  BY <2>1 DEF AdmitInv, Trusted
<1>4. CASE /\ mapping' = [mapping EXCEPT ![l] = [journey |-> held[c].journey, at |-> Current(c).at]]
           /\ errors' = errors
  <2>1. [journey |-> held[c].journey, at |-> Current(c).at] \in Mapping
    BY <1>2 DEF Mapping
  <2>2. /\ mapping'[l] # None /\ mapping'[l].at = Current(c).at
        /\ \A k \in Locals : k # l => mapping'[k] = mapping[k]
    BY <1>2, <1>4, <2>1, TrackerAssumption
  <2>3. admitted' = admitted \/ admitted' = Append(admitted, o)
    BY DEF StoreMapping
  <2>4. /\ step'[c] \notin {"identify", "store"}
    BY <1>1 DEF StoreMapping, Goto, UpdateStep, TypeInv, TypeOK
  <2>5. ASSUME NEW k \in Locals, Trusted(k)' PROVE InOrder(k)' /\ Watermark(k)' /\ StoresFirst(k)'
    <3>1. Trusted(k) /\ InOrder(k) /\ Watermark(k) /\ StoresFirst(k)
      BY <1>1, <1>4, <2>5 DEF AdmitInv, Trusted
    <3>2. k = l => mapping[l] = None /\ l \notin Known /\ ~overlap
      BY <1>1, <3>1 DEF StoresFirst, AdmitInv, Trusted
    <3>3. k = l => \A i \in DOMAIN admitted : Feed[admitted[i]].local # l
      BY <3>1, <3>2 DEF Watermark
    <3>4. k # l => mapping'[k] = mapping[k]
      BY <2>2
    <3>5. StoresFirst(k)'
      <4>1. ASSUME NEW d \in Consumers, step'[d] \in {"identify", "store"}, Current(d)'.local = k
            PROVE  mapping'[k] = None
        <5>1. d # c /\ step[d] \in {"identify", "store"} /\ Current(d).local = k
          BY <1>1, <2>4, <4>1 DEF Current
        <5>2. mapping[k] = None
          BY <3>1, <5>1 DEF StoresFirst
        <5>3. k # l
          BY <1>1, <3>2, <5>1 DEF QueueInv, OneAtWork, Rest
        <5>. QED  BY <3>4, <5>2, <5>3
      <4>. QED  BY <4>1 DEF StoresFirst
    <3>6. CASE admitted' = admitted
      <4>1. InOrder(k)'
        BY <3>1, <3>6 DEF InOrder
      <4>2. Watermark(k)'
        BY <3>1, <3>3, <3>4, <3>6 DEF Watermark
      <4>. QED  BY <3>5, <4>1, <4>2
    <3>7. CASE admitted' = Append(admitted, o)
      <4>1. /\ Len(admitted) \in Nat /\ DOMAIN admitted = 1..Len(admitted)
            /\ DOMAIN admitted' = 1..(Len(admitted) + 1) /\ admitted'[Len(admitted) + 1] = o
            /\ \A i \in DOMAIN admitted : admitted'[i] = admitted[i] /\ admitted[i] \in Observations
        BY <1>2, <3>7, Admits
      <4>2. InOrder(k)'
        BY <1>2, <3>1, <3>3, <4>1 DEF InOrder
      <4>3. Watermark(k)'
        <5>1. ASSUME NEW i \in DOMAIN admitted', Feed[admitted'[i]].local = k
              PROVE  mapping'[k] # None /\ Feed[admitted'[i]].at <= mapping'[k].at
          <6>1. CASE i \in DOMAIN admitted
            BY <3>1, <3>3, <3>4, <4>1, <5>1, <6>1 DEF Watermark
          <6>2. CASE i = Len(admitted) + 1
            BY <1>2, <2>2, <4>1, <5>1, <6>2
          <6>. QED  BY <4>1, <6>1, <6>2
        <5>. QED  BY <5>1 DEF Watermark
      <4>. QED  BY <3>5, <4>2, <4>3
    <3>. QED  BY <2>3, <3>6, <3>7
  <2>6. errors' = 0 => \A k \in Known : mapping'[k] # None
    BY <1>4, <2>2, TrackerAssumption DEF AdmitInv
  <2>. QED  BY <2>5, <2>6 DEF AdmitInv
<1>. QED  BY <1>3, <1>4 DEF StoreMapping, CommandFails, budgets

LEMMA AdmitMisses ==
  ASSUME TypeInv, AdmitInv, NEW c \in Consumers, TouchMisses(c) PROVE AdmitInv'
<1>1. /\ todo' = todo /\ overlap' = overlap /\ mapping' = mapping /\ admitted' = admitted
      /\ \A d \in Consumers : d # c => step'[d] = step[d]
  BY CommandsKeep DEF TypeInv, Commands, TouchMisses, redis
<1>2. CASE errors' = errors + 1
  <2>1. errors' # 0
    BY <1>2 DEF TypeInv, TypeOK
  <2>. QED  BY <2>1 DEF AdmitInv, Trusted
<1>3. CASE mapping[Current(c).local] = None /\ errors' = errors
  <2>1. ASSUME NEW l \in Locals, Trusted(l)' PROVE InOrder(l)' /\ Watermark(l)' /\ StoresFirst(l)'
    <3>1. InOrder(l) /\ Watermark(l) /\ StoresFirst(l)
      BY <1>1, <1>3, <2>1 DEF AdmitInv, Trusted
    <3>2. InOrder(l)' /\ Watermark(l)'
      BY <1>1, <3>1 DEF InOrder, Watermark
    <3>3. StoresFirst(l)'
      BY <1>1, <1>3, <3>1 DEF StoresFirst, Current
    <3>. QED  BY <3>2, <3>3
  <2>. QED  BY <1>1, <1>3, <2>1 DEF AdmitInv
<1>. QED  BY <1>2, <1>3 DEF TouchMisses, CommandFails, budgets

LEMMA AdmitStep ==
  ASSUME TypeInv, QueueInv, AdmitInv, [Next]_vars PROVE AdmitInv'
<1>1. CASE UNCHANGED vars
  BY <1>1, AdmitKept DEF vars, redis, budgets
<1>2. ASSUME Next,
             mapping' = mapping, admitted' = admitted,
             \A c \in Consumers : step'[c] \in {"identify", "store"} =>
               step[c] \in {"identify", "store"} /\ todo'[c] = todo[c]
      PROVE  AdmitInv'
  BY <1>2, AdmitKept, FaultsStay DEF TypeInv
<1>3. CASE Crash
  BY <1>2, <1>3 DEF Next, Crash, redis
<1>4. ASSUME NEW j \in Journeys, ExpireDetails(j) PROVE AdmitInv'
  BY <1>2, <1>4 DEF Next, ExpireDetails
<1>5. ASSUME NEW c \in Consumers, Consumer(c) PROVE AdmitInv'
  <2>1. CASE TouchMapping(c) \/ TouchMisses(c) \/ StoreMapping(c)
    BY <2>1, AdmitTouch, AdmitMisses, AdmitStore
  <2>2. CASE Commands(c) /\ ~TouchMapping(c) /\ ~TouchMisses(c) /\ ~StoreMapping(c)
    <3>1. mapping' = mapping /\ admitted' = admitted
      BY <2>2, WhoWrites
    <3>2. todo' = todo /\ \A d \in Consumers : d # c => step'[d] = step[d]
      BY <2>2, CommandsKeep DEF TypeInv
    <3>3. step'[c] \in {"identify", "store"} => step[c] = "identify"
      BY <2>2 DEF Commands, CheckOwner, Identify, ClaimJourney, FindForUpdate, GiveUp, UpdateLocation,
         PreviousForEvents, SetDetails, PublishEvents, UpdateStep, Goto, TypeInv, TypeOK
    <3>. QED  BY <1>2, <1>5, <3>1, <3>2, <3>3 DEF Next
  <2>3. CASE Consume(c) \/ EndOne(c) \/ Ack(c)
    <3>1. mapping' = mapping /\ admitted' = admitted
      BY <2>3 DEF Consume, EndOne, Ack, redis
    <3>2. step'[c] \notin {"identify", "store"} /\ \A d \in Consumers : d # c => step'[d] = step[d]
      BY <2>3 DEF Consume, EndOne, Ack, Goto, TypeInv, TypeOK
    <3>3. \A d \in Consumers : d # c => todo'[d] = todo[d]
      BY <2>3 DEF Consume, EndOne, Ack, TypeInv, TypeOK
    <3>. QED  BY <1>2, <1>5, <3>1, <3>2, <3>3 DEF Next
  <2>. QED  BY <1>5, <2>1, <2>2, <2>3 DEF Consumer, Commands
<1>. QED  BY <1>1, <1>3, <1>4, <1>5 DEF Next

-----------------------------------------------------------------------------
(* Notices. *)

\* Nothing is told: who handles an observation handled it before, or has it just admitted.
LEMMA NoticeKept ==
  ASSUME NoticeInv, TypeOK, published' = published,
         admitted' = admitted \/ \E o \in Observations : admitted' = Append(admitted, o),
         errors' = 0 => errors = 0, ~overlap' => ~overlap,
         \A c \in Consumers : step'[c] \in Handling =>
           /\ todo'[c] = todo[c]
           /\ \/ step[c] \in Handling
              \/ WasAdmitted(Head(todo[c]))' /\ (Trusted(Current(c).local)' => NotYetTold(Head(todo[c])))
  PROVE  NoticeInv'
<1>1. \A o : WasAdmitted(o) => (\E i \in DOMAIN admitted' : admitted'[i] = o)
  <2>1. CASE admitted' = admitted
    BY <2>1 DEF WasAdmitted
  <2>2. ASSUME NEW a \in Observations, admitted' = Append(admitted, a)
        PROVE  \A i \in DOMAIN admitted : i \in DOMAIN admitted' /\ admitted'[i] = admitted[i]
    BY <2>2 DEF TypeOK
  <2>. QED  BY <2>1, <2>2 DEF WasAdmitted
<1>2. \A j \in Journeys : \A i \in DOMAIN published'[j] : WasAdmitted(published[j][i].by)'
  BY <1>1 DEF NoticeInv, WasAdmitted
<1>3. ASSUME NEW c \in Consumers, step'[c] \in Handling
      PROVE  /\ WasAdmitted(Head(todo[c]))'
             /\ Trusted(Current(c).local)' => NotYetTold(Head(todo[c]))'
  <2>1. todo'[c] = todo[c] /\ Current(c)' = Current(c)
    BY <1>3 DEF Current
  <2>2. CASE step[c] \in Handling
    <3>1. WasAdmitted(Head(todo[c]))'
      BY <1>1, <2>1, <2>2 DEF NoticeInv, WasAdmitted
    <3>2. Trusted(Current(c).local)' => Trusted(Current(c).local)
      BY <2>1 DEF Trusted
    <3>3. Trusted(Current(c).local)' => NotYetTold(Head(todo[c]))'
      BY <2>1, <2>2, <3>2 DEF NoticeInv, NotYetTold
    <3>. QED  BY <3>1, <3>3
  <2>3. CASE ~(step[c] \in Handling)
    <3>1. WasAdmitted(Head(todo[c]))' /\ (Trusted(Current(c).local)' => NotYetTold(Head(todo[c])))
      BY <1>3, <2>3
    <3>2. NotYetTold(Head(todo[c])) => NotYetTold(Head(todo[c]))'
      BY <2>1 DEF NotYetTold
    <3>. QED  BY <3>1, <3>2
  <2>. QED  BY <2>2, <2>3
<1>4. NoticeOnce'
  BY DEF NoticeInv, NoticeOnce
<1>. QED  BY <1>2, <1>3, <1>4 DEF NoticeInv

LEMMA NoticeAdmits ==
  ASSUME TypeInv, AdmitInv, NoticeInv, NEW c \in Consumers, TouchMapping(c) \/ StoreMapping(c)
  PROVE  NoticeInv'
<1>. DEFINE l == Current(c).local
            o == Head(todo[c])
<1>1. /\ step[c] \notin Rest /\ todo' = todo /\ overlap' = overlap
      /\ \A d \in Consumers : d # c => step'[d] = step[d]
  BY CommandsKeep DEF TypeInv, Commands
<1>2. /\ o \in Observations /\ Feed[o] = Current(c) /\ l \in Locals /\ Current(c).at \in Nat
      /\ mapping \in [Locals -> Mapping \cup {None}]
  BY <1>1, AtHand DEF Current, TypeInv, TypeOK
<1>3. /\ published' = published /\ (admitted' = admitted \/ admitted' = Append(admitted, o))
      /\ errors' = errors \/ errors' = errors + 1
  BY DEF TouchMapping, StoreMapping, CommandFails, budgets
<1>4. errors' = 0 => errors = 0 /\ errors' = errors
  BY <1>3 DEF TypeInv, TypeOK
<1>5. step'[c] \in Handling => admitted' = Append(admitted, o)
  BY DEF TouchMapping, StoreMapping, Goto, Handling, TypeInv, TypeOK
<1>6. step'[c] \in Handling => WasAdmitted(o)'
  <2>1. admitted' = Append(admitted, o) =>
          Len(admitted) + 1 \in DOMAIN admitted' /\ admitted'[Len(admitted) + 1] = o
    BY <1>2, Admits
  <2>. QED  BY <1>1, <1>5, <2>1 DEF WasAdmitted
<1>7. ASSUME step'[c] \in Handling, Trusted(l)' PROVE NotYetTold(o)
  <2>1. Trusted(l) /\ Watermark(l) /\ StoresFirst(l)
    <3>1. Current(c)' = Current(c)
      BY <1>1 DEF Current
    <3>2. Trusted(l)
      BY <1>1, <1>4, <1>7, <3>1 DEF Trusted
    <3>. QED  BY <1>2, <3>2 DEF AdmitInv
  <2>2. mapping[l] = None \/ (mapping[l].at \in Nat /\ Current(c).at > mapping[l].at)
    <3>1. CASE TouchMapping(c)
      <4>1. mapping[l] \in Mapping
        BY <1>2, <3>1 DEF TouchMapping
      <4>2. mapping[l].at \in Nat
        BY <4>1 DEF Mapping
      <4>3. ~(Current(c).at <= mapping[l].at)
        BY <1>7, <3>1 DEF TouchMapping, Goto, Handling, TypeInv, TypeOK
      <4>. QED  BY <1>2, <4>2, <4>3
    <3>2. CASE StoreMapping(c)
      BY <2>1, <3>2 DEF StoreMapping, StoresFirst
    <3>. QED  BY <3>1, <3>2
  <2>3. ~WasAdmitted(o)
    BY <1>2, <2>1, <2>2 DEF Watermark, WasAdmitted
  <2>. QED  BY <2>3 DEF NoticeInv, NotYetTold
<1>8. \A d \in Consumers : step'[d] \in Handling =>
        /\ todo'[d] = todo[d]
        /\ \/ step[d] \in Handling
           \/ WasAdmitted(Head(todo[d]))' /\ (Trusted(Current(d).local)' => NotYetTold(Head(todo[d])))
  <2>1. todo'[c] = todo[c] /\ Current(c)' = Current(c)
    BY <1>1 DEF Current
  <2>. QED  BY <1>1, <1>6, <1>7, <2>1
<1>9. TypeOK
  BY DEF TypeInv
<1>10. ~overlap' => ~overlap
  BY <1>1
<1>11. admitted' = admitted \/ \E a \in Observations : admitted' = Append(admitted, a)
  BY <1>2, <1>3
<1>. QED  BY <1>3, <1>4, <1>8, <1>9, <1>10, <1>11, NoticeKept

LEMMA NoticePublish ==
  ASSUME TypeInv, QueueInv, NoticeInv, NEW c \in Consumers, PublishEvents(c) PROVE NoticeInv'
<1>. DEFINE j == held[c].journey
            o == Head(todo[c])
<1>1. /\ step[c] = "publish" /\ todo' = todo /\ overlap' = overlap /\ admitted' = admitted
      /\ \A d \in Consumers : d # c => step'[d] = step[d]
  BY CommandsKeep DEF TypeInv, Commands, PublishEvents
<1>2. step'[c] = "done" /\ (errors' = 0 => errors = 0)
  BY DEF PublishEvents, Goto, CommandFails, budgets, TypeInv, TypeOK
<1>3. \A d \in Consumers : step'[d] \in Handling => d # c /\ step[d] \in Handling
  BY <1>1, <1>2 DEF Handling
<1>4. CASE published' = published
  BY <1>1, <1>2, <1>3, <1>4, NoticeKept DEF TypeInv
<1>5. CASE published' = [published EXCEPT ![j] = Append(published[j], Change(c))]
  <2>1. o \in Observations /\ o \in unacked[c] /\ Feed[o] = Current(c) /\ j \in Journeys
    BY <1>1, AtHand DEF Current, Rest, TypeInv, WorkInHand, Handling
  <2>2. /\ published[j] \in Seq(Event) /\ Change(c).by = o
        /\ \A k \in Journeys : k # j => published'[k] = published[k]
        /\ published'[j] = Append(published[j], Change(c))
    BY <1>5, <2>1 DEF TypeInv, TypeOK, Change
  <2>3. /\ Len(published[j]) \in Nat /\ DOMAIN published[j] = 1..Len(published[j])
        /\ DOMAIN published'[j] = 1..(Len(published[j]) + 1)
        /\ published'[j][Len(published[j]) + 1] = Change(c)
        /\ \A i \in DOMAIN published[j] : published'[j][i] = published[j][i]
    BY <2>2
  <2>4. WasAdmitted(o) /\ (Trusted(Current(c).local) => NotYetTold(o))
    BY <1>1 DEF NoticeInv, Handling
  <2>5. \A k \in Journeys : \A i \in DOMAIN published'[k] : WasAdmitted(published[k][i].by)'
    <3>1. ASSUME NEW k \in Journeys, NEW i \in DOMAIN published'[k] PROVE WasAdmitted(published'[k][i].by)
      <4>1. i \in DOMAIN published[k] => WasAdmitted(published[k][i].by)
        BY DEF NoticeInv
      <4>2. CASE i \in DOMAIN published[k]
        BY <2>2, <2>3, <4>1, <4>2
      <4>3. CASE i \notin DOMAIN published[k]
        <5>0. k = j
          BY <2>2, <4>3
        <5>1. k = j /\ i = Len(published[j]) + 1
          BY <2>3, <4>3, <5>0
        <5>2. published'[k][i].by = o
          BY <2>2, <2>3, <5>1
        <5>. QED  BY <2>4, <5>2
      <4>. QED  BY <4>2, <4>3
    <3>. QED  BY <1>1, <3>1 DEF WasAdmitted
  <2>6. ASSUME NEW d \in Consumers, step'[d] \in Handling
        PROVE  /\ WasAdmitted(Head(todo[d]))'
               /\ Trusted(Current(d).local)' => NotYetTold(Head(todo[d]))'
    <3>1. d # c /\ step[d] \in Handling /\ todo'[d] = todo[d] /\ Current(d)' = Current(d)
      BY <1>1, <1>3, <2>6 DEF Current
    <3>2. Head(todo[d]) # o
      BY <2>1, <3>1, AtHand DEF QueueInv, DeliveredOnce, Handling, Rest
    <3>3. WasAdmitted(Head(todo[d])) /\ (Trusted(Current(d).local) => NotYetTold(Head(todo[d])))
      BY <3>1 DEF NoticeInv
    <3>4. Trusted(Current(d).local)' => Trusted(Current(d).local)
      BY <1>1, <1>2, <3>1 DEF Trusted
    <3>5. NotYetTold(Head(todo[d])) => NotYetTold(Head(todo[d]))'
      <4>1. ASSUME NotYetTold(Head(todo[d])), NEW k \in Journeys, NEW i \in DOMAIN published'[k]
            PROVE  published'[k][i].by # Head(todo[d])
        <5>1. CASE i \in DOMAIN published[k]
          BY <2>2, <2>3, <4>1, <5>1 DEF NotYetTold
        <5>2. CASE i \notin DOMAIN published[k]
          BY <2>2, <2>3, <3>2, <5>2
        <5>. QED  BY <5>1, <5>2
      <4>. QED  BY <3>1, <4>1 DEF NotYetTold
    <3>6. WasAdmitted(Head(todo[d]))'
      BY <1>1, <3>3 DEF WasAdmitted
    <3>. QED  BY <3>3, <3>4, <3>5, <3>6
  <2>7. NoticeOnce'
    <3>1. ASSUME errors' = 0, NEW k \in Journeys, NEW i \in DOMAIN published'[k], NEW m \in DOMAIN published'[k],
                 published'[k][i].by = published'[k][m].by, i # m
          PROVE  overlap /\ Feed[published'[k][i].by].local \notin Known
      <4>1. errors = 0 /\ NoticeOnce
        BY <1>2, <3>1 DEF NoticeInv
      <4>2. CASE k = j /\ (i \notin DOMAIN published[j] \/ m \notin DOMAIN published[j])
        <5>1. published'[k][i].by = o /\ ~NotYetTold(o)
          <6>1. ASSUME NEW a \in DOMAIN published'[j], NEW b \in DOMAIN published'[j], a # b,
                       published'[j][a].by = published'[j][b].by, b \notin DOMAIN published[j]
                PROVE  published'[j][b].by = o /\ a \in DOMAIN published[j] /\ published[j][a].by = o
            BY <2>2, <2>3, <6>1
          <6>. QED  BY <2>1, <3>1, <4>2, <6>1 DEF NotYetTold
        <5>. QED  BY <2>1, <2>4, <4>1, <5>1 DEF Trusted
      <4>3. CASE ~(k = j /\ (i \notin DOMAIN published[j] \/ m \notin DOMAIN published[j]))
        <5>1. /\ i \in DOMAIN published[k] /\ m \in DOMAIN published[k]
              /\ published'[k][i] = published[k][i] /\ published'[k][m] = published[k][m]
          BY <2>2, <2>3, <3>1, <4>3
        <5>. QED  BY <3>1, <4>1, <5>1 DEF NoticeOnce
      <4>. QED  BY <4>2, <4>3
    <3>. QED  BY <1>1, <3>1 DEF NoticeOnce
  <2>. QED  BY <2>5, <2>6, <2>7 DEF NoticeInv
<1>. QED  BY <1>4, <1>5 DEF PublishEvents

LEMMA NoticeStep ==
  ASSUME TypeInv, QueueInv, AdmitInv, NoticeInv, [Next]_vars PROVE NoticeInv'
<1>. USE DEF TypeInv
<1>1. CASE UNCHANGED vars
  BY <1>1, NoticeKept DEF vars, budgets
<1>2. ASSUME Next, published' = published, admitted' = admitted,
             \A c \in Consumers : step'[c] \in Handling => step[c] \in Handling /\ todo'[c] = todo[c]
      PROVE  NoticeInv'
  BY <1>2, NoticeKept, FaultsStay
<1>3. CASE Crash
  BY <1>2, <1>3 DEF Next, Crash, Handling
<1>4. ASSUME NEW j \in Journeys, ExpireDetails(j) PROVE NoticeInv'
  BY <1>2, <1>4 DEF Next, ExpireDetails
<1>5. ASSUME NEW c \in Consumers, Consumer(c) PROVE NoticeInv'
  <2>1. CASE TouchMapping(c) \/ StoreMapping(c) \/ PublishEvents(c)
    BY <2>1, NoticeAdmits, NoticePublish
  <2>2. CASE Commands(c) /\ ~TouchMapping(c) /\ ~StoreMapping(c) /\ ~PublishEvents(c)
    <3>1. published' = published /\ admitted' = admitted
      BY <2>2, WhoWrites
    <3>2. todo' = todo /\ \A d \in Consumers : d # c => step'[d] = step[d]
      BY <2>2, CommandsKeep
    <3>3. step'[c] \in Handling => step[c] \in Handling
      BY <2>2 DEF Commands, TouchMisses, CheckOwner, Identify, ClaimJourney, FindForUpdate, GiveUp, UpdateLocation,
         PreviousForEvents, SetDetails, UpdateStep, Goto, TypeOK, Handling
    <3>. QED  BY <1>2, <1>5, <3>1, <3>2, <3>3 DEF Next
  <2>3. CASE Consume(c) \/ EndOne(c) \/ Ack(c)
    <3>1. published' = published /\ admitted' = admitted
      BY <2>3 DEF Consume, EndOne, Ack
    <3>2. step'[c] \notin Handling /\ \A d \in Consumers : d # c => step'[d] = step[d]
      BY <2>3 DEF Consume, EndOne, Ack, Goto, TypeOK, Handling
    <3>3. \A d \in Consumers : d # c => todo'[d] = todo[d]
      BY <2>3 DEF Consume, EndOne, Ack, TypeOK
    <3>. QED  BY <1>2, <1>5, <3>1, <3>2, <3>3 DEF Next
  <2>. QED  BY <1>5, <2>1, <2>2, <2>3 DEF Consumer, Commands
<1>. QED  BY <1>1, <1>3, <1>4, <1>5 DEF Next

-----------------------------------------------------------------------------
(* The story of a journey. *)

\* Nothing is written or told, and nobody starts or ends a write.
LEMMA StoryKept ==
  ASSUME StoryInv, details' = details, published' = published,
         InTurn' => InTurn, crashes' = 0 => crashes = 0,
         \A c \in Consumers : held[c].known => held'[c].known,
         \A c \in Consumers : step'[c] \in {"set", "publish"} \/ step[c] = "publish" =>
           step'[c] = step[c] /\ held'[c] = held[c] /\ todo'[c] = todo[c]
  PROVE  StoryInv'
<1>1. ASSUME InTurn', crashes' = 0, NEW j \in Journeys PROVE Connected(j)'
  <2>1. Connected(j)
    BY <1>1 DEF StoryInv
  <2>2. \A c \in Consumers : step[c] = "publish" => step'[c] = "publish" /\ held'[c] = held[c]
    OBVIOUS
  <2>. QED  BY <2>1, <2>2 DEF Connected, EndsAt
<1>2. ASSUME InTurn', crashes' = 0, NEW c \in Consumers PROVE TellsOn(c)'
  <2>1. TellsOn(c)
    BY <1>2 DEF StoryInv
  <2>2. step'[c] \in {"set", "publish"} => step'[c] = step[c] /\ held'[c] = held[c] /\ todo'[c] = todo[c]
    OBVIOUS
  <2>. QED  BY <2>1, <2>2 DEF TellsOn, EndsAt, Current
<1>3. InTurn' => \A c \in Consumers : held'[c].known
  BY DEF StoryInv
<1>. QED  BY <1>1, <1>2, <1>3 DEF StoryInv

\* While a consumer is at work in turn, the others are at rest.
LEMMA Alone ==
  ASSUME QueueInv, ~overlap, NEW c \in Consumers, step[c] \notin Rest
  PROVE  \A d \in Consumers : d # c => step[d] \in Rest
BY DEF QueueInv, OneAtWork

LEMMA StoryPrevious ==
  ASSUME TypeInv, QueueInv, StoryInv, NEW c \in Consumers, PreviousForEvents(c)
  PROVE  InTurn' /\ InTurn => StoryInv'
<1>. SUFFICES ASSUME InTurn', InTurn PROVE StoryInv'
  OBVIOUS
<1>. DEFINE j == held[c].journey
<1>1. /\ step[c] = "previous" /\ todo' = todo /\ step[c] \notin Rest
      /\ details' = details /\ published' = published /\ crashes' = crashes
      /\ held \in [Consumers -> Hand] /\ j \in Journeys
  BY DEF PreviousForEvents, CommandFails, budgets, redis, Rest, TypeInv, TypeOK, WorkInHand, Handling
<1>2. held' = [held EXCEPT ![c].previous = details[j]] /\ step' = [step EXCEPT ![c] = "set"]
  BY DEF PreviousForEvents, CommandFails, Goto, InTurn, TypeInv, TypeOK
<1>3. /\ held'[c].previous = details[j] /\ held'[c].journey = j /\ held'[c].known = held[c].known
      /\ \A d \in Consumers : d # c => held'[d] = held[d] /\ step'[d] = step[d]
      /\ step'[c] = "set"
  BY <1>1, <1>2 DEF Hand, TypeInv, TypeOK
<1>4. \A d \in Consumers : d # c => step[d] \in Rest
  BY <1>1, Alone DEF InTurn
<1>5. \A d \in Consumers : step[d] # "publish" /\ step'[d] # "publish"
  BY <1>1, <1>3, <1>4 DEF Rest
<1>6. ASSUME crashes = 0, NEW k \in Journeys PROVE Connected(k)'
  BY <1>1, <1>5, <1>6 DEF StoryInv, Connected, EndsAt
<1>7. ASSUME crashes = 0, NEW d \in Consumers PROVE TellsOn(d)'
  <2>1. CASE d = c
    <3>1. Connected(j)
      BY <1>1, <1>7 DEF StoryInv
    <3>2. details[j] # None => EndsAt(j, details[j].next)
      BY <1>5, <3>1 DEF Connected
    <3>. QED  BY <1>1, <1>3, <2>1, <3>2 DEF TellsOn, EndsAt
  <2>2. CASE d # c
    BY <1>3, <1>4, <2>2 DEF TellsOn, Rest
  <2>. QED  BY <2>1, <2>2
<1>8. \A d \in Consumers : held'[d].known
  BY <1>3 DEF StoryInv
<1>. QED  BY <1>1, <1>6, <1>7, <1>8 DEF StoryInv

LEMMA StorySet ==
  ASSUME TypeInv, QueueInv, StoryInv, NEW c \in Consumers, SetDetails(c)
  PROVE  InTurn' /\ InTurn => StoryInv'
<1>. SUFFICES ASSUME InTurn', InTurn PROVE StoryInv'
  OBVIOUS
<1>. DEFINE j == held[c].journey
<1>1. /\ step[c] = "set" /\ todo' = todo /\ step[c] \notin Rest /\ held' = held
      /\ published' = published /\ crashes' = crashes /\ j \in Journeys
  BY DEF SetDetails, CommandFails, budgets, Rest, TypeInv, TypeOK, WorkInHand, Handling
<1>2. /\ details' = [details EXCEPT ![j] =
           [source |-> Current(c).source, next |-> Current(c).next, merged |-> Merged(c)]]
      /\ step' = [step EXCEPT ![c] = "publish"]
  BY DEF SetDetails, CommandFails, Goto, InTurn, TypeInv, TypeOK
<1>3. /\ details'[j] = [source |-> Current(c).source, next |-> Current(c).next, merged |-> Merged(c)]
      /\ \A k \in Journeys : k # j => details'[k] = details[k]
      /\ \A d \in Consumers : d # c => step'[d] = step[d]
      /\ step'[c] = "publish"
  BY <1>1, <1>2 DEF TypeInv, TypeOK
<1>4. details'[j].next = Current(c).next
  BY <1>3
<1>5. \A d \in Consumers : d # c => step[d] \in Rest
  BY <1>1, Alone DEF InTurn
<1>6. ASSUME crashes = 0, NEW k \in Journeys PROVE Connected(k)'
  <2>1. Connected(k)
    BY <1>6 DEF StoryInv
  <2>2. CASE k = j
    BY <1>1, <1>3, <2>1, <2>2 DEF Connected
  <2>3. CASE k # j
    <3>1. \A d \in Consumers : step[d] # "publish"
      BY <1>1, <1>5 DEF Rest
    <3>. QED  BY <1>1, <1>3, <2>1, <2>3, <3>1 DEF Connected, EndsAt
  <2>. QED  BY <2>2, <2>3
<1>7. ASSUME crashes = 0, NEW d \in Consumers PROVE TellsOn(d)'
  <2>1. CASE d = c
    <3>1. TellsOn(c)
      BY <1>7 DEF StoryInv
    <3>2. Current(c)' = Current(c)
      BY <1>1 DEF Current
    <3>. QED  BY <1>1, <1>3, <1>4, <2>1, <3>1, <3>2 DEF TellsOn, EndsAt
  <2>2. CASE d # c
    BY <1>3, <1>5, <2>2 DEF TellsOn, Rest
  <2>. QED  BY <2>1, <2>2
<1>8. \A d \in Consumers : held'[d].known
  BY <1>1 DEF StoryInv
<1>. QED  BY <1>1, <1>6, <1>7, <1>8 DEF StoryInv

LEMMA StoryPublish ==
  ASSUME TypeInv, QueueInv, StoryInv, NEW c \in Consumers, PublishEvents(c)
  PROVE  InTurn' /\ InTurn => StoryInv'
<1>. SUFFICES ASSUME InTurn', InTurn PROVE StoryInv'
  OBVIOUS
<1>. DEFINE j == held[c].journey
<1>1. /\ step[c] = "publish" /\ todo' = todo /\ step[c] \notin Rest /\ held' = held
      /\ details' = details /\ crashes' = crashes /\ j \in Journeys
  BY DEF PublishEvents, CommandFails, budgets, redis, Rest, TypeInv, TypeOK, WorkInHand, Handling
<1>2. step' = [step EXCEPT ![c] = "done"] /\ errors' = errors
  BY DEF PublishEvents, CommandFails, Goto, InTurn, TypeInv, TypeOK
<1>3. \A d \in Consumers : d # c => step[d] \in Rest /\ step'[d] = step[d]
  BY <1>1, <1>2, Alone DEF InTurn, TypeInv, TypeOK
<1>4. step'[c] = "done" /\ held[c].known
  BY <1>2 DEF TypeInv, TypeOK, StoryInv
<1>5. published' = IF Change(c).from = Change(c).to
                   THEN published
                   ELSE [published EXCEPT ![j] = Append(published[j], Change(c))]
  BY <1>2, <1>4 DEF PublishEvents, CommandFails, TypeInv, TypeOK
<1>6. published[j] \in Seq(Event) /\ Current(c).next \in Nat /\ Change(c).to = Current(c).next
  BY <1>1, AtHand DEF TypeInv, TypeOK, Change
<1>7. ASSUME crashes = 0, NEW k \in Journeys PROVE Connected(k)'
  <2>1. Connected(k) /\ TellsOn(c)
    BY <1>7 DEF StoryInv
  <2>2. CASE k # j
    <3>1. published'[k] = published[k]
      BY <1>1, <1>5, <2>2 DEF TypeInv, TypeOK
    <3>2. \A d \in Consumers : step[d] = "publish" => held[d].journey # k
      BY <1>3, <2>2 DEF Rest
    <3>. QED  BY <1>1, <2>1, <3>1, <3>2 DEF Connected, EndsAt
  <2>3. CASE k = j /\ Change(c).from = Change(c).to
    <3>1. held[c].previous # None /\ held[c].previous.next = Current(c).next
      BY <1>6, <2>3, TrackerAssumption DEF Change
    <3>2. details[j] # None => EndsAt(j, details[j].next)
      BY <1>1, <2>1, <3>1 DEF TellsOn
    <3>3. published' = published
      BY <1>5, <2>3
    <3>. QED  BY <1>1, <2>1, <2>3, <3>2, <3>3 DEF Connected, EndsAt
  <2>4. CASE k = j /\ Change(c).from # Change(c).to
    <3>1. published'[j] = Append(published[j], Change(c))
      BY <1>1, <1>5, <2>4 DEF TypeInv, TypeOK
    <3>2. /\ Len(published[j]) \in Nat /\ Len(published'[j]) = Len(published[j]) + 1
          /\ published'[j][Len(published[j]) + 1] = Change(c) /\ published'[j] # <<>>
          /\ \A i \in 1..Len(published[j]) : published'[j][i] = published[j][i]
      <4>2. DEFINE told == published[j]
                   change == Change(c)
      <4>3. told \in Seq(Event) /\ Append(told, change) # <<>>
        BY <1>6, AppendProperties
      <4>4. /\ Len(told) \in Nat /\ Len(Append(told, change)) = Len(told) + 1
            /\ Append(told, change)[Len(told) + 1] = change
            /\ \A i \in 1..Len(told) : Append(told, change)[i] = told[i]
        BY <4>3
      <4>. QED  BY <3>1, <4>3, <4>4
    <3>3. Last(published'[j]).to = Current(c).next
      BY <1>6, <3>2 DEF Last
    <3>4. details'[j] # None => EndsAt(j, details[j].next)'
      BY <1>1, <2>1, <3>2, <3>3 DEF TellsOn, EndsAt
    <3>5. Change(c).from = None \/ EndsAt(j, Change(c).from)
      BY <1>1, <2>1 DEF TellsOn, Change
    <3>6. ASSUME NEW i \in 2..Len(published'[j])
          PROVE  published'[j][i].from \in {None, published'[j][i - 1].to}
      <4>1. CASE i \in 2..Len(published[j])
        <5>1. published'[j][i] = published[j][i] /\ published'[j][i - 1] = published[j][i - 1]
          <6>1. i \in 1..Len(published[j]) /\ i - 1 \in 1..Len(published[j])
            BY <3>2, <4>1
          <6>. QED  BY <3>2, <6>1
        <5>. QED  BY <2>1, <2>4, <4>1, <5>1 DEF Connected
      <4>2. CASE i = Len(published[j]) + 1
        <5>1. published'[j][i] = Change(c) /\ i - 1 = Len(published[j]) /\ i - 1 \in 1..Len(published[j])
          BY <3>2, <3>6, <4>2
        <5>2. published'[j][i - 1] = Last(published[j])
          BY <3>2, <5>1 DEF Last
        <5>. QED  BY <3>5, <5>1, <5>2 DEF EndsAt
      <4>. QED  BY <3>2, <3>6, <4>1, <4>2
    <3>. QED  BY <1>1, <2>4, <3>4, <3>6 DEF Connected
  <2>. QED  BY <2>2, <2>3, <2>4
<1>8. \A d \in Consumers : TellsOn(d)'
  BY <1>3, <1>4 DEF TellsOn, Rest
<1>9. \A d \in Consumers : held'[d].known
  BY <1>1 DEF StoryInv
<1>. QED  BY <1>1, <1>7, <1>8, <1>9 DEF StoryInv

LEMMA StoryStep ==
  ASSUME TypeInv, QueueInv, StoryInv, [Next]_vars PROVE StoryInv'
<1>. USE DEF TypeInv
<1>0. ASSUME ~InTurn' PROVE StoryInv'
  BY <1>0 DEF StoryInv
<1>1. CASE UNCHANGED vars
  BY <1>1, StoryKept DEF vars, budgets, redis, InTurn
<1>2. ASSUME Next, details' = details, published' = published,
             \A c \in Consumers : held[c].known => held'[c].known,
             \A c \in Consumers : step'[c] \in {"set", "publish"} \/ step[c] = "publish" =>
               step'[c] = step[c] /\ held'[c] = held[c] /\ todo'[c] = todo[c]
      PROVE  StoryInv'
  <2>1. (InTurn' => InTurn) /\ (crashes' = 0 => crashes = 0)
    BY <1>2, FaultsStay DEF InTurn
  <2>. QED  BY <1>2, <2>1, StoryKept
<1>3. CASE Crash
  <2>1. crashes' # 0 /\ \A c \in Consumers : held'[c] = Nothing
    BY <1>3 DEF Crash, TypeOK
  <2>. QED  BY <2>1 DEF StoryInv, Nothing
<1>4. ASSUME NEW j \in Journeys, ExpireDetails(j) PROVE StoryInv'
  <2>1. /\ UNCHANGED <<todo, step, held, published, crashes>> /\ (InTurn' => InTurn)
        /\ \A k \in Journeys : details'[k] \in {None, details[k]}
    BY <1>4 DEF ExpireDetails, TypeOK, InTurn
  <2>2. ASSUME InTurn', crashes = 0, NEW k \in Journeys PROVE Connected(k)'
    BY <2>1, <2>2 DEF StoryInv, Connected, EndsAt
  <2>3. ASSUME InTurn', crashes = 0, NEW c \in Consumers PROVE TellsOn(c)'
    <3>1. TellsOn(c) /\ Current(c)' = Current(c)
      BY <2>1, <2>3 DEF StoryInv, Current
    <3>2. step[c] \in {"set", "publish"} => held[c].journey \in Journeys
      BY DEF WorkInHand, Handling
    <3>. QED  BY <2>1, <3>1, <3>2 DEF TellsOn, EndsAt
  <2>. QED  BY <2>1, <2>2, <2>3 DEF StoryInv
<1>5. ASSUME NEW c \in Consumers, Consumer(c) PROVE StoryInv'
  <2>1. CASE PreviousForEvents(c) \/ SetDetails(c) \/ PublishEvents(c)
    <3>1. InTurn' => InTurn
      BY <1>5, FaultsStay DEF Next, InTurn
    <3>. QED  BY <1>0, <2>1, <3>1, StoryPrevious, StorySet, StoryPublish
  <2>2. CASE Commands(c) /\ ~PreviousForEvents(c) /\ ~SetDetails(c) /\ ~PublishEvents(c)
    <3>1. details' = details /\ published' = published
      BY <2>2, WhoWrites
    <3>2. todo' = todo /\ \A d \in Consumers : d # c => step'[d] = step[d] /\ held'[d] = held[d]
      BY <2>2, CommandsKeep
    <3>3. step'[c] \notin {"set", "publish"} /\ step[c] # "publish"
      BY <2>2 DEF Commands, TouchMapping, TouchMisses, CheckOwner, Identify, StoreMapping, ClaimJourney,
         FindForUpdate, GiveUp, UpdateLocation, UpdateStep, Goto, TypeOK
    <3>4. held'[c].known = held[c].known
      <4>1. held' = held \/ TouchMapping(c) \/ Identify(c) \/ FindForUpdate(c)
        BY <2>2, WhoWrites
      <4>. QED  BY <4>1 DEF TouchMapping, Identify, FindForUpdate, Hand, TypeOK
    <3>. QED  BY <1>2, <1>5, <3>1, <3>2, <3>3, <3>4 DEF Next
  <2>3. CASE Consume(c) \/ EndOne(c) \/ Ack(c)
    <3>1. details' = details /\ published' = published
      BY <2>3 DEF Consume, EndOne, Ack, redis
    <3>2. /\ step'[c] \notin {"set", "publish"} /\ step[c] # "publish"
          /\ \A d \in Consumers : d # c => step'[d] = step[d] /\ held'[d] = held[d]
      BY <2>3 DEF Consume, EndOne, Ack, Goto, TypeOK
    <3>3. \A d \in Consumers : d # c => todo'[d] = todo[d]
      BY <2>3 DEF Consume, EndOne, Ack, TypeOK
    <3>4. held[c].known => held'[c].known
      BY <2>3 DEF Consume, EndOne, Ack, Nothing, TypeOK
    <3>. QED  BY <1>2, <1>5, <3>1, <3>2, <3>3, <3>4 DEF Next
  <2>. QED  BY <1>5, <2>1, <2>2, <2>3 DEF Consumer, Commands
<1>. QED  BY <1>1, <1>3, <1>4, <1>5 DEF Next

-----------------------------------------------------------------------------
(* Writes. *)

Busy == {"store", "find", "locate", "previous", "set"}

\* Nothing is claimed or written, and nobody gets nearer to a write.
LEMMA WriteKept ==
  ASSUME TypeInv, WriteInv, owner' = owner, InTurn' => InTurn,
         \A j \in Journeys : details'[j] \in {None, details[j]},
         \A c \in Consumers : step'[c] \in Busy =>
           step'[c] = step[c] /\ held'[c] = held[c] /\ todo'[c] = todo[c]
  PROVE  WriteInv'
<1>1. ASSUME InTurn', NEW c \in Consumers PROVE MergesLatest(c)' /\ GivesWay(c)'
  <2>1. MergesLatest(c) /\ GivesWay(c)
    BY <1>1 DEF WriteInv
  <2>2. CASE step'[c] \in Busy
    <3>1. step'[c] = step[c] /\ held'[c] = held[c] /\ Current(c)' = Current(c)
      BY <2>2 DEF Current
    <3>2. MergesLatest(c)'
      <4>1. step[c] \in {"locate", "previous", "set"} => held[c].journey \in Journeys
        BY DEF TypeInv, WorkInHand, Handling
      <4>. QED  BY <2>1, <3>1, <4>1 DEF MergesLatest
    <3>3. GivesWay(c)'
      BY <2>1, <3>1 DEF GivesWay, AsksOwner
    <3>. QED  BY <3>2, <3>3
  <2>3. CASE ~(step'[c] \in Busy)
    BY <2>3 DEF MergesLatest, GivesWay, Busy
  <2>. QED  BY <2>2, <2>3
<1>. QED  BY <1>1 DEF WriteInv

\* The only one at work goes on.
LEMMA WriteCommands ==
  ASSUME TypeInv, QueueInv, AdmitInv, WriteInv, NEW c \in Consumers, Commands(c), InTurn', InTurn
  PROVE  MergesLatest(c)' /\ GivesWay(c)'
<1>. USE DEF TypeInv, TypeOK, Goto, InTurn, CommandFails, budgets, redis
<1>1. /\ Current(c)' = Current(c) /\ step[c] \notin Rest /\ WorkInHand(c) /\ held[c] \in Hand
      /\ MergesLatest(c) /\ GivesWay(c)
  BY CommandsKeep DEF Current, WriteInv
<1>2. /\ Current(c).source \in {"siri-vm", "GTFS-RT"} /\ Current(c).by \in {"timetable", "location"}
      /\ Current(c).local \in Locals /\ Current(c).journey \in Journeys \cup {None}
  BY <1>1, AtHand
<1>3. CASE TouchMapping(c) \/ TouchMisses(c) \/ GiveUp(c) \/ SetDetails(c) \/ PublishEvents(c)
  <2>1. step'[c] \notin Busy
    BY <1>3 DEF TouchMapping, TouchMisses, GiveUp, SetDetails, PublishEvents, Busy
  <2>. QED  BY <2>1 DEF MergesLatest, GivesWay, Busy
<1>4. CASE CheckOwner(c)
  <2>1. held' = held /\ owner' = owner
    BY <1>4 DEF CheckOwner
  <2>2. /\ step'[c] = IF OwnedByGTFS(c, held[c].journey) THEN "done" ELSE UpdateStep(c)
    BY <1>4 DEF CheckOwner
  <2>3. MergesLatest(c)'
    BY <1>1, <2>2 DEF MergesLatest, UpdateStep
  <2>4. GivesWay(c)'
    BY <1>1, <2>1, <2>2 DEF GivesWay, AsksOwner, OwnedByGTFS
  <2>. QED  BY <2>3, <2>4
<1>5. CASE Identify(c)
  <2>1. owner' = owner /\ step[c] = "identify" /\ step'[c] \in {"done", "store"}
    BY <1>5 DEF Identify
  <2>2. Current(c).local \notin Known
    <3>1. StoresFirst(Current(c).local) \/ Current(c).local \notin Known
      BY <1>2 DEF AdmitInv, Trusted
    <3>. QED  BY <2>1, <3>1 DEF AdmitInv, StoresFirst
  <2>3. step'[c] = "store" =>
          /\ held'[c].journey = IF Current(c).journey = None THEN NA ELSE Current(c).journey
          /\ ~(Current(c).journey # None /\ Current(c).by = "timetable" /\ OwnedByGTFS(c, Current(c).journey))
    BY <1>1, <1>5 DEF Identify, Hand
  <2>4. MergesLatest(c)'
    BY <2>1 DEF MergesLatest
  <2>5. GivesWay(c)'
    BY <1>1, <2>1, <2>2, <2>3, TrackerAssumption DEF GivesWay, AsksOwner, OwnedByGTFS
  <2>. QED  BY <2>4, <2>5
<1>6. CASE StoreMapping(c)
  <2>1. held' = held /\ owner' = owner /\ step[c] = "store" /\ step'[c] \in {"done", "claim", UpdateStep(c)}
    BY <1>6 DEF StoreMapping
  <2>2. MergesLatest(c)'
    BY <1>1, <2>1 DEF MergesLatest, UpdateStep
  <2>3. GivesWay(c)'
    BY <1>1, <2>1 DEF GivesWay, AsksOwner
  <2>. QED  BY <2>2, <2>3
<1>7. CASE ClaimJourney(c)
  <2>1. step[c] = "claim" /\ step'[c] = UpdateStep(c)
    BY <1>7 DEF ClaimJourney
  <2>2. Current(c).source = "GTFS-RT"
    BY <1>1, <2>1 DEF WorkInHand
  <2>. QED  BY <1>1, <2>1, <2>2 DEF MergesLatest, GivesWay, AsksOwner, UpdateStep
<1>8. CASE FindForUpdate(c)
  <2>1. held' = [held EXCEPT ![c].found = details[held[c].journey]] /\ step[c] = "find" /\ step'[c] = "locate"
    BY <1>8 DEF FindForUpdate
  <2>2. /\ held'[c].journey = held[c].journey /\ held'[c].found = details[held[c].journey]
        /\ owner' = owner /\ details' = details
    BY <1>1, <1>8, <2>1 DEF FindForUpdate, Hand
  <2>. QED  BY <1>1, <2>1, <2>2 DEF MergesLatest, GivesWay, AsksOwner
<1>9. CASE UpdateLocation(c)
  <2>1. /\ step[c] = "locate" /\ step'[c] = IF Current(c).kind = "trip" THEN "previous" ELSE "done"
        /\ held' = held /\ owner' = owner /\ details' = details
    BY <1>9 DEF UpdateLocation
  <2>. QED  BY <1>1, <2>1 DEF MergesLatest, GivesWay, AsksOwner
<1>10. CASE PreviousForEvents(c)
  <2>1. held' = [held EXCEPT ![c].previous = details[held[c].journey]] /\ step[c] = "previous" /\ step'[c] = "set"
    BY <1>10 DEF PreviousForEvents
  <2>2. /\ held'[c].journey = held[c].journey /\ held'[c].found = held[c].found
        /\ owner' = owner /\ details' = details
    BY <1>1, <1>10, <2>1 DEF PreviousForEvents, Hand
  <2>. QED  BY <1>1, <2>1, <2>2 DEF MergesLatest, GivesWay, AsksOwner
<1>. QED
  BY <1>3, <1>4, <1>5, <1>6, <1>7, <1>8, <1>9, <1>10 DEF Commands

LEMMA WriteStep ==
  ASSUME TypeInv, QueueInv, AdmitInv, WriteInv, [Next]_vars PROVE WriteInv'
<1>0. InTurn' => InTurn
  BY FaultsStay DEF InTurn, TypeInv, vars, budgets
<1>1. CASE UNCHANGED vars
  BY <1>0, <1>1, WriteKept DEF vars, redis
<1>2. CASE Crash
  BY <1>0, <1>2, WriteKept DEF Crash, redis, Busy
<1>3. ASSUME NEW j \in Journeys, ExpireDetails(j) PROVE WriteInv'
  <2>1. \A k \in Journeys : details'[k] \in {None, details[k]}
    BY <1>3 DEF ExpireDetails, TypeInv, TypeOK
  <2>. QED  BY <1>0, <1>3, <2>1, WriteKept DEF ExpireDetails
<1>4. ASSUME NEW c \in Consumers, Consumer(c) PROVE WriteInv'
  <2>1. CASE Commands(c)
    <3>1. ASSUME InTurn', NEW d \in Consumers PROVE MergesLatest(d)' /\ GivesWay(d)'
      <4>1. CASE d = c
        BY <1>0, <2>1, <3>1, <4>1, WriteCommands
      <4>2. CASE d # c
        <5>1. step'[d] = step[d] /\ step[c] \notin Rest
          BY <2>1, <4>2, CommandsKeep DEF TypeInv
        <5>2. step[d] \in Rest
          BY <1>0, <3>1, <4>2, <5>1, Alone DEF InTurn
        <5>. QED  BY <5>1, <5>2 DEF MergesLatest, GivesWay, Rest
      <4>. QED  BY <4>1, <4>2
    <3>. QED  BY <3>1 DEF WriteInv
  <2>2. CASE Consume(c) \/ EndOne(c) \/ Ack(c)
    <3>1. details' = details /\ owner' = owner
      BY <2>2 DEF Consume, EndOne, Ack, redis
    <3>2. step'[c] \notin Busy /\ \A d \in Consumers : d # c => step'[d] = step[d] /\ held'[d] = held[d]
      BY <2>2 DEF Consume, EndOne, Ack, Goto, TypeInv, TypeOK, Busy
    <3>3. \A d \in Consumers : d # c => todo'[d] = todo[d]
      BY <2>2 DEF Consume, EndOne, Ack, TypeInv, TypeOK
    <3>. QED  BY <1>0, <3>1, <3>2, <3>3, WriteKept
  <2>. QED  BY <1>4, <2>1, <2>2 DEF Consumer, Commands
<1>. QED  BY <1>1, <1>2, <1>3, <1>4 DEF Next

-----------------------------------------------------------------------------
(* The invariant, and what follows from it. *)

LEMMA TrackerInit == Init => TrackerInv
<1>. SUFFICES ASSUME Init PROVE TrackerInv
  OBVIOUS
<1>1. TypeInv
  BY TypeInit
<1>2. /\ \A c \in Consumers : unacked[c] = {} /\ step[c] = "idle" /\ held[c] = Nothing
      /\ admitted = <<>> /\ \A j \in Journeys : published[j] = <<>> /\ details[j] = None
  BY DEF Init
<1>3. QueueInv
  BY <1>2 DEF QueueInv, DeliveredOnce, OneAtWork, Rest
<1>4. AdmitInv
  <2>1. \A l \in Known : mapping[l] \in Mapping
    BY KnownJourney, TrackerAssumption DEF Init, Mapping, TimeOfKnown
  <2>2. \A l \in Known : mapping[l] # None
    BY <2>1, TrackerAssumption
  <2>3. \A l \in Locals : InOrder(l) /\ Watermark(l) /\ StoresFirst(l)
    BY <1>2 DEF InOrder, Watermark, StoresFirst
  <2>. QED  BY <2>2, <2>3 DEF AdmitInv
<1>5. NoticeInv
  BY <1>2 DEF NoticeInv, NoticeOnce, Handling
<1>6. StoryInv
  BY <1>2 DEF StoryInv, Connected, TellsOn, Nothing
<1>7. WriteInv
  BY <1>2 DEF WriteInv, MergesLatest, GivesWay
<1>. QED  BY <1>1, <1>3, <1>4, <1>5, <1>6, <1>7 DEF TrackerInv

LEMMA TrackerStep == TrackerInv /\ [Next]_vars => TrackerInv'
BY TypeStep, QueueStep, AdmitStep, NoticeStep, StoryStep, WriteStep DEF TrackerInv

\* What becomes of observations is right in every behaviour, whatever the number of consumers
\* and the sizes of batches: those of an identified vehicle are admitted in the order of their
\* times, a change is announced once, and announcements tell a connected story
\* (consumer.go:32-50, 276, events.go:81-142), under the conditions named at each of them.
THEOREM ObservationsCount == Spec => []ObservationsCountOnce
<1>1. Init => TrackerInv
  BY TrackerInit
<1>2. TrackerInv /\ [Next]_vars => TrackerInv'
  BY TrackerStep
<1>3. TrackerInv => ObservationsCountOnce
  <2>. SUFFICES ASSUME TrackerInv PROVE ObservationsCountOnce
    OBVIOUS
  <2>1. TypeOK /\ NoticeOnce
    BY DEF TrackerInv, TypeInv, NoticeInv
  <2>2. AdmissionNewerKnown
    BY DEF TrackerInv, AdmitInv, AdmissionNewerKnown, Trusted
  <2>3. ConnectedStory
    <3>1. ASSUME crashes = 0, InTurn, NEW j \in Journeys
          PROVE  /\ \A i \in 2..Len(published[j]) : published[j][i].from \in {None, published[j][i - 1].to}
                 /\ (details[j] # None /\ \A c \in Consumers : step[c] # "publish") =>
                       published[j] # <<>> /\ Last(published[j]).to = details[j].next
      BY <3>1 DEF TrackerInv, StoryInv, Connected, EndsAt
    <3>. QED  BY <3>1 DEF ConnectedStory, InTurn
  <2>. QED  BY <2>1, <2>2, <2>3 DEF ObservationsCountOnce
<1>. QED  BY <1>1, <1>2, <1>3, PTL DEF Spec

\* Only the write of a consumer puts a snapshot in the place of another.
LEMMA WhoReplaces ==
  ASSUME TypeInv, [Next]_vars, NEW j \in Journeys, details'[j] \notin {None, details[j]}
  PROVE  \E c \in Consumers :
           /\ step[c] = "set" /\ held[c].journey = j
           /\ details'[j] = [source |-> Current(c).source, next |-> Current(c).next, merged |-> Merged(c)]
<1>1. CASE UNCHANGED vars
  BY <1>1 DEF vars, redis
<1>2. CASE Crash
  BY <1>2 DEF Crash, redis
<1>3. ASSUME NEW k \in Journeys, ExpireDetails(k) PROVE FALSE
  BY <1>3 DEF ExpireDetails, TypeInv, TypeOK
<1>4. ASSUME NEW c \in Consumers, Consumer(c)
      PROVE  /\ step[c] = "set" /\ held[c].journey = j
             /\ details'[j] = [source |-> Current(c).source, next |-> Current(c).next, merged |-> Merged(c)]
  <2>1. SetDetails(c)
    <3>1. Commands(c) \/ Consume(c) \/ EndOne(c) \/ Ack(c)
      BY <1>4 DEF Consumer, Commands
    <3>. QED  BY <3>1, WhoWrites DEF Consume, EndOne, Ack, redis
  <2>2. step[c] = "set" /\ held[c].journey \in Journeys /\ details \in [Journeys -> Snapshot \cup {None}]
    BY <2>1 DEF SetDetails, TypeInv, TypeOK, WorkInHand, Handling
  <2>3. details' = [details EXCEPT ![held[c].journey] =
          [source |-> Current(c).source, next |-> Current(c).next, merged |-> Merged(c)]]
    BY <2>1 DEF SetDetails
  <2>. QED  BY <2>2, <2>3
<1>. QED  BY <1>1, <1>2, <1>3, <1>4 DEF Next

\* While consumers take turns and no command fails, no write of a SIRI observation replaces
\* the snapshot of a journey GTFS-RT has claimed before, although the marker is read commands
\* before the write, and no write loses what a snapshot had been merged from (consumer.go:287-290,
\* realtimejourney.go:227-237).
THEOREM WritesRespect == Spec => WritesRespectOthers
<1>1. Init => TrackerInv
  BY TrackerInit
<1>2. TrackerInv /\ [Next]_vars => TrackerInv'
  BY TrackerStep
<1>3. TrackerInv /\ [Next]_vars =>
        [errors = 0 /\ ~overlap => \A j \in Journeys :
           owner = j /\ details'[j] \notin {details[j], None} =>
             \/ details'[j].source = "GTFS-RT"
             \/ \E c \in Consumers : step[c] = "set" /\ Current(c).by = "location"
                                          /\ Current(c).local \notin Known]_vars
  <2>. SUFFICES ASSUME TrackerInv, [Next]_vars, InTurn, NEW j \in Journeys, owner = j,
                       details'[j] \notin {details[j], None}, details'[j].source # "GTFS-RT"
                PROVE  \E c \in Consumers : step[c] = "set" /\ Current(c).by = "location"
                                                 /\ Current(c).local \notin Known
    BY DEF InTurn
  <2>1. PICK c \in Consumers :
          /\ step[c] = "set" /\ held[c].journey = j
          /\ details'[j] = [source |-> Current(c).source, next |-> Current(c).next, merged |-> Merged(c)]
    BY WhoReplaces DEF TrackerInv
  <2>2. Current(c).source = "siri-vm" /\ Current(c).by \in {"timetable", "location"}
    BY <2>1, AtHand DEF TrackerInv, Rest
  <2>3. GivesWay(c)
    BY DEF TrackerInv, WriteInv
  <2>. QED  BY <2>1, <2>2, <2>3 DEF GivesWay, AsksOwner
<1>4. TrackerInv /\ [Next]_vars =>
        [errors = 0 /\ ~overlap => \A j \in Journeys : details[j] # None /\ details'[j] # None =>
           details[j].merged \subseteq details'[j].merged]_vars
  <2>. SUFFICES ASSUME TrackerInv, [Next]_vars, InTurn, NEW j \in Journeys, details[j] # None, details'[j] # None
                PROVE  details[j].merged \subseteq details'[j].merged
    BY DEF InTurn
  <2>1. CASE details'[j] = details[j]
    BY <2>1
  <2>2. CASE details'[j] # details[j]
    <3>1. PICK c \in Consumers :
            /\ step[c] = "set" /\ held[c].journey = j
            /\ details'[j] = [source |-> Current(c).source, next |-> Current(c).next, merged |-> Merged(c)]
      BY <2>2, WhoReplaces DEF TrackerInv
    <3>2. details[j] = held[c].found
      BY <3>1 DEF TrackerInv, WriteInv, MergesLatest
    <3>3. details'[j].merged = Merged(c)
      BY <3>1
    <3>. QED  BY <3>2, <3>3 DEF Merged
  <2>. QED  BY <2>1, <2>2
<1>. QED  BY <1>1, <1>2, <1>3, <1>4, PTL DEF Spec, WritesRespectOthers, OwnerWrites, NothingUnmerged

-----------------------------------------------------------------------------
(* JourneyEstimates: whatever is left alone, what is stored of the calls of a journey is what was *)
(* last said of each.                                                                              *)

EstimatesInv ==
  /\ snapshot = [j \in Journeys |-> snapshot[j]]
  /\ said = [j \in Journeys |-> said[j]]
  /\ \A j \in Journeys : snapshot[j].stops = said[j]

\* Estimates that would come out the same change nothing where they are left out.
LEMMA OverlayOfSame ==
  ASSUME NEW stored, NEW estimates, ~NeedsRebuild(stored, estimates)
  PROVE  Overlay(stored.stops, <<>>) = Overlay(stored.stops, estimates)
<1>1. DOMAIN <<>> = {}
  OBVIOUS
<1>2. \A k \in DOMAIN estimates : k \in DOMAIN stored.stops /\ stored.stops[k] = estimates[k]
  BY DEF NeedsRebuild
<1>3. DOMAIN stored.stops \cup DOMAIN <<>> = DOMAIN stored.stops \cup DOMAIN estimates
  BY <1>1, <1>2
<1>4. \A k \in DOMAIN stored.stops \cup DOMAIN estimates :
        (IF k \in DOMAIN <<>> THEN <<>>[k] ELSE stored.stops[k]) =
          (IF k \in DOMAIN estimates THEN estimates[k] ELSE stored.stops[k])
  BY <1>1, <1>2
<1>. QED  BY <1>3, <1>4 DEF Overlay

LEMMA SaveKeepsEstimates ==
  ASSUME EstimatesInv, NEW j \in Journeys, NEW next, NEW offset, NEW stops, NEW estimates,
         Save(j, next, offset, stops), said' = [said EXCEPT ![j] = Overlay(@, estimates)],
         Overlay(snapshot[j].stops, stops) = Overlay(snapshot[j].stops, estimates)
  PROVE  EstimatesInv'
<1>1. snapshot' = [snapshot EXCEPT ![j] = [next |-> next, offset |-> offset, stops |-> Overlay(snapshot[j].stops, stops)]]
  BY DEF Save
<1>2. said' = [said EXCEPT ![j] = Overlay(said[j], estimates)]
  OBVIOUS
<1>3. ASSUME NEW i \in Journeys  PROVE  snapshot'[i].stops = said'[i]
  <2>1. CASE i = j
    BY <1>1, <1>2, <2>1 DEF EstimatesInv
  <2>2. CASE i # j
    BY <1>1, <1>2, <2>2 DEF EstimatesInv
  <2>. QED  BY <2>1, <2>2
<1>4. snapshot' = [i \in Journeys |-> snapshot'[i]] /\ said' = [i \in Journeys |-> said'[i]]
  BY <1>1, <1>2 DEF EstimatesInv
<1>. QED  BY <1>3, <1>4 DEF EstimatesInv

LEMMA LocateKeepsEstimates ==
  ASSUME EstimatesInv, NEW c \in Consumers, NEW j \in Journeys, NEW p \in Points, Locate(c, j, p)
  PROVE  EstimatesInv'
<1> DEFINE version   == VersionFor(c, j)
           match     == Match(version, p)
           offset    == Offset(version, match, now)
           estimates == FutureStops(version, match.leg, offset)
           same      == /\ snapshot[j].next = match.leg /\ snapshot[j].offset = offset
                        /\ ~NeedsRebuild(snapshot[j], estimates)
           stops     == IF same THEN <<>> ELSE estimates
<1>1. Save(j, match.leg, offset, stops) /\ said' = [said EXCEPT ![j] = Overlay(@, estimates)]
  BY DEF Locate
<1>2. Overlay(snapshot[j].stops, stops) = Overlay(snapshot[j].stops, estimates)
  <2>1. CASE same
    <3> HIDE DEF estimates
    <3>. QED  BY <2>1, OverlayOfSame
  <2>2. CASE ~same
    BY <2>2
  <2>. QED  BY <2>1, <2>2
<1> HIDE DEF match, offset, estimates, stops
<1>. QED  BY <1>1, <1>2, SaveKeepsEstimates

LEMMA EstimatesStep == EstimatesInv /\ [EstimatesNext]_estimateVars => EstimatesInv'
<1>. SUFFICES ASSUME EstimatesInv, [EstimatesNext]_estimateVars  PROVE  EstimatesInv'
  OBVIOUS
<1>1. CASE UNCHANGED <<snapshot, said>>
  BY <1>1 DEF EstimatesInv
<1>2. ASSUME NEW j \in Journeys, Expire(j)  PROVE  EstimatesInv'
  BY <1>2 DEF Expire, EstimatesInv, Fresh
<1>3. ASSUME NEW c \in Consumers, NEW j \in Journeys, NEW p \in Points, Locate(c, j, p)
      PROVE  EstimatesInv'
  BY <1>3, LocateKeepsEstimates
<1>4. ASSUME NEW c \in Consumers, NEW j \in Journeys, NEW u \in Predictions, Predict(c, j, u)
      PROVE  EstimatesInv'
  <2> DEFINE estimates == StopUpdates(VersionFor(c, j), u)
             leg       == Passed(VersionFor(c, j), u)
  <2>1. \/ UNCHANGED <<snapshot, said>>
        \/ Save(j, leg, 0, estimates) /\ said' = [said EXCEPT ![j] = Overlay(@, estimates)]
    BY <1>4 DEF Predict
  <2> HIDE DEF estimates, leg
  <2>. QED  BY <1>1, <2>1, SaveKeepsEstimates
<1>. QED  BY <1>1, <1>2, <1>3, <1>4 DEF EstimatesNext, Tick, Import, Evict, estimateVars

\* Each estimate is what the last observation that spoke of the stop said of it, for any consumers,
\* caches, timetables, positions and predictions (realtimejourney.go:96-225).
THEOREM EstimatesFollow == EstimatesSpec => []EstimatesAreNewest
<1>1. EstimatesInit => EstimatesInv
  BY DEF EstimatesInit, EstimatesInv, Fresh
<1>2. EstimatesInv => EstimatesAreNewest
  BY DEF EstimatesInv, EstimatesAreNewest
<1>. QED  BY <1>1, <1>2, EstimatesStep, PTL DEF EstimatesSpec

=============================================================================
