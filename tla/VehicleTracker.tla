---------------------------- MODULE VehicleTracker ----------------------------
(***************************************************************************)
(* The realtime queue and its batch consumers: a vehicle observation is      *)
(* identified with a journey through the mapping of its LocalID in Redis,     *)
(* and becomes the snapshot of that journey, with an event for whoever        *)
(* follows it.  Consumers share nothing but Redis, and every step of a        *)
(* consumer is one command to it.                                            *)
(*                                                                          *)
(* Data is abstracted to what the properties tell apart: an observation is    *)
(* its LocalID, time and source, the journey identification would find and    *)
(* how, and the next stop that follows from its position.  All observations    *)
(* are of one vehicle on one service day, shorter than the mapping's 90        *)
(* minutes and the marker's 8 hours.  A command that fails has no effect.       *)
(***************************************************************************)
EXTENDS TrackedJourneys, Naturals, Sequences, SequencesExt, FiniteSets

CONSTANTS
  Observations,  \* 1..n
  Feed,          \* of each: [local, at, source, kind, journey, by, next]
  Locals,
  NA,            \* the journey of a LocalID that could not be identified
  BatchSize,
  Known,         \* LocalIDs with a mapping from before, to the journey of the feed
  MaxFaults      \* bound of crashes, commands that fail and snapshots that expire

Observation == [local : Locals, at : Nat \ {0}, source : {"siri-vm", "GTFS-RT"},
                kind : {"trip", "location"}, journey : Journeys \cup {None},
                by : {"timetable", "location"}, next : Nat]
Mapping == [journey : Journeys \cup {NA}, at : Nat]

ASSUME TrackerAssumption ==
  /\ Observations \subseteq Nat \ {0} /\ IsFiniteSet(Observations) /\ BatchSize \in Nat \ {0}
  /\ Feed \in [Observations -> Observation]
  /\ None \notin Journeys \cup Nat \cup Mapping /\ NA \notin Journeys /\ NA # None
  /\ Known \subseteq Locals
  /\ \A l \in Known : \E o \in Observations : Feed[o].local = l /\ Feed[o].journey # None
  /\ MaxFaults \in Nat

VARIABLES
  ready,     \* deliveries in the queue
  unacked,   \* of each consumer: delivered and not acknowledged
  todo,      \* of each consumer: what it has not dealt with of its batch
  step,      \* of each consumer
  held,      \* of each consumer: what it read or computed for the next step
  mapping,   \* realtime-identification: [journey, at], or None
  owner,     \* realtime-gtfs-journey: the journey GTFS-RT has claimed
  details,   \* realtime-journey:details: [source, next, merged], or None
  location,  \* realtime-journey:location: the time of the observation, or 0
  published, \* history: the events of each journey
  admitted,  \* history: the observations that reached a journey
  overlap,   \* history: two consumers have worked at the same time
  crashes, errors, expiries

queue   == <<ready, unacked>>
budgets == <<crashes, errors, expiries>>
redis   == <<mapping, owner, details, location>>
vars    == <<queue, todo, step, held, redis, published, admitted, overlap, budgets>>

Snapshot == [source : {"siri-vm", "GTFS-RT"}, next : Nat, merged : SUBSET Observations]
Nothing  == [journey |-> None, found |-> None, previous |-> None, known |-> TRUE]

Steps == {"idle", "touch", "identify", "store", "claim", "own", "find", "locate", "previous", "set",
          "publish", "done", "ack"}

Current(c) == Feed[Head(todo[c])]

\* A mapping from before: to the journey of the feed, and older than all of it.
TimeOfKnown == 0
JourneyOf(l) == Feed[CHOOSE o \in Observations : Feed[o].local = l /\ Feed[o].journey # None].journey

Init ==
  /\ ready = Observations
  /\ unacked = [c \in Consumers |-> {}]
  /\ todo = [c \in Consumers |-> <<>>]
  /\ step = [c \in Consumers |-> "idle"]
  /\ held = [c \in Consumers |-> Nothing]
  /\ mapping = [l \in Locals |->
       IF l \in Known
       THEN [journey |-> JourneyOf(l), at |-> TimeOfKnown]
       ELSE None]
  /\ owner = None
  /\ details = [j \in Journeys |-> None]
  /\ location = [j \in Journeys |-> 0]
  /\ published = [j \in Journeys |-> <<>>]
  /\ admitted = <<>> /\ overlap = FALSE
  /\ crashes = 0 /\ errors = 0 /\ expiries = 0

Goto(c, s)    == step' = [step EXCEPT ![c] = s]
FaultsLeft    == crashes + errors + expiries < MaxFaults
CommandFails  == FaultsLeft /\ errors' = errors + 1 /\ UNCHANGED <<crashes, expiries>>

\* After identification: a trip update or a location on its own.
UpdateStep(c) == IF Current(c).kind = "trip" THEN "find" ELSE "locate"

-----------------------------------------------------------------------------
\* The queue hands a batch to a consumer, in any order: five consumers prefetch.
Consume(c) ==
  /\ step[c] = "idle"
  /\ \E batch \in {b \in SUBSET ready : b # {} /\ Cardinality(b) <= BatchSize} :
       /\ ready' = ready \ batch
       /\ unacked' = [unacked EXCEPT ![c] = batch]
       /\ \E order \in SetToSeqs(batch) : todo' = [todo EXCEPT ![c] = order]
  /\ Goto(c, "touch")
  /\ overlap' = (overlap \/ \E d \in Consumers \ {c} : step[d] \notin {"idle", "ack"})
  /\ UNCHANGED <<held, redis, published, admitted, budgets>>

\* The Lua script touchIdentificationMapping, one command.
BugTouchMapping(c) ==
  /\ step[c] = "touch" /\ mapping[Current(c).local] # None
  /\ LET seen == mapping[Current(c).local]
     IN  IF seen.journey = NA
         THEN Goto(c, "done") /\ UNCHANGED <<mapping, held, admitted>>
         ELSE /\ mapping' = [mapping EXCEPT ![Current(c).local] = [seen EXCEPT !.at = Current(c).at]]
              /\ held' = [held EXCEPT ![c].journey = seen.journey]
              /\ admitted' = Append(admitted, Head(todo[c]))
              /\ Goto(c, "own")
  /\ UNCHANGED <<queue, todo, owner, details, location, published, budgets, overlap>>

TouchMapping(c) ==
  /\ step[c] = "touch" /\ mapping[Current(c).local] # None
  /\ LET seen == mapping[Current(c).local]
     IN  IF seen.journey = NA \/ Current(c).at <= seen.at
         THEN Goto(c, "done") /\ UNCHANGED <<mapping, held, admitted>>
         ELSE /\ mapping' = [mapping EXCEPT ![Current(c).local] = [seen EXCEPT !.at = Current(c).at]]
              /\ held' = [held EXCEPT ![c].journey = seen.journey]
              /\ admitted' = Append(admitted, Head(todo[c]))
              /\ Goto(c, "own")
  /\ UNCHANGED <<queue, todo, owner, details, location, published, budgets, overlap>>

\* Only what fails is identified, and a LocalID without a mapping waits for one.
BugTouchMisses(c) ==
  /\ step[c] = "touch"
  /\ CommandFails
  /\ Goto(c, "identify")
  /\ UNCHANGED <<queue, todo, held, redis, published, admitted, overlap>>

\* A failed script is taken for a missing mapping.
TouchMisses(c) ==
  /\ step[c] = "touch"
  /\ \/ mapping[Current(c).local] = None /\ UNCHANGED budgets
     \/ CommandFails
  /\ Goto(c, "identify")
  /\ UNCHANGED <<queue, todo, held, redis, published, admitted, overlap>>

\* gtfsOwnsJourney, asked of SIRI observations only; a marker that cannot be read
\* owns nothing.
BugOwnedByGTFS(c, journey) == Current(c).source = "GTFS-RT" /\ owner = journey

OwnedByGTFS(c, journey) == Current(c).source = "siri-vm" /\ owner = journey

\* After a cached match.
CheckOwner(c) ==
  /\ step[c] = "own"
  /\ \/ /\ Goto(c, IF OwnedByGTFS(c, held[c].journey) THEN "done" ELSE UpdateStep(c))
        /\ UNCHANGED budgets
     \/ CommandFails /\ Goto(c, UpdateStep(c))
  /\ UNCHANGED <<queue, todo, held, redis, published, admitted, overlap>>

\* The timetable decides, and SIRI gives way to GTFS without being cached.  Where the
\* timetable finds nothing the location may, and then the marker is not asked.
Identify(c) ==
  /\ step[c] = "identify"
  /\ \/ UNCHANGED budgets
     \/ CommandFails
  /\ LET journey  == Current(c).journey
         answered == errors' = errors
     IN  IF journey # None /\ Current(c).by = "timetable" /\ OwnedByGTFS(c, journey) /\ answered
         THEN Goto(c, "done") /\ UNCHANGED held
         ELSE Goto(c, "store") /\ held' = [held EXCEPT ![c].journey = IF journey = None THEN NA ELSE journey]
  /\ UNCHANGED <<queue, todo, redis, published, admitted, overlap>>

\* storeIdentificationMapping: unconditional, and errors are only logged.
StoreMapping(c) ==
  /\ step[c] = "store"
  /\ LET journey == held[c].journey
     IN  /\ \/ /\ mapping' = [mapping EXCEPT ![Current(c).local] =
                                [journey |-> journey, at |-> Current(c).at]]
               /\ UNCHANGED budgets
            \/ CommandFails /\ UNCHANGED mapping
         /\ IF journey = NA
            THEN Goto(c, "done") /\ UNCHANGED admitted
            ELSE /\ Goto(c, IF Current(c).source = "GTFS-RT" /\ Current(c).by = "timetable"
                            THEN "claim" ELSE UpdateStep(c))
                 /\ admitted' = Append(admitted, Head(todo[c]))
  /\ UNCHANGED <<queue, todo, held, owner, details, location, published, overlap>>

\* storeGTFSJourneyOwnership.
ClaimJourney(c) ==
  /\ step[c] = "claim"
  /\ \/ owner' = held[c].journey /\ UNCHANGED budgets
     \/ CommandFails /\ UNCHANGED owner
  /\ Goto(c, UpdateStep(c))
  /\ UNCHANGED <<queue, todo, held, mapping, details, location, published, admitted, overlap>>

-----------------------------------------------------------------------------
\* updateRealtimeJourney: FindForUpdate, whose error counts as no snapshot.
FindForUpdate(c) ==
  /\ step[c] = "find"
  /\ \/ held' = [held EXCEPT ![c].found = details[held[c].journey]] /\ UNCHANGED budgets
     \/ CommandFails /\ held' = [held EXCEPT ![c].found = None]
  /\ Goto(c, "locate")
  /\ UNCHANGED <<queue, todo, redis, published, admitted, overlap>>

\* The journey cannot be loaded or the position not matched: the update ends here.
GiveUp(c) ==
  /\ step[c] = "find"
  /\ Goto(c, "done")
  /\ UNCHANGED <<queue, todo, held, redis, published, admitted, overlap, budgets>>

UpdateLocation(c) ==
  /\ step[c] = "locate"
  /\ \/ location' = [location EXCEPT ![held[c].journey] = Current(c).at] /\ UNCHANGED budgets
     \/ CommandFails /\ UNCHANGED location
  /\ Goto(c, IF Current(c).kind = "trip" THEN "previous" ELSE "done")
  /\ UNCHANGED <<queue, todo, held, mapping, owner, details, published, admitted, overlap>>

\* SaveRealtimeJourney: the snapshot to compare with, the write, the events.
PreviousForEvents(c) ==
  /\ step[c] = "previous"
  /\ \/ held' = [held EXCEPT ![c].previous = details[held[c].journey]] /\ UNCHANGED budgets
     \/ CommandFails /\ held' = [held EXCEPT ![c].known = FALSE]
  /\ Goto(c, "set")
  /\ UNCHANGED <<queue, todo, redis, published, admitted, overlap>>

Merged(c) == (IF held[c].found = None THEN {} ELSE held[c].found.merged) \cup {Head(todo[c])}

SetDetails(c) ==
  /\ step[c] = "set"
  /\ \/ /\ details' = [details EXCEPT ![held[c].journey] =
             [source |-> Current(c).source, next |-> Current(c).next, merged |-> Merged(c)]]
        /\ Goto(c, "publish") /\ UNCHANGED budgets
     \/ CommandFails /\ Goto(c, "done") /\ UNCHANGED details
  /\ UNCHANGED <<queue, todo, held, mapping, owner, location, published, admitted, overlap>>

Change(c) ==
  [from |-> IF held[c].previous = None THEN None ELSE held[c].previous.next,
   to   |-> Current(c).next, by |-> Head(todo[c])]

\* RealtimeJourneyCreated, or NextStopChanged if it has; nothing if the snapshot
\* before could not be read.
PublishEvents(c) ==
  /\ step[c] = "publish"
  /\ LET journey == held[c].journey
     IN  \/ /\ published' = IF ~held[c].known \/ Change(c).from = Change(c).to
                            THEN published
                            ELSE [published EXCEPT ![journey] = Append(@, Change(c))]
            /\ UNCHANGED budgets
         \/ CommandFails /\ UNCHANGED published
  /\ Goto(c, "done")
  /\ UNCHANGED <<queue, todo, held, redis, admitted, overlap>>

\* The next of the batch; after the last the whole batch is acknowledged, in
\* single commands, whatever became of the observations.
EndOne(c) ==
  /\ step[c] = "done"
  /\ todo' = [todo EXCEPT ![c] = Tail(@)]
  /\ held' = [held EXCEPT ![c] = Nothing]
  /\ Goto(c, IF Len(todo[c]) = 1 THEN "ack" ELSE "touch")
  /\ UNCHANGED <<queue, redis, published, admitted, budgets, overlap>>

Ack(c) ==
  /\ step[c] = "ack"
  /\ \E o \in unacked[c] :
       /\ unacked' = [unacked EXCEPT ![c] = @ \ {o}]
       /\ Goto(c, IF unacked[c] = {o} THEN "idle" ELSE "ack")
  /\ UNCHANGED <<ready, todo, held, redis, published, admitted, budgets, overlap>>

-----------------------------------------------------------------------------
\* The cleaner takes a live connection for a dead one.
BugCrash ==
  /\ FaultsLeft /\ \E c \in Consumers : step[c] # "idle"
  /\ crashes' = crashes + 1
  /\ ready' = ready \cup UNION {unacked[c] : c \in Consumers}
  /\ unacked' = [c \in Consumers |-> {}]
  /\ UNCHANGED <<todo, step, held, redis, published, admitted, errors, expiries, overlap>>

\* The process dies with all its consumers; the cleaner of the queue returns
\* what they had not acknowledged.
Crash ==
  /\ FaultsLeft /\ \E c \in Consumers : step[c] # "idle"
  /\ crashes' = crashes + 1
  /\ ready' = ready \cup UNION {unacked[c] : c \in Consumers}
  /\ unacked' = [c \in Consumers |-> {}]
  /\ todo' = [c \in Consumers |-> <<>>]
  /\ step' = [c \in Consumers |-> "idle"]
  /\ held' = [c \in Consumers |-> Nothing]
  /\ UNCHANGED <<redis, published, admitted, errors, expiries, overlap>>

\* 10 minutes without an update.
ExpireDetails(j) ==
  /\ FaultsLeft /\ details[j] # None
  /\ expiries' = expiries + 1
  /\ details' = [details EXCEPT ![j] = None]
  /\ UNCHANGED <<queue, todo, step, held, mapping, owner, location, published, admitted,
                 overlap, crashes, errors>>

Consumer(c) ==
  \/ Consume(c) \/ TouchMapping(c) \/ TouchMisses(c) \/ CheckOwner(c) \/ Identify(c)
  \/ StoreMapping(c) \/ ClaimJourney(c)
  \/ FindForUpdate(c) \/ GiveUp(c) \/ UpdateLocation(c) \/ PreviousForEvents(c) \/ SetDetails(c)
  \/ PublishEvents(c) \/ EndOne(c) \/ Ack(c)

Next ==
  \/ Crash
  \/ \E c \in Consumers : Consumer(c)
  \/ \E j \in Journeys : ExpireDetails(j)

Spec == Init /\ [][Next]_vars

FairSpec == Spec /\ \A c \in Consumers : WF_vars(Consumer(c))

-----------------------------------------------------------------------------
Hand  == [journey : Journeys \cup {None, NA}, found : Snapshot \cup {None},
          previous : Snapshot \cup {None}, known : BOOLEAN]
Event == [from : Nat \cup {None}, to : Nat, by : Observations]

TypeOK ==
  /\ ready \subseteq Observations
  /\ unacked \in [Consumers -> SUBSET Observations]
  /\ todo \in [Consumers -> Seq(Observations)]
  /\ \A c \in Consumers : \A i \in DOMAIN todo[c] : todo[c][i] \in unacked[c]
  /\ step \in [Consumers -> Steps]
  /\ held \in [Consumers -> Hand]
  /\ mapping \in [Locals -> Mapping \cup {None}]
  /\ owner \in Journeys \cup {None}
  /\ details \in [Journeys -> Snapshot \cup {None}]
  /\ location \in [Journeys -> Nat]
  /\ published \in [Journeys -> Seq(Event)]
  /\ admitted \in Seq(Observations)
  /\ overlap \in BOOLEAN
  /\ crashes \in Nat /\ errors \in Nat /\ expiries \in Nat

InOrder(l) ==
  \A i, k \in DOMAIN admitted :
    i < k /\ Feed[admitted[i]].local = l /\ Feed[admitted[k]].local = l =>
      Feed[admitted[i]].at < Feed[admitted[k]].at

\* consumer.go:276, "This Lua check orders admission, not commits": observations of
\* one LocalID are admitted in the order of their times, and one that is delivered
\* again is not admitted again.
AdmissionNewer == \A l \in Locals : InOrder(l)

\* The same for a LocalID that has a mapping, however the consumers interleave, and
\* for every LocalID as long as they take turns (consumer.go:32-50).  A script that
\* fails is taken for a missing mapping, so no command may fail.
AdmissionNewerKnown ==
  errors = 0 => \A l \in Locals : l \in Known \/ ~overlap => InOrder(l)

\* Nobody hears of one observation twice, although the queue delivers it again
\* after a crash (consumer.go:199-206), if its LocalID has a mapping or consumers
\* take turns, and no command fails.
NoticeOnce ==
  errors = 0 => \A j \in Journeys : \A i, k \in DOMAIN published[j] :
    published[j][i].by = published[j][k].by =>
      i = k \/ (overlap /\ Feed[published[j][i].by].local \notin Known)

\* What followers are told of a journey is a connected story: every change starts
\* where the one before it ended, and the last ends in the snapshot
\* (events.go:81-142), as long as no event is lost and consumers take turns.
ConnectedStory ==
  (crashes = 0 /\ errors = 0 /\ ~overlap) =>
    \A j \in Journeys :
      LET story == published[j]
      IN  /\ \A i \in 2..Len(story) : story[i].from \in {None, story[i - 1].to}
          /\ (details[j] # None /\ \A c \in Consumers : step[c] # "publish") =>
                story # <<>> /\ Last(story).to = details[j].next

\* A snapshot keeps what earlier observations contributed to it
\* (realtimejourney.go:227-237), until it expires, if consumers take turns.
NothingUnmerged ==
  [][errors = 0 /\ ~overlap => \A j \in Journeys : details[j] # None /\ details'[j] # None =>
       details[j].merged \subseteq details'[j].merged]_vars

\* Once GTFS-RT has claimed a journey no SIRI observation replaces its snapshot
\* (consumer.go:287-290, 394-400), although the claim is checked several commands
\* before the write, if consumers take turns and no command fails.  An observation
\* of a new LocalID that is identified by its location is not asked (consumer.go:334).
OwnerWrites ==
  [][errors = 0 /\ ~overlap => \A j \in Journeys :
       owner = j /\ details'[j] \notin {details[j], None} =>
         \/ details'[j].source = "GTFS-RT"
         \/ \E c \in Consumers : step[c] = "set" /\ Current(c).by = "location"
                                      /\ Current(c).local \notin Known]_vars

\* What becomes of observations: those of an identified vehicle are admitted in the order of
\* their times, a change is announced once, and announcements tell a connected story while
\* consumers take turns (consumer.go:32-50, events.go:81-142).
ObservationsCountOnce == TypeOK /\ AdmissionNewerKnown /\ NoticeOnce /\ ConnectedStory

\* A journey GTFS-RT has claimed is not written by SIRI, and no write replaces a snapshot it
\* has not been merged with, while consumers take turns (consumer.go:287-290,
\* realtimejourney.go:227-237).
WritesRespectOthers == OwnerWrites /\ NothingUnmerged
=============================================================================
