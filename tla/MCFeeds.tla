-------------------------------- MODULE MCFeeds --------------------------------
(* The feeds that work beside the realtime tracker, one at a time: VSTP and Darwin, which tell boards of a  *)
(* train as RailBoard has it; the subscriptions' cache, which is SubscriptionCache; alerts (polled ones      *)
(* without, tracked ones with late lookups only); and the arrivals of a TfL line.  The first two are          *)
(* extended here.  What is not at work stays as it is.                                                        *)
EXTENDS RailBoard, SubscriptionCache

VARIABLES
  part,  \* what is at work
  alertReported, alertDocs, alertWatching, alertStream, alertEvents, alertHeld, alertCache, alertNotes,
  alertTold, alertOwed, alertCredit, alertChanges, alertFaults,
  busNow, busAhead, busDelay, busJourney, busBoard, busListed, busPending, busTorn, busSeen,
  busMade, busErratic

alertVars == <<alertReported, alertDocs, alertWatching, alertStream, alertEvents, alertHeld, alertCache,
  alertNotes, alertTold, alertOwed, alertCredit, alertChanges, alertFaults>>
busVars == <<busNow, busAhead, busDelay, busJourney, busBoard, busListed, busPending, busTorn,
  busSeen, busMade, busErratic>>

\* A train that calls at a stop between its first and its last; the overlay and Darwin may take it
\* another way, on two days of which VSTP changes the first.
AllStops == <<"A", "B", "C">>
TwoWays  == {AllStops, <<"A", "X", "C">>}
FirstDay == {{1}}

\* A polled alert of one identifier and a tracked one, and a subscription to that identifier.
Alerts == INSTANCE AlertPipeline WITH reported <- alertReported, alerts <- alertDocs,
  watching <- alertWatching, stream <- alertStream, events <- alertEvents, held <- alertHeld,
  cache <- alertCache, notes <- alertNotes, told <- alertTold, owed <- alertOwed,
  credit <- alertCredit, changes <- alertChanges, faults <- alertFaults,
  Polled <- {"line"}, Tracked <- {"train"}, Idents <- {"i", "j"}, Texts <- {1, 2},
  LineOf <- [l \in {"line"} |-> {"i"}], Subs <- {"s"}, Follows <- [s \in {"s"} |-> {"i"}],
  MaxChanges <- 3, MaxFaults <- 1
TrackedChanges == 2  \* MaxChanges for tracked alerts

\* A line with a branch that leaves out its middle stop.
Line       == <<"A", "B", "C">>
LineRoutes == {Line, <<"A", "C">>}

Tfl == INSTANCE TflArrivals WITH now <- busNow, ahead <- busAhead, delay <- busDelay,
  journey <- busJourney, board <- busBoard, listed <- busListed, pending <- busPending,
  torn <- busTorn, seen <- busSeen, made <- busMade, erratic <- busErratic, Route <- Line,
  Imported <- LineRoutes, Gap <- 2, MaxDelay <- 1, Window <- 2, Grace <- 1, FreshFor <- 2,
  KeepFor <- 3, Horizon <- 5

FeedsInit ==
  /\ part \in {"rail", "polled", "tracked", "cache", "tfl"}
  /\ Init /\ Alerts!Init /\ CacheInit /\ Tfl!Init
  /\ part \notin {"polled", "tracked"} => alertCache = {}
  /\ part # "cache" => now = 0
  /\ part # "tfl" => busDelay = 0

RailStep == part = "rail" /\ Next /\ UNCHANGED <<part, alertVars, cacheVars, busVars>>

AlertStep ==
  /\ \/ part = "polled" /\ (Alerts!Polling \/ Alerts!Delivery)
     \/ part = "tracked" /\ (Alerts!Tracking \/ Alerts!Delivery) /\ alertChanges' <= TrackedChanges
  /\ UNCHANGED <<part, vars, cacheVars, busVars>>

CacheStep == part = "cache" /\ CacheNext /\ UNCHANGED <<part, vars, alertVars, busVars>>

TflStep == part = "tfl" /\ Tfl!Next /\ UNCHANGED <<part, vars, alertVars, cacheVars>>

FeedsNext == RailStep \/ AlertStep \/ CacheStep \/ TflStep

ASSUME FeedsPartsAssumption == Alerts!AlertAssumption /\ Tfl!TflAssumption

feedsVars == <<part, vars, alertVars, cacheVars, busVars>>

FeedsSpec == FeedsInit /\ [][FeedsNext]_feedsVars /\ Alerts!Fairness

-----------------------------------------------------------------------------
\* Followers are told in the end (AlertPipeline!FollowersTold).
FollowersTold == Alerts!FollowersTold

\* A poll that finds what the last one found announces nothing (AlertPipeline!NoEcho).
NoEcho == Alerts!NoEcho

\* The journey of a TfL vehicle keeps the calls it made, in order before those it is expected at,
\* and the next stop is ahead of it (TflArrivals!MadeCallsStay, StoryInOrder, NextIsAhead).
ArrivalsTellTheStory ==
  part = "tfl" => Tfl!MadeCallsStay /\ Tfl!StoryInOrder /\ Tfl!NextIsAhead

\* Boards show the vehicle at exactly the stops it is expected at, at the time of its earliest
\* call, while the poll is recent (TflArrivals!BoardShowsEstimates).
BoardShowsEstimates == part = "tfl" => Tfl!BoardShowsEstimates
=============================================================================
