------------------------------ MODULE BoardCases ------------------------------
(* StopBoards with two trips: one that may run past midnight, call twice, run on some days only *)
(* and have a realtime record; and one every day that the same vehicle may go on to.             *)
EXTENDS Integers, Sequences

CONSTANTS None

EveryDay == [match |-> {<<"all">>}, secondary |-> {}, condition |-> {}, exclude |-> {}]
NotToday == [EveryDay EXCEPT !.exclude = {<<"date", 0>>}]
FromToday == [match |-> {<<"range", 0, 9>>}, secondary |-> {<<"weekday", 0>>, <<"weekday", 1>>},
              condition |-> {<<"range", -9, 9>>}, exclude |-> {}]

Call(time, toward) == [time |-> time, toward |-> toward, boards |-> TRUE]
TripCalls(time) ==
  {<<Call(time, "east")>>, <<Call(time, "east"), Call(time + 2, "west")>>,
   <<[Call(time, "east") EXCEPT !.boards = FALSE], Call(time + 1, "west")>>}

Trip(calls, availability, block) == [calls |-> calls, availability |-> availability, block |-> block]
LocalTimetables ==
  {<<Trip(calls, availability, "bus"), Trip(<<Call(time, "east")>>, EveryDay, block)>> :
     calls \in UNION {TripCalls(t) : t \in {0, 1, 4, 7}}, availability \in {EveryDay, NotToday, FromToday},
     time \in {2, 5}, block \in {"bus", None}}
LoopTimetables ==
  {<<Trip(calls, EveryDay, None)>> : calls \in UNION {TripCalls(t) : t \in {1, 4}}}

Records ==
  {None} \cup
  {[day |-> d, delay |-> delay, clock |-> clock, cancelled |-> cancelled] :
     d \in {-1, 0}, delay \in {0, 2}, clock \in BOOLEAN, cancelled \in {FALSE}}
  \cup {[day |-> 0, delay |-> 0, clock |-> FALSE, cancelled |-> TRUE]}
LocalReports == {<<record, None>> : record \in Records}

OneForecast ==
  {{[trip |-> 9, day |-> 0, call |-> 1, time |-> time, toward |-> toward]} :
     time \in {3, 8}, toward \in {"east", "west"}}

LocalQueries ==
  [start : {0, 1, 3, 5}, count : {1, 3}, tfl : {FALSE}, graph : BOOLEAN]
TflQueries == [start : {0, 3}, count : {3}, tfl : {TRUE}, graph : {FALSE}]
=============================================================================
