------------------------------ MODULE GtfsCases ------------------------------
(* GtfsImport with feeds of up to four trips over two shapes; trip 4 has no route that is kept. *)
EXTENDS Integers, Sequences, SequencesExt

CONSTANTS None, Invalid

Row(trip, seq, stop, time) == [trip |-> trip, seq |-> seq, stop |-> stop, time |-> time]
Rows(first) ==
  {<<Row(1, 1, "a", 0), Row(1, 2, "b", time), Row(1, 5, "c", 4),
     Row(2, 1, "a", 3), Row(2, 2, "c", 5),
     Row(3, 1, first, 6), Row(3, 2, "b", 7), Row(3, 4, "c", 9), Row(4, 1, "a", 1), Row(4, 2, "b", 2)>> :
   time \in {None, 1, 5, Invalid}}

\* The table backwards, and with the trips interleaved.
Orders(rows) ==
  {Reverse(rows), [i \in DOMAIN rows |-> rows[((i * 3) % 10) + 1]]}

GtfsFeeds ==
  {[routes |-> <<[id |-> "r", operator |-> "x"], [id |-> "s", operator |-> "y"]>>,
    trips |-> <<[id |-> 1, route |-> "r", service |-> "all", shape |-> "s1"],
                [id |-> 2, route |-> "r", service |-> "some", shape |-> "s1"],
                [id |-> 3, route |-> "r", service |-> "some", shape |-> shape],
                [id |-> 4, route |-> "s", service |-> "all", shape |-> None]>>,
    rows |-> rows,
    shapes |-> [s1 |-> <<"a", "p", "b", "c">>, s2 |-> <<"a", "b", "q", "c">>],
    calendars |-> [all |-> [range |-> 0..3, week |-> 0..6, added |-> {}, removed |-> {}],
                   some |-> [range |-> 0..3, week |-> {1, 2}, added |-> {3}, removed |-> {2}]],
    frequencies |-> frequencies,
    ignored |-> {"y"}] :
      shape \in {"s1", "s2", None}, rows \in UNION {Orders(c) : c \in Rows("a") \cup Rows("d")},
      frequencies \in {<<>>, [t \in {2} |-> <<[start |-> 6, end |-> 9, headway |-> 2], [start |-> 2, end |-> 6, headway |-> 3],
                                              [start |-> 4, end |-> 7, headway |-> 1]>>]}}
=============================================================================
