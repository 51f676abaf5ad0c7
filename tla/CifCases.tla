------------------------------- MODULE CifCases -------------------------------
(* CifTimetable with two trains; the first has a permanent schedule, one it may change to, and up to *)
(* two short-term ones on the same days of the week.                                                  *)
EXTENDS Integers, Sequences

CONSTANTS None

TiplocStops == [A |-> "a", B |-> "b", C |-> "c", XLONG |-> None, YSHORT |-> None]
StationStops == [A |-> None, B |-> None, C |-> None, XLONG |-> "x", YSHORT |-> "y"]

Line(kind, tiploc) == [kind |-> kind, tiploc |-> tiploc, public |-> TRUE]
Pass(tiploc) == [kind |-> "LI", tiploc |-> tiploc, public |-> FALSE]
Schedule(uid, stp, from, to) ==
  [kind |-> "BS", uid |-> uid, stp |-> stp, from |-> from, to |-> to, days |-> {1, 2, 4}, passenger |-> TRUE]
Operator(atoc) == [kind |-> "BX", atoc |-> atoc]

Locations ==
  {<<Line("LO", "A"), Line("LI", "B"), Line("LT", "C")>>,
   <<Line("LO", "A"), Pass("C"), Line("LI", "B"), Line("LI", "A"), Line("LT", "B")>>,
   <<Line("LO", "A"), Line("LI", "YSHORT"), Line("LI", "B"), Pass("C"), Line("LT", "XLONG")>>}

Permanent == {<<Schedule("u", "P", 0, 3), Operator("XC")>> \o l : l \in Locations}
Changed == {<<>>} \cup {<<Schedule("u", "N", 4, 5), Operator("XC")>> \o l : l \in Locations}
ShortTerm ==
  {<<>>} \cup {<<Schedule("u", "C", r[1], r[2])>> : r \in {<<1, 1>>, <<1, 4>>}}
  \cup {<<Schedule("u", "O", r[1], r[2]), Operator(op)>> \o <<Line("LO", "A"), Pass("C"), Line("LT", "B")>> :
          r \in {<<2, 2>>, <<1, 4>>}, op \in {"XC", "ZZ"}}
Other == <<Schedule("w", "P", 1, 2), Operator("XC"), Line("LO", "A"), Line("LT", "B")>>

TimetableFiles ==
  {Other \o p \o c \o s \o t \o <<[kind |-> "ZZ"]>> : p \in Permanent, c \in Changed, s \in ShortTerm, t \in ShortTerm}

Old(from, to, passing, track) == [from |-> from, to |-> to, passing |-> passing, track |-> track]
Before ==
  {[id \in {} |-> <<>>], [id \in {<<"u", 0, "P">>} |-> <<Old("a", "b", <<>>, "t1")>>],
   [id \in {<<"u", 0, "P">>} |->
      <<Old("a", "b", <<>>, "t1"), Old("a", "b", <<"C">>, "t2"), Old("b", "a", <<>>, None), Old("b", "c", <<>>, "t3")>>]}
=============================================================================
