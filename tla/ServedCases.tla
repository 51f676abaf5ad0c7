---------------------------- MODULE ServedCases -----------------------------
(* What MCServed is checked with: files of two datasets, and small networks. *)
EXTENDS Naturals, Sequences, FiniteSets, TLC

CONSTANTS None

-----------------------------------------------------------------------------
(* Two datasets.  A chain of four identifiers joins the stops p1, p2, p4, p5 of "a"  *)
(* and q of "b": the station p2 lists the platform p1, and m is a manual merge of p5    *)
(* with what has a stanox; the second file of "a" drops p2, which breaks the chain,     *)
(* and its journey.  The stop s stays as it is, near r of "b".                         *)
TwoDatasets == {"a", "b"}
ManualIds   == {"m"}

Stop(k, ids, born) == [kind |-> "stop", key |-> k, ids |-> ids, born |-> born]
Trip(k)            == [kind |-> "journey", key |-> k, ids |-> {}, born |-> 0]

Kept == {Stop("p1", {"p1"}, 3), Stop("p4", {"stanox"}, 2), Stop("p5", {"p5"}, 5), Stop("s", {}, 6),
         Stop("m", {"stanox", "p5"}, 0)}

TwoFiles ==
  [d \in TwoDatasets |->
     IF d = "a" THEN <<Kept \cup {Stop("p2", {"p1", "tiploc"}, 1), Trip("j1")}, Kept>>
     ELSE <<{Stop("q", {"tiploc", "stanox"}, 4), Stop("r", {}, 7), Trip("j2")}>>]

NearPairs == {<<"p1", "r">>, <<"p2", "r">>, <<"q", "r">>, <<"s", "r">>}

-----------------------------------------------------------------------------
(* Four stops.  Service x runs a-b-c twice a day, the second time after the first;   *)
(* service y from b or c to d; transfers are up to two of five, one of them          *)
(* restricted to x, one forbidden.  Requests go from a, or from places near a and b.  *)
FourStops == {"a", "b", "c", "d"}

Call(s, t)        == [stop |-> s, at |-> t, board |-> TRUE, alight |-> TRUE]
Transfer(f, t, k, n, i, o) == [from |-> f, to |-> t, kind |-> k, time |-> n, ifFrom |-> i, ifTo |-> o]

Line(t)  == [service |-> "x", days |-> {0}, calls |-> <<Call("a", t), Call("b", t + 1), Call("c", t + 3)>>]
Feeder(s, t) == [service |-> "y", days |-> {0, 1}, calls |-> <<Call(s, t), Call("d", t + 1)>>]

SomeTransfers ==
  {Transfer("c", "d", "walk", 2, None, None), Transfer("b", "c", "alias", 1, None, None),
   Transfer("b", "c", "walk", 1, "x", "y"), Transfer("c", "d", "forbidden", 0, None, None),
   Transfer("d", "b", "walk", 1, None, None)}

SmallNetworks ==
  {[journeys |-> <<Line(1), Line(t), Feeder(s, u)>>, transfers |-> ts] :
     t \in {2, 4}, s \in {"b", "c"}, u \in {2, 4}, ts \in {x \in SUBSET SomeTransfers : Cardinality(x) <= 2}}

Ask(from, to, start, count, legs, without) ==
  [from |-> from, to |-> to, start |-> start, until |-> start + 9, count |-> count,
   maxLegs |-> legs, excluded |-> without]

SomeRequests ==
  {Ask("a" :> 0, "d" :> 0, 0, 3, 2, {}), Ask("a" :> 0, "d" :> 0, 2, 1, 2, {}),
   Ask("a" :> 0, "c" :> 1 @@ "d" :> 2, 0, 3, 2, {1}), Ask("a" :> 1 @@ "b" :> 2, "d" :> 0, 0, 4, 3, {})}
=============================================================================
