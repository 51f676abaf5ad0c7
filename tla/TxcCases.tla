------------------------------- MODULE TxcCases -------------------------------
(* TransXChangeImport with bundles of two documents that share a service and some of its journeys. *)
EXTENDS Integers, Sequences

CONSTANTS None

Timing(id, link, run, wait, from, to) ==
  [id |-> id, link |-> link, run |-> run, wait |-> wait, activity |-> None, from |-> from, to |-> to]
Own(ref, run, wait) == [ref |-> ref, run |-> run, wait |-> wait, activity |-> "pickUp"]
Week == <<[kind |-> "days", on |-> {1, 2, 3, 4}]>>
Special == <<[kind |-> "days", on |-> {1, 2}], [kind |-> "special", on |-> {{4, 5}}, off |-> {{2}}],
             [kind |-> "holiday", on |-> {}, off |-> {5}]>>
School(on, off) == <<[kind |-> "days", on |-> {1, 2, 3, 4, 5}], [kind |-> "organisation", on |-> on, off |-> off]>>
Periodic == <<[kind |-> "days", on |-> {3}], [kind |-> "periodic"]>>

Service(code, end, profile, modified) ==
  [code |-> code, operator |-> "O1", start |-> 2, end |-> end, profile |-> profile, modified |-> modified]
Journey(code, pattern, departure, frequency, links, profile, modified) ==
  [code |-> code, copy |-> 0, service |-> "S", operator |-> None, pattern |-> pattern, departure |-> departure,
   frequency |-> frequency, links |-> links, profile |-> profile, modified |-> modified]

Doc(service, pattern, filed) ==
  [operators |-> [O |-> "noc"], services |-> <<service>>,
   patterns |-> [P |-> [section |-> "JS", route |-> "R", profile |-> pattern],
                 Q |-> [section |-> "none", route |-> "R", profile |-> None]],
   sections |-> [JS |-> <<Timing("t1", "l1", 2, 1, "a", "b"), Timing("t2", "lost", 5, None, "b", "b"),
                          Timing("t3", "l2", 3, None, "b", "c")>>],
   routes |-> [R |-> {"RS1", "RS2"}],
   links |-> <<[section |-> "RS1", id |-> "l1", shape |-> "ab"], [section |-> "RS2", id |-> "l2", shape |-> None]>>,
   organisations |-> [open |-> {{1, 2}, {5}}, closed |-> {}],
   journeys |-> filed]

First(end, profile) ==
  Doc(Service("S", end, Special, 1), None,
      <<Journey("j1", "P", 8, None, <<Own("t3", 4, 1)>>, profile, 1),
        Journey("j2", "P", 9, [until |-> 13, every |-> 2], <<>>, None, 2),
        Journey("j3", "Q", 9, None, <<>>, None, 1)>>)
Second(pattern, modified) ==
  Doc(Service("S", 5, Week, 2), pattern,
      <<Journey("j1", "P", 7, None, <<>>, None, modified), Journey("j4", "P", 6, None, <<Own("t1", None, 2)>>, Periodic, 1)>>)

TxcBundles ==
  {<<First(end, profile), Second(pattern, modified)>> :
     end \in {None, 3, 4}, profile \in {None, Periodic, School("open", None), School("closed", "open"), School("other", "closed")},
     pattern \in {None, Special}, modified \in {0, 1, 2}}

Left(code, modified) ==
  [id |-> <<"noc", "S", code, 0, "P">>, stamp |-> 0, modified |-> modified, service |-> <<"noc", "S">>, days |-> {}, path |-> <<>>]
TxcLeftovers == {Left("j1", 3), Left("j5", 1)}
=============================================================================
