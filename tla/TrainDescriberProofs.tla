------------------------- MODULE TrainDescriberProofs -------------------------
(***************************************************************************)
(* Proofs about TrainDescriber, for any journeys, trains, berths, mappings,   *)
(* goroutines and windows.                                                    *)
(***************************************************************************)
EXTENDS TrainDescriber, FiniteSetTheorems, TLAPS

-----------------------------------------------------------------------------
(* Operators. *)

\* The later of two times, as the tracker keeps it of cancellations.
LEMMA MaxOfTwo ==
  ASSUME NEW a \in Nat, NEW b \in Nat
  PROVE  Max({a, b}) = IF a >= b THEN a ELSE b
<1>. DEFINE m == IF a >= b THEN a ELSE b
<1>1. m \in {a, b} /\ \A y \in {a, b} : m >= y
  OBVIOUS
<1>2. ASSUME NEW x \in {a, b}, \A y \in {a, b} : x >= y
      PROVE  x = m
  BY <1>2
<1>. QED  BY <1>1, <1>2 DEF Max

\* A leg of the path that is not the code's -1 has a number of its own.
LEMMA LegOfPath ==
  ASSUME NEW j \in Journeys, NEW l \in LegOf(j), l # 0
  PROVE  l \in DOMAIN Path[j] /\ Path[j][l] \in Legs
<1>1. Path[j] \in Seq(Legs)
  BY DescriberAssumption
<1>2. l \in 1..Len(Path[j])
  BY <1>1 DEF LegOf
<1>. QED  BY <1>1, <1>2

\* A mapped step is between two berths, and its point is a progress or none.
LEMMA StepPointType ==
  ASSUME NEW e \in Event, {e.from, e.to} \subseteq Berths, NEW leg \in Legs
  PROVE  StepPoint(e, leg) \in Nat \cup {None}
<1>1. /\ Transition[e.from, e.to] \in [Legs -> Nat \cup {None}]
      /\ Smart[e.from, e.to] \in [Legs -> Nat \cup {None}]
      /\ BerthPoint[e.to] \in [Legs -> Nat \cup {None}]
  BY DescriberAssumption DEF StepMapping
<1>. QED  BY <1>1 DEF StepPoint

\* What a TD message says.
LEMMA StepsAreEvents ==
  ASSUME NEW e \in Steps
  PROVE  e \in Event /\ (e.kind = "CA" => {e.from, e.to} \subseteq Berths)
BY DescriberAssumption DEF Steps, Event, Latest, Times

-----------------------------------------------------------------------------
(* Types. *)

\* What a message changes of an anchor: the leg is lost, the berth too, or the run has
\* moved on.
LEMMA AnchorUpdates ==
  ASSUME NEW a \in Anchor, NEW at \in Nat, NEW progress \in Nat, NEW leg \in Nat,
         NEW berth \in Berths \cup {None}
  PROVE  /\ [a EXCEPT !.trustAt = at] \in Anchor
         /\ [a EXCEPT !.trustAt = at, !.leg = 0] \in Anchor
         /\ [a EXCEPT !.berth = None, !.leg = 0, !.tdAt = at] \in Anchor
         /\ [a EXCEPT !.tdAt = at, !.progress = progress, !.berth = berth, !.leg = leg] \in Anchor
BY DEF Anchor

\* A new anchor, one that a cancellation stopped and one that a TD message broke are
\* anchors, whose leg is one of the path.
LEMMA AnchorTypes ==
  ASSUME TypeOK, NEW j \in Journeys
  PROVE  /\ \A t \in Trains, at \in Nat, leg \in Nat : NewAnchor(t, at, leg) \in Anchor
         /\ Forgotten[j] \in Anchor \cup {None}
         /\ Forgotten[j] # None => Forgotten[j] = anchors[j]
         /\ \A t \in Trains, at \in Nat :
              /\ Stopped(anchors[j], t, at) \in Anchor \cup {None}
              /\ Stopped(anchors[j], t, at) # None =>
                   /\ anchors[j] # None
                   /\ Stopped(anchors[j], t, at).leg \in {0, anchors[j].leg}
         /\ \A e \in Event :
              /\ Cleared(e)[j] \in Anchor \cup {None}
              /\ Cleared(e)[j] # None =>
                   /\ anchors[j] # None
                   /\ Cleared(e)[j].leg # 0 => Cleared(e)[j] = anchors[j]
<1>1. anchors[j] \in Anchor \cup {None}
  BY DEF TypeOK
<1>2. \A t \in Trains, at \in Nat, leg \in Nat : NewAnchor(t, at, leg) \in Anchor
  BY DEF NewAnchor, Anchor
<1>3. Forgotten[j] \in Anchor \cup {None} /\ (Forgotten[j] # None => Forgotten[j] = anchors[j])
  BY <1>1 DEF Forgotten
<1>4. ASSUME NEW t \in Trains, NEW at \in Nat
      PROVE  /\ Stopped(anchors[j], t, at) \in Anchor \cup {None}
             /\ Stopped(anchors[j], t, at) # None =>
                  /\ anchors[j] # None
                  /\ Stopped(anchors[j], t, at).leg \in {0, anchors[j].leg}
  <2>1. CASE anchors[j] # None
    <3>1. anchors[j] \in Anchor /\ anchors[j].trustAt \in Nat
      BY <1>1, <2>1 DEF Anchor
    <3>2. Max({anchors[j].trustAt, at}) \in Nat
      BY <3>1, MaxOfTwo
    <3>. QED  BY <2>1, <3>1, <3>2 DEF Stopped, Anchor
  <2>2. CASE anchors[j] = None
    BY <2>2 DEF Stopped
  <2>. QED  BY <2>1, <2>2
<1>5. ASSUME NEW e \in Event
      PROVE  /\ Cleared(e)[j] \in Anchor \cup {None}
             /\ Cleared(e)[j] # None =>
                  /\ anchors[j] # None
                  /\ Cleared(e)[j].leg # 0 => Cleared(e)[j] = anchors[j]
  <2>1. e.at \in Nat
    BY DEF Event, Times
  <2>2. CASE Broken(anchors[j], e)
    <3>1. anchors[j] # None /\ anchors[j] \in Anchor
      BY <1>1, <2>2 DEF Broken
    <3>2. Cleared(e)[j] = [anchors[j] EXCEPT !.berth = None, !.leg = 0, !.tdAt = e.at]
      BY <2>2 DEF Cleared
    <3>3. Cleared(e)[j] \in Anchor
      BY <2>1, <3>1, <3>2, AnchorUpdates
    <3>4. Cleared(e)[j].leg = 0
      BY <3>1, <3>2 DEF Anchor
    <3>. QED  BY <3>1, <3>3, <3>4
  <2>3. CASE ~Broken(anchors[j], e)
    BY <1>1, <2>3 DEF Cleared
  <2>. QED  BY <2>2, <2>3
<1>. QED  BY <1>2, <1>3, <1>4, <1>5

\* A run that is selected has an anchor on a leg, and a mapped message a point on it.
LEMMA SelectedRun ==
  ASSUME TypeOK, NEW e \in Steps, NEW j \in Journeys, Matches(j, e)
  PROVE  /\ anchors[j] # None /\ anchors[j].leg # 0
         /\ Cleared(e)[j] = anchors[j] /\ Fresh(anchors[j])
         /\ e.at > anchors[j].trustAt /\ e.at > anchors[j].tdAt
         /\ IsMapped(e) => Advances(j, anchors[j], e)
<1>1. e \in Event
  BY StepsAreEvents
<1>2. Cleared(e)[j] # None /\ Cleared(e)[j].leg # 0
  BY DEF Matches
<1>3. Cleared(e)[j] = anchors[j] /\ anchors[j] # None
  BY <1>1, <1>2, AnchorTypes
<1>. QED  BY <1>2, <1>3 DEF Matches
-----------------------------------------------------------------------------
(* Types are kept. *)

\* The state that the program starts in.
LEMMA TypeInit == Init => TypeOK
<1>. SUFFICES ASSUME Init PROVE TypeOK
  OBVIOUS
<1>1. run \in [Journeys -> RunRecord \cup {None}]
  <2>1. PICK started \in SUBSET {j \in Journeys : TrainsOf[j] # {}} :
          run = [j \in Journeys |-> IF j \in started
                                    THEN Activated(CHOOSE t \in TrainsOf[j] : TRUE) ELSE None]
    BY DEF Init
  <2>2. ASSUME NEW j \in started
        PROVE  Activated(CHOOSE t \in TrainsOf[j] : TRUE) \in RunRecord
    <3>1. (CHOOSE t \in TrainsOf[j] : TRUE) \in TrainsOf[j] /\ TrainsOf[j] \subseteq Trains
      BY DescriberAssumption
    <3>. QED  BY <3>1 DEF Activated, RunRecord
  <2>. QED  BY <2>1, <2>2
<1>. QED  BY <1>1 DEF Init, TypeOK

\* The tracker is as it was: the part of the types that is about it.
LEMMA TrackerTypes ==
  ASSUME TypeOK, UNCHANGED <<tracker, position, history>>,
         now' \in Nat, run' \in [Journeys -> RunRecord \cup {None}],
         mover' \in [Movers -> Movement \cup Sighting \cup {None}],
         \A m \in Movers : mover'[m] # None /\ mover'[m].step # "record"
                             => mover'[m].leg \in LegOf(mover'[m].journey)
  PROVE  TypeOK'
BY DEF TypeOK, tracker, history, IsMapped, StepPoint, OnSomeLeg, LegOf

\* What happens to the runs in Redis.
LEMMA RunTypes ==
  ASSUME TypeOK, NEW j \in Journeys,
         \/ Reinstate(j) \/ CancelRun(j) \/ RunExpires(j)
         \/ \E t \in Trains : Activate(j, t)
  PROVE  TypeOK'
<1>1. run \in [Journeys -> RunRecord \cup {None}]
  BY DEF TypeOK
<1>2. ASSUME run[j] # None
      PROVE  /\ [run[j] EXCEPT !.tracked = TRUE, !.cancelled = FALSE] \in RunRecord
             /\ [run[j] EXCEPT !.cancelled = TRUE] \in RunRecord
             /\ \A t \in Trains : [run[j] EXCEPT !.train = t] \in RunRecord
  BY <1>1, <1>2 DEF RunRecord
<1>3. run' \in [Journeys -> RunRecord \cup {None}]
  <2>1. CASE Reinstate(j)
    BY <1>1, <1>2, <2>1 DEF Reinstate
  <2>2. CASE CancelRun(j)
    BY <1>1, <1>2, <2>2 DEF CancelRun
  <2>3. CASE RunExpires(j)
    BY <1>1, <2>3 DEF RunExpires
  <2>4. ASSUME NEW t \in Trains, Activate(j, t)
        PROVE  run' \in [Journeys -> RunRecord \cup {None}]
    <3>1. Activated(t) \in RunRecord
      BY DEF Activated, RunRecord
    <3>. QED  BY <1>1, <1>2, <2>4, <3>1 DEF Activate
  <2>. QED  BY <2>1, <2>2, <2>3, <2>4
<1>4. UNCHANGED <<now, mover, tracker, position, history>>
  BY DEF Reinstate, CancelRun, RunExpires, Activate
<1>5. now' \in Nat /\ mover' \in [Movers -> Movement \cup Sighting \cup {None}]
      /\ \A m \in Movers : mover'[m] # None /\ mover'[m].step # "record"
                             => mover'[m].leg \in LegOf(mover'[m].journey)
  BY <1>4 DEF TypeOK, LegOf
<1>. QED  BY <1>3, <1>4, <1>5, TrackerTypes

\* A movement that finds its run, with or without a known stop, and its save.
LEMMA MovementTypes ==
  ASSUME TypeOK, NEW m \in Movers, FindRun(m) \/ FindRunUnlocated(m) \/ SaveRun(m)
  PROVE  TypeOK'
<1>1. /\ run \in [Journeys -> RunRecord \cup {None}]
      /\ mover \in [Movers -> Movement \cup Sighting \cup {None}]
      /\ \A n \in Movers : mover[n] # None /\ mover[n].step # "record"
                             => mover[n].leg \in LegOf(mover[n].journey)
  BY DEF TypeOK
<1>2. UNCHANGED <<now, tracker, position, history>> /\ now' \in Nat
  BY DEF FindRun, FindRunUnlocated, SaveRun, TypeOK
<1>3. ASSUME NEW j \in Journeys
      PROVE  DOMAIN Path[j] \subseteq Nat /\ DOMAIN Path[j] \subseteq LegOf(j) /\ 0 \in LegOf(j)
  <2>1. Path[j] \in Seq(Legs)
    BY DescriberAssumption
  <2>. QED  BY <2>1 DEF LegOf
<1>4. CASE FindRun(m)
  <2>1. PICK j \in Journeys, kind \in {"departure", "arrival", "passing", "other"}, at \in Latest,
             point \in {"none", "corrected", "valid"}, ends \in BOOLEAN :
          /\ run[j] # None
          /\ kind = "departure" => ~ends
          /\ \E leg \in DOMAIN Path[j] :
               mover' = [mover EXCEPT ![m] = Found(j, kind, at, point, ends, leg)]
    BY <1>4 DEF FindRun
  <2>0. PICK leg \in DOMAIN Path[j] :
          mover' = [mover EXCEPT ![m] = Found(j, kind, at, point, ends, leg)]
    BY <2>1
  <2>2. Reported(j, kind, leg, ends) \in RunRecord
    <3>1. run[j] \in RunRecord /\ leg \in Nat
      BY <1>1, <1>3, <2>1
    <3>. QED  BY <3>1 DEF Reported, RunRecord
  <2>3. mover'[m] \in Movement /\ mover'[m].leg \in LegOf(mover'[m].journey)
    BY <1>1, <1>3, <2>0, <2>2 DEF Found, Movement, Latest
  <2>4. /\ mover' \in [Movers -> Movement \cup Sighting \cup {None}]
        /\ \A n \in Movers : mover'[n] # None /\ mover'[n].step # "record"
                               => mover'[n].leg \in LegOf(mover'[n].journey)
    BY <1>1, <2>0, <2>3
  <2>5. run' = run
    BY <1>4 DEF FindRun
  <2>. QED  BY <1>1, <1>2, <2>4, <2>5, TrackerTypes
<1>5. CASE FindRunUnlocated(m)
  <2>1. PICK j \in Journeys, at \in Latest, ends \in BOOLEAN :
          /\ run[j] # None
          /\ mover' = [mover EXCEPT ![m] =
               [journey |-> j, at |-> at, located |-> FALSE, leg |-> 0, passing |-> 0,
                copy |-> [run[j] EXCEPT !.tracked = ~ends], step |-> "trust"]]
    BY <1>5 DEF FindRunUnlocated
  <2>2. [run[j] EXCEPT !.tracked = ~ends] \in RunRecord
    BY <1>1, <2>1 DEF RunRecord
  <2>3. mover'[m] \in Movement /\ mover'[m].leg \in LegOf(mover'[m].journey)
    BY <1>1, <1>3, <2>1, <2>2 DEF Movement, Latest
  <2>4. /\ mover' \in [Movers -> Movement \cup Sighting \cup {None}]
        /\ \A n \in Movers : mover'[n] # None /\ mover'[n].step # "record"
                               => mover'[n].leg \in LegOf(mover'[n].journey)
    BY <1>1, <2>1, <2>3
  <2>5. run' = run
    BY <1>5 DEF FindRunUnlocated
  <2>. QED  BY <1>1, <1>2, <2>4, <2>5, TrackerTypes
<1>6. CASE SaveRun(m)
  <2>1. mover[m] \in Movement /\ mover[m].step = "save" /\ mover[m].leg \in LegOf(mover[m].journey)
    BY <1>1, <1>6 DEF SaveRun, Movement, Sighting
  <2>2. run' \in [Journeys -> RunRecord \cup {None}]
    BY <1>1, <1>6, <2>1 DEF SaveRun, Movement
  <2>3. [mover[m] EXCEPT !.step = "trust"] \in Movement
    BY <2>1 DEF Movement
  <2>4. mover' = [mover EXCEPT ![m].step = "trust"] \/ mover' = [mover EXCEPT ![m] = None]
    BY <1>6 DEF SaveRun
  <2>5. /\ mover' \in [Movers -> Movement \cup Sighting \cup {None}]
        /\ \A n \in Movers : mover'[n] # None /\ mover'[n].step # "record"
                               => mover'[n].leg \in LegOf(mover'[n].journey)
    <3>1. CASE mover' = [mover EXCEPT ![m].step = "trust"]
      <4>1. mover'[m] \in Movement /\ mover'[m].leg \in LegOf(mover'[m].journey)
        BY <1>1, <2>1, <2>3, <3>1 DEF Movement
      <4>2. \A n \in Movers \ {m} : mover'[n] = mover[n]
        BY <1>1, <3>1
      <4>3. mover' \in [Movers -> Movement \cup Sighting \cup {None}]
        BY <1>1, <2>3, <3>1
      <4>. QED  BY <1>1, <4>1, <4>2, <4>3
    <3>2. CASE mover' = [mover EXCEPT ![m] = None]
      BY <1>1, <3>2
    <3>. QED  BY <2>4, <3>1, <3>2
  <2>. QED  BY <1>2, <2>2, <2>5, TrackerTypes
<1>. QED  BY <1>4, <1>5, <1>6

\* What the tracker makes of a report: nothing, a newer report of the same leg, or a new
\* anchor.
LEMMA TrustEffect ==
  ASSUME TypeOK, NEW m \in Movers, Trust(m)
  PROVE  /\ mover[m] \in Movement /\ mover[m].leg \in LegOf(mover[m].journey)
         /\ \A j \in Journeys \ {mover[m].journey} : anchors'[j] = Forgotten[j]
         /\ \/ /\ anchors'[mover[m].journey] = Forgotten[mover[m].journey]
               /\ newest' = newest
            \/ /\ Forgotten[mover[m].journey] # None
               /\ anchors'[mover[m].journey] = [Forgotten[mover[m].journey] EXCEPT !.trustAt = mover[m].at]
               /\ mover[m].at > Forgotten[mover[m].journey].trustAt
               /\ newest' = newest
            \/ /\ \E leg \in {0, mover[m].leg} : anchors'[mover[m].journey]
                    = NewAnchor(mover[m].copy.train, mover[m].at, leg)
               /\ mover[m].at > Remembered[mover[m].copy.train]
               /\ \/ Forgotten[mover[m].journey] = None
                  \/ mover[m].at > Forgotten[mover[m].journey].trustAt
               /\ newest' = [newest EXCEPT ![mover[m].journey] = Max({@, mover[m].at})]
         /\ anchors' \in [Journeys -> {anchors'[j] : j \in Journeys}]
<1>. DEFINE e == mover[m]
            old == Forgotten[e.journey]
            leg == IF e.copy.tracked /\ ~e.copy.cancelled THEN e.leg ELSE 0
            continued == old # None /\ Continues(e, old)
<1>1. e \in Movement /\ e.leg \in LegOf(e.journey)
  BY DEF TypeOK, Trust, Movement, Sighting
<1>2. e.journey \in Journeys /\ Forgotten \in [Journeys -> {Forgotten[j] : j \in Journeys}]
  BY <1>1 DEF Movement, Forgotten
<1>3. /\ anchors' = [Forgotten EXCEPT ![e.journey] =
           IF ~Accepts(e, old) THEN old
           ELSE IF continued THEN [old EXCEPT !.trustAt = e.at]
           ELSE NewAnchor(e.copy.train, e.at, leg)]
      /\ newest' = [newest EXCEPT ![e.journey] =
           IF Accepts(e, old) /\ ~continued THEN Max({@, e.at}) ELSE @]
  BY DEF Trust
<1>4. newest \in [Journeys -> Nat]
  BY DEF TypeOK
<1>5. \A j \in Journeys \ {e.journey} : anchors'[j] = Forgotten[j]
  BY <1>2, <1>3
<1>6. anchors' \in [Journeys -> {anchors'[j] : j \in Journeys}]
  BY <1>2, <1>3
<1>7. CASE ~Accepts(e, old)
  <2>1. anchors'[e.journey] = old /\ newest' = newest
    BY <1>2, <1>3, <1>4, <1>7
  <2>. QED  BY <1>1, <1>5, <1>6, <2>1
<1>8. CASE Accepts(e, old) /\ continued
  <2>1. anchors'[e.journey] = [old EXCEPT !.trustAt = e.at] /\ newest' = newest
    BY <1>2, <1>3, <1>4, <1>8
  <2>2. old # None /\ e.at > old.trustAt
    BY <1>8 DEF Accepts
  <2>. QED  BY <1>1, <1>5, <1>6, <2>1, <2>2
<1>9. CASE Accepts(e, old) /\ ~continued
  <2>1. anchors'[e.journey] = NewAnchor(e.copy.train, e.at, leg) /\ leg \in {0, e.leg}
    BY <1>2, <1>3, <1>9
  <2>2. newest' = [newest EXCEPT ![e.journey] = Max({@, e.at})]
    BY <1>3, <1>9
  <2>3. e.at > Remembered[e.copy.train] /\ (old = None \/ e.at > old.trustAt)
    BY <1>9 DEF Accepts
  <2>. QED  BY <1>1, <1>5, <1>6, <2>1, <2>2, <2>3
<1>. QED  BY <1>7, <1>8, <1>9

\* A report that reaches the tracker.
LEMMA TrustTypes ==
  ASSUME TypeOK, NEW m \in Movers, Trust(m)
  PROVE  TypeOK'
<1>. DEFINE e == mover[m]
<1>1. e \in Movement /\ e.leg \in LegOf(e.journey) /\ e.journey \in Journeys
      /\ e.at \in Nat /\ e.at \in Times /\ e.copy.train \in Trains /\ 0 \in LegOf(e.journey)
  <2>1. e \in Movement /\ e.leg \in LegOf(e.journey)
    BY TrustEffect
  <2>2. Path[e.journey] \in Seq(Legs)
    BY <2>1, DescriberAssumption DEF Movement
  <2>. QED  BY <2>1, <2>2 DEF Movement, RunRecord, Times, LegOf
<1>2. ASSUME NEW j \in Journeys
      PROVE  anchors'[j] \in Anchor \cup {None} /\ (anchors'[j] # None => anchors'[j].leg \in LegOf(j))
  <2>1. Forgotten[j] \in Anchor \cup {None} /\ (Forgotten[j] # None => Forgotten[j].leg \in LegOf(j))
    <3>1. anchors[j] # None => anchors[j].leg \in LegOf(j)
      BY DEF TypeOK
    <3>. QED  BY <3>1, AnchorTypes
  <2>2. CASE anchors'[j] = Forgotten[j]
    BY <2>1, <2>2
  <2>3. CASE j = e.journey /\ Forgotten[j] # None /\ anchors'[j] = [Forgotten[j] EXCEPT !.trustAt = e.at]
    <3>1. Forgotten[j] \in Anchor
      BY <2>1, <2>3
    <3>2. anchors'[j] \in Anchor
      BY <1>1, <2>3, <3>1, AnchorUpdates
    <3>3. anchors'[j].leg = Forgotten[j].leg
      BY <2>3, <3>1 DEF Anchor
    <3>. QED  BY <2>1, <2>3, <3>2, <3>3
  <2>4. CASE j = e.journey /\ \E leg \in {0, e.leg} : anchors'[j] = NewAnchor(e.copy.train, e.at, leg)
    <3>1. PICK leg \in {0, e.leg} : anchors'[j] = NewAnchor(e.copy.train, e.at, leg)
      BY <2>4
    <3>2. leg \in LegOf(j) /\ leg \in Nat
      BY <1>1, <2>4 DEF Movement
    <3>3. anchors'[j] \in Anchor
      BY <1>1, <3>1, <3>2, AnchorTypes
    <3>. QED  BY <3>1, <3>2, <3>3 DEF NewAnchor
  <2>. QED  BY <2>2, <2>3, <2>4, TrustEffect
<1>3. anchors' \in [Journeys -> Anchor \cup {None}]
  BY <1>2, TrustEffect
<1>4. newest' \in [Journeys -> Nat]
  <2>1. newest \in [Journeys -> Nat] /\ Max({newest[e.journey], e.at}) \in Nat
    BY <1>1, MaxOfTwo DEF TypeOK
  <2>. QED  BY <2>1, TrustEffect
<1>5. cancelled' \in [Trains -> Nat]
  BY DEF Trust, Remembered, TypeOK
<1>6. /\ mover' \in [Movers -> Movement \cup Sighting \cup {None}]
      /\ \A n \in Movers : mover'[n] # None /\ mover'[n].step # "record"
                             => mover'[n].leg \in LegOf(mover'[n].journey)
  <2>1. mover' = [mover EXCEPT ![m] = None]
        \/ mover' = [mover EXCEPT ![m] =
             [journey |-> e.journey, at |-> e.at, train |-> e.copy.train, step |-> "record"]]
    BY DEF Trust
  <2>2. [journey |-> e.journey, at |-> e.at, train |-> e.copy.train, step |-> "record"] \in Sighting
    BY <1>1 DEF Sighting
  <2>. QED  BY <2>1, <2>2 DEF TypeOK
<1>7. UNCHANGED <<now, run, reporting, position, ended, lastTD>> /\ reporting = None
  BY DEF Trust
<1>. QED  BY <1>2, <1>3, <1>4, <1>5, <1>6, <1>7 DEF TypeOK, LegOf

\* An observation that is recorded is a position.
LEMMA ObservedType ==
  ASSUME TypeOK, NEW j \in Journeys, NEW observation \in Position
  PROVE  /\ Observed(j, observation) \in [Journeys -> Position \cup {None}]
         /\ \A i \in Journeys \ {j} : Observed(j, observation)[i] = position[i]
         /\ Observed(j, observation)[j] \in {position[j], observation}
BY DEF TypeOK, Observed

\* A report whose position is recorded.
LEMMA RecordTypes ==
  ASSUME TypeOK, NEW m \in Movers, RecordTrust(m)
  PROVE  /\ TypeOK'
         /\ \A j \in Journeys : position'[j] = position[j] \/ position'[j].departure = None
<1>. DEFINE e == mover[m]
            observation == [at |-> e.at, train |-> e.train, departure |-> None, progress |-> 0]
<1>1. e \in Sighting /\ e.journey \in Journeys
  BY DEF RecordTrust, TypeOK, Movement, Sighting
<1>2. observation \in Position
  BY <1>1 DEF Sighting, Position, Times
<1>3. position' = Observed(e.journey, observation)
  BY DEF RecordTrust
<1>4. /\ mover' \in [Movers -> Movement \cup Sighting \cup {None}]
      /\ \A n \in Movers : mover'[n] # None /\ mover'[n].step # "record"
                             => mover'[n].leg \in LegOf(mover'[n].journey)
  BY DEF RecordTrust, TypeOK
<1>5. UNCHANGED <<now, run, tracker, history>>
  BY DEF RecordTrust
<1>6. position' \in [Journeys -> Position \cup {None}]
  BY <1>1, <1>2, <1>3, ObservedType
<1>7. TypeOK'
  BY <1>4, <1>5, <1>6 DEF TypeOK, tracker, history, IsMapped, StepPoint, OnSomeLeg, LegOf
<1>8. observation.departure = None
  OBVIOUS
<1>9. ASSUME NEW j \in Journeys
      PROVE  position'[j] = position[j] \/ position'[j].departure = None
  BY <1>1, <1>2, <1>3, <1>8, ObservedType
<1>. QED  BY <1>7, <1>9

\* A cancellation.
LEMMA InvalidateTypes ==
  ASSUME TypeOK, NEW t \in Trains, InvalidateTrain(t)
  PROVE  TypeOK'
<1>1. PICK at \in Latest :
        /\ cancelled' = [cancelled EXCEPT ![t] = Max({@, at})]
        /\ anchors' = [j \in Journeys |-> Stopped(anchors[j], t, at)]
        /\ ended' = [ended EXCEPT ![t] = Max({@, at})]
  BY DEF InvalidateTrain
<1>2. at \in Nat
  BY DEF Latest, Times
<1>3. cancelled' \in [Trains -> Nat] /\ ended' \in [Trains -> Nat]
  <2>1. cancelled[t] \in Nat /\ ended[t] \in Nat
    BY DEF TypeOK
  <2>2. Max({cancelled[t], at}) \in Nat /\ Max({ended[t], at}) \in Nat
    BY <1>2, <2>1, MaxOfTwo
  <2>. QED  BY <1>1, <2>2 DEF TypeOK
<1>4. ASSUME NEW j \in Journeys
      PROVE  anchors'[j] \in Anchor \cup {None} /\ (anchors'[j] # None => anchors'[j].leg \in LegOf(j))
  <2>1. anchors'[j] = Stopped(anchors[j], t, at)
    BY <1>1
  <2>2. anchors[j] # None => anchors[j].leg \in LegOf(j) /\ 0 \in LegOf(j)
    <3>1. Path[j] \in Seq(Legs)
      BY DescriberAssumption
    <3>. QED  BY <3>1 DEF TypeOK, LegOf
  <2>3. /\ Stopped(anchors[j], t, at) \in Anchor \cup {None}
        /\ Stopped(anchors[j], t, at) # None =>
             anchors[j] # None /\ Stopped(anchors[j], t, at).leg \in {0, anchors[j].leg}
    BY <1>2, AnchorTypes
  <2>. QED  BY <2>1, <2>2, <2>3
<1>5. anchors' \in [Journeys -> Anchor \cup {None}]
  BY <1>1, <1>4
<1>6. UNCHANGED <<now, run, mover, reporting, position, newest, lastTD>> /\ reporting = None
  BY DEF InvalidateTrain
<1>. QED  BY <1>3, <1>4, <1>5, <1>6 DEF TypeOK, LegOf

\* What a TD message does to the tracker, and which run it may select.
LEMMA ProcessEffect ==
  ASSUME Process
  PROVE  \E e \in Steps :
           /\ anchors' = Cleared(e)
           /\ lastTD' = IF lastTD # None /\ e.at > lastTD THEN e.at ELSE None
           /\ \/ reporting' = None
              \/ \E j \in Journeys : Matches(j, e) /\ reporting' = [journey |-> j, event |-> e]
<1>1. PICK e \in Steps :
        LET candidates == {j \in Journeys : Matches(j, e)}
        IN  /\ anchors' = Cleared(e)
            /\ \/ reporting' = None
               \/ /\ e.kind # "CC" /\ e.code # None
                  /\ Cardinality(Bound(e)) <= 1 /\ Cardinality(candidates) = 1
                  /\ reporting' = [journey |-> CHOOSE j \in candidates : TRUE, event |-> e]
            /\ lastTD' = IF lastTD # None /\ e.at > lastTD THEN e.at ELSE None
  BY DEF Process
<1>. DEFINE candidates == {j \in Journeys : Matches(j, e)}
<1>2. CASE reporting' = None
  BY <1>1, <1>2
<1>3. CASE /\ Cardinality(candidates) = 1
           /\ reporting' = [journey |-> CHOOSE j \in candidates : TRUE, event |-> e]
  <2>1. candidates # {}
    BY <1>3, FS_EmptySet
  <2>2. (CHOOSE j \in candidates : TRUE) \in candidates
    BY <2>1
  <2>3. \E j \in Journeys : Matches(j, e) /\ reporting' = [journey |-> j, event |-> e]
    BY <1>3, <2>2
  <2>. QED  BY <1>1, <2>3
<1>. QED  BY <1>1, <1>2, <1>3

\* A TD message.
LEMMA ProcessTypes ==
  ASSUME TypeOK, Process
  PROVE  TypeOK'
<1>1. PICK e \in Steps :
        /\ anchors' = Cleared(e)
        /\ lastTD' = IF lastTD # None /\ e.at > lastTD THEN e.at ELSE None
        /\ \/ reporting' = None
           \/ \E j \in Journeys : Matches(j, e) /\ reporting' = [journey |-> j, event |-> e]
  BY ProcessEffect
<1>2. /\ e \in Event /\ e.at \in Nat
      /\ e.kind = "CA" => {e.from, e.to} \subseteq Berths
  <2>1. e \in Event
    BY StepsAreEvents
  <2>. QED  BY <2>1, StepsAreEvents DEF Event, Times
<1>3. ASSUME NEW j \in Journeys
      PROVE  anchors'[j] \in Anchor \cup {None} /\ (anchors'[j] # None => anchors'[j].leg \in LegOf(j))
  <2>1. /\ Cleared(e)[j] \in Anchor \cup {None}
        /\ Cleared(e)[j] # None =>
             /\ anchors[j] # None
             /\ Cleared(e)[j].leg # 0 => Cleared(e)[j] = anchors[j]
    BY <1>2, AnchorTypes
  <2>2. anchors[j] # None => anchors[j].leg \in LegOf(j) /\ 0 \in LegOf(j)
    <3>1. Path[j] \in Seq(Legs)
      BY DescriberAssumption
    <3>. QED  BY <3>1 DEF TypeOK, LegOf
  <2>. QED  BY <1>1, <2>1, <2>2
<1>4. anchors' \in [Journeys -> Anchor \cup {None}]
  <2>1. anchors' \in [Journeys -> {anchors'[j] : j \in Journeys}]
    BY <1>1 DEF Cleared
  <2>. QED  BY <1>3, <2>1
<1>5. lastTD' \in Nat \cup {None}
  BY <1>1, <1>2
<1>6. ASSUME reporting' # None
      PROVE  /\ reporting' \in [journey : Journeys, event : Event]
             /\ reporting'.event.kind = "CA" => {reporting'.event.from, reporting'.event.to} \subseteq Berths
             /\ anchors'[reporting'.journey] # None
             /\ anchors'[reporting'.journey].leg # 0
             /\ IsMapped(reporting'.event) =>
                  StepPoint(reporting'.event,
                    Path[reporting'.journey][anchors'[reporting'.journey].leg]) # None
  <2>1. PICK j \in Journeys : Matches(j, e) /\ reporting' = [journey |-> j, event |-> e]
    BY <1>1, <1>6
  <2>2. /\ anchors[j] # None /\ anchors[j].leg # 0
        /\ Cleared(e)[j] = anchors[j]
        /\ IsMapped(e) => Advances(j, anchors[j], e)
    BY <2>1, SelectedRun
  <2>3. IsMapped(e) => StepPoint(e, Path[j][anchors[j].leg]) # None
    BY <2>2 DEF Advances
  <2>. QED  BY <1>1, <1>2, <2>1, <2>2, <2>3
<1>7. UNCHANGED <<now, run, mover, cancelled, position, newest, ended>>
  BY DEF Process
<1>. QED  BY <1>3, <1>4, <1>5, <1>6, <1>7 DEF TypeOK, LegOf, IsMapped, StepPoint, OnSomeLeg

\* What follows when Redis answered: the anchor moves on, and the position of a mapped
\* step may be recorded.
LEMMA ReportEffect ==
  ASSUME TypeOK, Report
  PROVE  LET j == reporting.journey
             e == reporting.event
             a == anchors[j]
             progress == IF IsMapped(e) THEN StepPoint(e, Path[j][a.leg]) ELSE a.progress
             leg == IF e.kind = "CB" THEN 0 ELSE a.leg
             observation == [at |-> e.at, train |-> a.train, departure |-> a.at, progress |-> progress]
         IN  /\ j \in Journeys /\ e \in Event /\ a \in Anchor /\ a # None /\ a.leg # 0
             /\ progress \in Nat /\ leg \in {0, a.leg}
             /\ observation \in Position
             /\ \/ UNCHANGED <<anchors, position>>
                \/ /\ anchors' = [anchors EXCEPT ![j] =
                        [a EXCEPT !.tdAt = e.at, !.progress = progress, !.berth = e.to, !.leg = leg]]
                   /\ position' = IF IsMapped(e) THEN Observed(j, observation) ELSE position
<1>. DEFINE j == reporting.journey
            e == reporting.event
            a == anchors[j]
            progress == IF IsMapped(e) THEN StepPoint(e, Path[j][a.leg]) ELSE a.progress
            leg == IF e.kind = "CB" THEN 0 ELSE a.leg
            observation == [at |-> e.at, train |-> a.train, departure |-> a.at, progress |-> progress]
<1>1. reporting # None
  BY DEF Report
<1>2. /\ reporting \in [journey : Journeys, event : Event]
      /\ e.kind = "CA" => {e.from, e.to} \subseteq Berths
      /\ a # None /\ a.leg # 0
      /\ IsMapped(e) => StepPoint(e, Path[j][a.leg]) # None
  BY <1>1 DEF TypeOK
<1>3. j \in Journeys /\ e \in Event /\ e.at \in Nat
  <2>1. j \in Journeys /\ e \in Event
    BY <1>2
  <2>. QED  BY <2>1 DEF Event, Times
<1>4. a \in Anchor /\ a.leg \in LegOf(j)
  BY <1>2, <1>3 DEF TypeOK
<1>5. progress \in Nat
  <2>1. CASE IsMapped(e)
    <3>1. {e.from, e.to} \subseteq Berths /\ StepPoint(e, Path[j][a.leg]) # None
      BY <1>2, <2>1 DEF IsMapped
    <3>2. Path[j][a.leg] \in Legs
      BY <1>2, <1>3, <1>4, LegOfPath
    <3>3. StepPoint(e, Path[j][a.leg]) \in Nat \cup {None}
      BY <1>3, <3>1, <3>2, StepPointType
    <3>. QED  BY <2>1, <3>1, <3>3
  <2>2. CASE ~IsMapped(e)
    BY <1>4, <2>2 DEF Anchor
  <2>. QED  BY <2>1, <2>2
<1>6. observation \in Position
  BY <1>3, <1>4, <1>5 DEF Anchor, Position
<1>7. \/ UNCHANGED <<anchors, position>>
      \/ /\ anchors' = [anchors EXCEPT ![j] =
              [a EXCEPT !.tdAt = e.at, !.progress = progress, !.berth = e.to, !.leg = leg]]
         /\ position' = IF IsMapped(e) THEN Observed(j, observation) ELSE position
  BY DEF Report
<1>. QED  BY <1>2, <1>3, <1>4, <1>5, <1>6, <1>7

\* The answer of Redis to a selected step.
LEMMA ReportTypes ==
  ASSUME TypeOK, Report
  PROVE  TypeOK'
<1>. DEFINE j == reporting.journey
            e == reporting.event
            a == anchors[j]
            progress == IF IsMapped(e) THEN StepPoint(e, Path[j][a.leg]) ELSE a.progress
            leg == IF e.kind = "CB" THEN 0 ELSE a.leg
            observation == [at |-> e.at, train |-> a.train, departure |-> a.at, progress |-> progress]
            moved == [a EXCEPT !.tdAt = e.at, !.progress = progress, !.berth = e.to, !.leg = leg]
<1>1. /\ j \in Journeys /\ e \in Event /\ a \in Anchor /\ a # None
      /\ progress \in Nat /\ leg \in {0, a.leg} /\ observation \in Position
      /\ \/ UNCHANGED <<anchors, position>>
         \/ /\ anchors' = [anchors EXCEPT ![j] = moved]
            /\ position' = IF IsMapped(e) THEN Observed(j, observation) ELSE position
  BY ReportEffect
<1>2. reporting' = None /\ UNCHANGED <<now, run, mover, cancelled, history>>
  BY DEF Report
<1>3. leg \in LegOf(j) /\ leg \in Nat
  <2>1. Path[j] \in Seq(Legs) /\ a.leg \in LegOf(j)
    BY <1>1, DescriberAssumption DEF TypeOK
  <2>. QED  BY <1>1, <2>1 DEF LegOf
<1>4. moved \in Anchor /\ moved.leg = leg
  <2>1. e.at \in Nat /\ e.to \in Berths \cup {None}
    BY <1>1 DEF Event, Times
  <2>2. moved \in Anchor
    BY <1>1, <1>3, <2>1, AnchorUpdates
  <2>3. moved.leg = leg
    BY <1>1 DEF Anchor
  <2>. QED  BY <2>2, <2>3
<1>5. anchors \in [Journeys -> Anchor \cup {None}]
      /\ \A i \in Journeys : anchors[i] # None => anchors[i].leg \in LegOf(i)
  BY DEF TypeOK
<1>6. anchors' \in [Journeys -> Anchor \cup {None}]
      /\ \A i \in Journeys : anchors'[i] # None => anchors'[i].leg \in LegOf(i)
  <2>1. CASE anchors' = [anchors EXCEPT ![j] = moved]
    <3>. HIDE DEF moved, leg
    <3>. QED  BY <1>1, <1>3, <1>4, <1>5, <2>1
  <2>2. CASE anchors' = anchors
    BY <1>5, <2>2
  <2>. QED  BY <1>1, <2>1, <2>2
<1>7. position' \in [Journeys -> Position \cup {None}]
  <2>1. Observed(j, observation) \in [Journeys -> Position \cup {None}]
    BY <1>1, ObservedType
  <2>. QED  BY <1>1, <2>1 DEF TypeOK
<1>. QED  BY <1>2, <1>6, <1>7 DEF TypeOK, history, LegOf

LEMMA TypeStep == TypeOK /\ [Next]_vars => TypeOK'
<1>. SUFFICES ASSUME TypeOK, [Next]_vars
              PROVE  TypeOK'
  OBVIOUS
<1>1. ASSUME NEW j \in Journeys,
             Reinstate(j) \/ CancelRun(j) \/ RunExpires(j) \/ \E t \in Trains : Activate(j, t)
      PROVE  TypeOK'
  BY <1>1, RunTypes
<1>2. ASSUME NEW m \in Movers, FindRun(m) \/ FindRunUnlocated(m) \/ SaveRun(m)
      PROVE  TypeOK'
  BY <1>2, MovementTypes
<1>3. ASSUME NEW m \in Movers, Trust(m) PROVE TypeOK'
  BY <1>3, TrustTypes
<1>4. ASSUME NEW m \in Movers, RecordTrust(m) PROVE TypeOK'
  BY <1>4, RecordTypes
<1>5. ASSUME NEW t \in Trains, InvalidateTrain(t) PROVE TypeOK'
  BY <1>5, InvalidateTypes
<1>6. CASE Process
  BY <1>6, ProcessTypes
<1>7. CASE Report
  BY <1>7, ReportTypes
<1>8. CASE Tick
  <2>1. UNCHANGED <<run, mover, tracker, position, history>> /\ now' \in Nat
    BY <1>8 DEF Tick, TypeOK
  <2>2. /\ run' \in [Journeys -> RunRecord \cup {None}]
        /\ mover' \in [Movers -> Movement \cup Sighting \cup {None}]
        /\ \A m \in Movers : mover'[m] # None /\ mover'[m].step # "record"
                               => mover'[m].leg \in LegOf(mover'[m].journey)
    BY <2>1 DEF TypeOK, LegOf
  <2>. QED  BY <2>1, <2>2, TrackerTypes
<1>9. CASE UNCHANGED vars
  BY <1>9 DEF vars, TypeOK, tracker, history, IsMapped, StepPoint, OnSomeLeg, LegOf
<1>. QED  BY <1>1, <1>2, <1>3, <1>4, <1>5, <1>6, <1>7, <1>8, <1>9 DEF Next

\* Runs, reports, anchors, positions and the selected run keep their types, for every
\* number of journeys, trains and goroutines, and a selected run has an open leg with a
\* point for a mapped step.
THEOREM TypeCorrect == Spec => []TypeOK
BY TypeInit, TypeStep, PTL DEF Spec

-----------------------------------------------------------------------------
(* One train in a berth.  As long as TD messages come in order, no anchor was moved    *)
(* by a later message than the last; so a step into a berth finds whoever was there     *)
(* older than itself and clears the berth, before the train that it selects is put        *)
(* into it.                                                                         *)

Uncontested ==
  lastTD # None =>
    /\ \A j \in Journeys : anchors[j] # None => anchors[j].tdAt <= lastTD
    /\ reporting # None =>
         /\ reporting.event.at = lastTD
         /\ \A j \in Journeys : anchors[j] # None /\ anchors[j].berth # None
                                  => anchors[j].berth # reporting.event.to

BerthInv == Uncontested /\ OneTrainPerBerth

\* Anchors that are new have no berth, the others keep what TD says of them.
LEMMA BerthsKept ==
  ASSUME BerthInv, UNCHANGED <<reporting, lastTD>>, TypeOK,
         \A j \in Journeys : anchors'[j] # None =>
           \/ anchors'[j].berth = None /\ anchors'[j].tdAt = 0
           \/ /\ anchors[j] # None
              /\ anchors'[j].berth = anchors[j].berth /\ anchors'[j].tdAt = anchors[j].tdAt
  PROVE  BerthInv'
<1>1. CASE lastTD = None
  BY <1>1 DEF BerthInv, Uncontested, OneTrainPerBerth
<1>2. CASE lastTD # None
  <2>1. lastTD' = lastTD /\ lastTD \in Nat
    BY <1>2 DEF TypeOK
  <2>2. \A j \in Journeys : anchors'[j] # None => anchors'[j].tdAt <= lastTD
    BY <1>2, <2>1 DEF BerthInv, Uncontested
  <2>3. Uncontested'
    BY <1>2, <2>1, <2>2 DEF BerthInv, Uncontested
  <2>4. OneTrainPerBerth'
    BY <1>2, <2>1 DEF BerthInv, OneTrainPerBerth
  <2>. QED  BY <2>3, <2>4 DEF BerthInv
<1>. QED  BY <1>1, <1>2

\* A TD message clears the berth that it leads to, of every train that is there.
LEMMA ProcessBerths ==
  ASSUME TypeOK, BerthInv, Process
  PROVE  BerthInv'
<1>1. PICK e \in Steps :
        /\ anchors' = Cleared(e)
        /\ lastTD' = IF lastTD # None /\ e.at > lastTD THEN e.at ELSE None
        /\ \/ reporting' = None
           \/ \E j \in Journeys : Matches(j, e) /\ reporting' = [journey |-> j, event |-> e]
  BY ProcessEffect
<1>2. e \in Event /\ e.at \in Nat /\ e.at # None /\ e.to \in Berths \cup {None}
  <2>1. e \in Event
    BY StepsAreEvents
  <2>. QED  BY <2>1, DescriberAssumption DEF Event, Times
<1>3. CASE ~(lastTD # None /\ e.at > lastTD)
  <2>1. lastTD' = None
    BY <1>1, <1>3
  <2>. QED  BY <2>1 DEF BerthInv, Uncontested, OneTrainPerBerth
<1>4. CASE lastTD # None /\ e.at > lastTD
  <2>1. lastTD' = e.at /\ lastTD \in Nat
    BY <1>1, <1>4 DEF TypeOK
  <2>2. ASSUME NEW j \in Journeys, anchors'[j] # None
        PROVE  /\ anchors[j] # None /\ anchors'[j].tdAt <= e.at
               /\ anchors'[j].berth # None =>
                    anchors'[j].berth = anchors[j].berth /\ anchors'[j].berth # e.to
    <3>1. anchors'[j] = Cleared(e)[j]
      BY <1>1
    <3>2. anchors[j] # None /\ anchors[j] \in Anchor
      <4>1. anchors[j] # None
        BY <1>2, <2>2, <3>1, AnchorTypes
      <4>. QED  BY <4>1 DEF TypeOK
    <3>3. anchors[j].tdAt <= lastTD /\ anchors[j].tdAt \in Nat
      BY <1>4, <3>2 DEF BerthInv, Uncontested, Anchor
    <3>4. anchors[j].tdAt < e.at
      BY <1>2, <1>4, <2>1, <3>3
    <3>5. CASE Broken(anchors[j], e)
      <4>1. anchors'[j] = [anchors[j] EXCEPT !.berth = None, !.leg = 0, !.tdAt = e.at]
        BY <3>1, <3>5 DEF Cleared
      <4>2. anchors'[j].berth = None /\ anchors'[j].tdAt = e.at
        BY <3>2, <4>1 DEF Anchor
      <4>. QED  BY <1>2, <3>2, <4>2
    <3>6. CASE ~Broken(anchors[j], e)
      <4>1. anchors'[j] = anchors[j]
        BY <3>1, <3>6 DEF Cleared
      <4>2. anchors[j].berth # None => anchors[j].berth # e.to
        BY <1>2, <3>2, <3>3, <3>4, <3>6 DEF Broken
      <4>. QED  BY <1>2, <3>2, <3>3, <3>4, <4>1, <4>2
    <3>. QED  BY <3>5, <3>6
  <2>3. reporting' # None => reporting'.event = e
    BY <1>1
  <2>4. Uncontested'
    BY <2>1, <2>2, <2>3 DEF Uncontested
  <2>5. OneTrainPerBerth'
    BY <1>4, <2>2 DEF BerthInv, OneTrainPerBerth
  <2>. QED  BY <2>4, <2>5 DEF BerthInv
<1>. QED  BY <1>3, <1>4

\* The selected train is put into a berth that the message found empty.
LEMMA ReportBerths ==
  ASSUME TypeOK, BerthInv, Report
  PROVE  BerthInv'
<1>. DEFINE j == reporting.journey
            e == reporting.event
            a == anchors[j]
            progress == IF IsMapped(e) THEN StepPoint(e, Path[j][a.leg]) ELSE a.progress
            leg == IF e.kind = "CB" THEN 0 ELSE a.leg
            moved == [a EXCEPT !.tdAt = e.at, !.progress = progress, !.berth = e.to, !.leg = leg]
<1>1. /\ j \in Journeys /\ e \in Event /\ a \in Anchor /\ a # None
      /\ anchors' = anchors \/ anchors' = [anchors EXCEPT ![j] = moved]
  BY ReportEffect
<1>2. reporting # None /\ reporting' = None /\ lastTD' = lastTD
  BY DEF Report, history
<1>3. moved.tdAt = e.at /\ moved.berth = e.to
  BY <1>1 DEF Anchor
<1>. HIDE DEF moved
<1>4. CASE lastTD = None
  BY <1>2, <1>4 DEF BerthInv, Uncontested, OneTrainPerBerth
<1>5. CASE lastTD # None /\ anchors' = anchors
  BY <1>2, <1>5 DEF BerthInv, Uncontested, OneTrainPerBerth
<1>6. CASE lastTD # None /\ anchors' = [anchors EXCEPT ![j] = moved]
  <2>1. e.at = lastTD /\ e.at \in Nat
    BY <1>1, <1>2, <1>6 DEF BerthInv, Uncontested, Event, Times
  <2>2. anchors'[j] = moved /\ \A i \in Journeys \ {j} : anchors'[i] = anchors[i]
    BY <1>1, <1>6 DEF TypeOK
  <2>3. \A i \in Journeys \ {j} : anchors[i] # None /\ anchors[i].berth # None
                                    => anchors[i].berth # e.to
    BY <1>2, <1>6 DEF BerthInv, Uncontested
  <2>4. Uncontested'
    BY <1>2, <1>3, <1>6, <2>1, <2>2 DEF BerthInv, Uncontested
  <2>5. OneTrainPerBerth'
    BY <1>2, <1>3, <1>6, <2>2, <2>3 DEF BerthInv, OneTrainPerBerth
  <2>. QED  BY <2>4, <2>5 DEF BerthInv
<1>. QED  BY <1>1, <1>4, <1>5, <1>6

LEMMA BerthStep == TypeOK /\ BerthInv /\ [Next]_vars => BerthInv'
<1>. SUFFICES ASSUME TypeOK, BerthInv, [Next]_vars
              PROVE  BerthInv'
  OBVIOUS
<1>1. ASSUME UNCHANGED <<anchors, reporting, lastTD>>
      PROVE  BerthInv'
  BY <1>1 DEF BerthInv, Uncontested, OneTrainPerBerth
<1>2. ASSUME NEW j \in Journeys,
             Reinstate(j) \/ CancelRun(j) \/ RunExpires(j) \/ \E t \in Trains : Activate(j, t)
      PROVE  BerthInv'
  BY <1>1, <1>2 DEF Reinstate, CancelRun, RunExpires, Activate, tracker, history
<1>3. ASSUME NEW m \in Movers, FindRun(m) \/ FindRunUnlocated(m) \/ SaveRun(m) \/ RecordTrust(m)
      PROVE  BerthInv'
  BY <1>1, <1>3 DEF FindRun, FindRunUnlocated, SaveRun, RecordTrust, tracker, history
<1>4. ASSUME NEW m \in Movers, Trust(m)
      PROVE  BerthInv'
  <2>1. ASSUME NEW j \in Journeys, anchors'[j] # None
        PROVE  \/ anchors'[j].berth = None /\ anchors'[j].tdAt = 0
               \/ /\ anchors[j] # None
                  /\ anchors'[j].berth = anchors[j].berth /\ anchors'[j].tdAt = anchors[j].tdAt
    <3>1. /\ Forgotten[j] \in Anchor \cup {None}
          /\ Forgotten[j] # None => Forgotten[j] = anchors[j]
      BY AnchorTypes
    <3>2. CASE anchors'[j] = Forgotten[j]
      BY <2>1, <3>1, <3>2
    <3>3. CASE Forgotten[j] # None /\ anchors'[j] = [Forgotten[j] EXCEPT !.trustAt = mover[m].at]
      BY <3>1, <3>3 DEF Anchor
    <3>4. CASE \E leg \in {0, mover[m].leg} : anchors'[j]
                 = NewAnchor(mover[m].copy.train, mover[m].at, leg)
      BY <3>4 DEF NewAnchor
    <3>. QED  BY <1>4, <3>2, <3>3, <3>4, TrustEffect
  <2>2. UNCHANGED <<reporting, lastTD>>
    BY <1>4 DEF Trust
  <2>. QED  BY <2>1, <2>2, BerthsKept
<1>5. ASSUME NEW t \in Trains, InvalidateTrain(t)
      PROVE  BerthInv'
  <2>1. PICK at \in Latest : anchors' = [j \in Journeys |-> Stopped(anchors[j], t, at)]
    BY <1>5 DEF InvalidateTrain
  <2>2. ASSUME NEW j \in Journeys, anchors'[j] # None
        PROVE  /\ anchors[j] # None
               /\ anchors'[j].berth = anchors[j].berth /\ anchors'[j].tdAt = anchors[j].tdAt
    <3>1. anchors'[j] = Stopped(anchors[j], t, at)
      BY <2>1
    <3>2. anchors[j] # None => anchors[j] \in Anchor
      BY DEF TypeOK
    <3>. QED  BY <2>2, <3>1, <3>2 DEF Stopped, Anchor
  <2>3. UNCHANGED <<reporting, lastTD>>
    BY <1>5 DEF InvalidateTrain
  <2>. QED  BY <2>2, <2>3, BerthsKept
<1>6. CASE Process
  BY <1>6, ProcessBerths
<1>7. CASE Report
  BY <1>7, ReportBerths
<1>8. CASE Tick
  BY <1>1, <1>8 DEF Tick, tracker, history
<1>9. CASE UNCHANGED vars
  BY <1>1, <1>9 DEF vars, tracker, history
<1>. QED  BY <1>2, <1>3, <1>4, <1>5, <1>6, <1>7, <1>8, <1>9 DEF Next

\* No two trains are ever in one berth while TD messages come in the order of their
\* times, for every number of trains and berths, every mapping and however the reports
\* of TRUST, cancellations and failures of Redis come in between.
THEOREM BerthsAreUnique == Spec => []OneTrainPerBerth
<1>1. Init => BerthInv
  BY DEF Init, BerthInv, Uncontested, OneTrainPerBerth
<1>2. BerthInv => OneTrainPerBerth
  BY DEF BerthInv
<1>. QED  BY <1>1, <1>2, BerthStep, TypeCorrect, PTL DEF Spec

-----------------------------------------------------------------------------
(* Positions in order.  While a time is recent, the tracker remembers what happened     *)
(* at it; after that no TD message is matched with a departure of that time.             *)

Recent(at) == now <= at + Window

\* The tracker remembers a cancellation while it is recent.
CancelRemembered(t) ==
  cancelled[t] <= ended[t] /\ (cancelled[t] = ended[t] \/ ~Recent(ended[t]))

\* An open leg is no older than what TRUST last said, and newer than a cancellation.
OpenLeg(j) ==
  anchors[j] # None /\ anchors[j].leg # 0 /\ Recent(anchors[j].at)
    => anchors[j].at > ended[anchors[j].train] /\ anchors[j].at >= newest[j]

\* A recent report has left an anchor that is no older.
Watermark(j) ==
  /\ anchors[j] # None => anchors[j].at <= anchors[j].trustAt
  /\ newest[j] # 0 /\ Recent(newest[j]) => anchors[j] # None /\ anchors[j].at >= newest[j]

\* A position that follows a recent departure is behind the anchor of that departure.
Behind(j) ==
  position[j] # None /\ position[j].departure # None /\ Recent(position[j].departure)
    => /\ anchors[j] # None /\ anchors[j].at >= position[j].departure
       /\ anchors[j].at = position[j].departure /\ anchors[j].leg # 0
            => anchors[j].tdAt # 0 /\ anchors[j].progress >= position[j].progress

\* What was true of the selected run when it was selected stays so until Redis answers,
\* though its departure may be recent no more.
StillRight ==
  reporting # None =>
    LET j == reporting.journey
        e == reporting.event
        a == anchors[j]
    IN  /\ a.at > ended[a.train] /\ a.at >= newest[j]
        /\ IsMapped(e) /\ position[j] # None /\ position[j].departure = a.at
             => StepPoint(e, Path[j][a.leg]) > position[j].progress

Knows(j) == OpenLeg(j) /\ Watermark(j) /\ Behind(j)

PositionInv ==
  /\ \A t \in Trains : CancelRemembered(t)
  /\ \A j \in Journeys : Knows(j)
  /\ StillRight

\* Fresh is what Recent says of an anchor.
LEMMA FreshIsRecent ==
  ASSUME TypeOK, NEW at \in Nat
  PROVE  Recent(at) <=> now - at <= Window
<1>1. now \in Nat /\ Window \in Nat
  BY DescriberAssumption DEF TypeOK
<1>. QED  BY <1>1 DEF Recent

\* What forgets or keeps an anchor keeps what is known of a journey.
LEMMA KnowsKept ==
  ASSUME TypeOK, NEW j \in Journeys, Knows(j), ended' = ended, now' = now,
         newest'[j] = newest[j], position'[j] = position[j],
         anchors'[j] = Forgotten[j] \/ anchors'[j] = anchors[j]
  PROVE  Knows(j)'
<1>1. CASE anchors'[j] = anchors[j]
  BY <1>1 DEF Knows, OpenLeg, Watermark, Behind, Recent
<1>2. CASE anchors'[j] = Forgotten[j] /\ anchors'[j] # anchors[j]
  <2>1. anchors[j] # None /\ ~Fresh(anchors[j]) /\ anchors'[j] = None
    BY <1>2 DEF Forgotten
  <2>2. anchors[j] \in Anchor
    BY <2>1 DEF TypeOK
  <2>3. anchors[j].at \in Nat /\ now \in Nat /\ Window \in Nat
    BY <2>2, DescriberAssumption DEF Anchor, TypeOK
  <2>4. now > anchors[j].at + Window
    BY <2>1, <2>3 DEF Fresh
  <2>5. ~(newest[j] # 0 /\ Recent(newest[j]))
    <3>1. newest[j] \in Nat
      BY DEF TypeOK
    <3>. QED  BY <2>3, <2>4, <3>1 DEF Knows, Watermark, Recent
  <2>6. ~(position[j] # None /\ position[j].departure # None /\ Recent(position[j].departure))
    <3>1. position[j] # None /\ position[j].departure # None => position[j].departure \in Nat
      BY DEF TypeOK, Position
    <3>. QED  BY <2>3, <2>4, <3>1 DEF Knows, Behind, Recent
  <2>. QED  BY <2>1, <2>5, <2>6 DEF Knows, OpenLeg, Watermark, Behind, Recent
<1>. QED  BY <1>1, <1>2

\* Nothing that is not the tracker's own changes what it knows, and time only takes
\* away what has to be known.
LEMMA PositionFrame ==
  ASSUME TypeOK, PositionInv, UNCHANGED <<tracker, history>>, now' \in Nat, now' >= now,
         \A j \in Journeys : position'[j] = position[j] \/ position'[j].departure = None
  PROVE  PositionInv'
<1>1. now \in Nat /\ Window \in Nat
  BY DescriberAssumption DEF TypeOK
<1>2. \A at \in Nat : now' <= at + Window => now <= at + Window
  BY <1>1
<1>3. UNCHANGED <<anchors, cancelled, reporting, newest, ended>>
  BY DEF tracker, history
<1>4. ASSUME NEW t \in Trains
      PROVE  CancelRemembered(t)'
  <2>1. ended[t] \in Nat /\ CancelRemembered(t)
    BY DEF TypeOK, PositionInv
  <2>2. Recent(ended[t])' => Recent(ended[t])
    BY <1>2, <1>3, <2>1 DEF Recent
  <2>. QED  BY <1>3, <2>1, <2>2 DEF CancelRemembered
<1>5. ASSUME NEW j \in Journeys
      PROVE  Knows(j)'
  <2>1. Knows(j) /\ newest[j] \in Nat /\ (anchors[j] # None => anchors[j].at \in Nat)
    BY DEF TypeOK, PositionInv, Anchor
  <2>2. OpenLeg(j)'
    <3>1. anchors[j] # None /\ Recent(anchors[j].at)' => Recent(anchors[j].at)
      BY <1>2, <1>3, <2>1 DEF Recent
    <3>. QED  BY <1>3, <2>1, <3>1 DEF Knows, OpenLeg
  <2>3. Watermark(j)'
    <3>1. Recent(newest[j])' => Recent(newest[j])
      BY <1>2, <1>3, <2>1 DEF Recent
    <3>. QED  BY <1>3, <2>1, <3>1 DEF Knows, Watermark
  <2>4. Behind(j)'
    <3>1. CASE position'[j] = position[j]
      <4>1. position[j] # None /\ position[j].departure # None => position[j].departure \in Nat
        BY DEF TypeOK, Position
      <4>2. position'[j] # None /\ position'[j].departure # None /\ Recent(position[j].departure)'
              => Recent(position[j].departure)
        BY <1>2, <3>1, <4>1 DEF Recent
      <4>. QED  BY <1>3, <2>1, <3>1, <4>2 DEF Knows, Behind
    <3>2. CASE position'[j].departure = None
      BY <3>2 DEF Behind
    <3>. QED  BY <3>1, <3>2
  <2>. QED  BY <2>2, <2>3, <2>4 DEF Knows
<1>6. StillRight'
  <2>1. CASE reporting = None
    BY <1>3, <2>1 DEF StillRight
  <2>2. CASE reporting # None
    <3>1. reporting.journey \in Journeys /\ anchors[reporting.journey].at \in Nat
      BY <2>2 DEF TypeOK, Anchor
    <3>2. anchors[reporting.journey].at # None
      BY <3>1, DescriberAssumption
    <3>3. \/ position'[reporting.journey] = position[reporting.journey]
          \/ position'[reporting.journey].departure # anchors[reporting.journey].at
      BY <3>1, <3>2
    <3>. QED  BY <1>3, <2>2, <3>3 DEF PositionInv, StillRight, IsMapped, StepPoint, OnSomeLeg
  <2>. QED  BY <2>1, <2>2
<1>. QED  BY <1>4, <1>5, <1>6 DEF PositionInv

\* A report: a new anchor is newer than what the tracker remembers, and what it has
\* forgotten is too old to matter.
LEMMA TrustPositions ==
  ASSUME TypeOK, PositionInv, NEW m \in Movers, Trust(m)
  PROVE  PositionInv'
<1>. DEFINE e == mover[m]
<1>1. /\ e \in Movement /\ e.journey \in Journeys /\ e.at \in Nat /\ e.at >= 1
      /\ e.copy.train \in Trains /\ now \in Nat /\ Window \in Nat
  <2>1. e \in Movement
    BY TrustEffect
  <2>2. e.journey \in Journeys /\ e.at \in Times /\ e.copy \in RunRecord
    BY <2>1 DEF Movement
  <2>. QED  BY <2>1, <2>2, DescriberAssumption DEF RunRecord, TypeOK, Times
<1>2. UNCHANGED <<now, reporting, position, ended>> /\ reporting = None /\ cancelled' = Remembered
  BY DEF Trust
<1>3. newest \in [Journeys -> Nat] /\ ended \in [Trains -> Nat] /\ cancelled \in [Trains -> Nat]
  BY DEF TypeOK
<1>4. ASSUME NEW t \in Trains
      PROVE  /\ CancelRemembered(t)'
             /\ ~Recent(ended[t]) \/ Remembered[t] = ended[t]
  <2>1. ended[t] \in Nat /\ cancelled[t] \in Nat /\ CancelRemembered(t)
    BY <1>3 DEF PositionInv
  <2>2. Remembered[t] = IF now - cancelled[t] > Window THEN 0 ELSE cancelled[t]
    BY DEF Remembered
  <2>3. cancelled[t] = ended[t] /\ now - cancelled[t] > Window => ~Recent(ended[t])
    BY <1>1, <2>1 DEF Recent
  <2>4. ~Recent(ended[t]) \/ Remembered[t] = ended[t]
    BY <2>1, <2>2, <2>3 DEF CancelRemembered
  <2>5. Remembered[t] <= ended[t]
    BY <2>1, <2>2 DEF CancelRemembered
  <2>. QED  BY <1>2, <2>4, <2>5 DEF CancelRemembered, Recent
<1>5. ASSUME NEW j \in Journeys, newest'[j] = newest[j], anchors'[j] = Forgotten[j]
      PROVE  Knows(j)'
  BY <1>2, <1>5, KnowsKept DEF PositionInv
<1>0. PICK i \in Journeys : i = e.journey
  BY <1>1
<1>. DEFINE old == Forgotten[i]
<1>6. /\ old \in Anchor \cup {None}
      /\ old # None => old = anchors[i] /\ Fresh(anchors[i])
      /\ anchors[i] \in Anchor \cup {None}
      /\ Knows(i) /\ newest[i] \in Nat
      /\ position[i] # None /\ position[i].departure # None => position[i].departure \in Nat
      /\ Max({newest[i], e.at}) \in Nat /\ Max({newest[i], e.at}) >= e.at
      /\ Max({newest[i], e.at}) \in {newest[i], e.at}
  <2>1. old \in Anchor \cup {None} /\ (old # None => old = anchors[i])
    BY AnchorTypes
  <2>2. old # None => Fresh(anchors[i])
    BY <1>1 DEF Forgotten
  <2>3. Max({newest[i], e.at}) = IF newest[i] >= e.at THEN newest[i] ELSE e.at
    BY <1>1, <1>3, MaxOfTwo
  <2>4. position[i] # None /\ position[i].departure # None => position[i].departure \in Nat
    BY <1>1 DEF TypeOK, Position
  <2>5. anchors[i] \in Anchor \cup {None} /\ Knows(i) /\ newest[i] \in Nat
    BY <1>1, <1>3 DEF TypeOK, PositionInv
  <2>. QED  BY <1>1, <2>1, <2>2, <2>3, <2>4, <2>5
<1>7. ASSUME old # None, anchors'[i] = [old EXCEPT !.trustAt = e.at], e.at > old.trustAt, newest' = newest
      PROVE  Knows(i)'
  <2>1. /\ anchors[i] \in Anchor /\ anchors[i] # None /\ anchors[i].at <= anchors[i].trustAt
        /\ anchors'[i] = [anchors[i] EXCEPT !.trustAt = e.at] /\ e.at > anchors[i].trustAt
    BY <1>6, <1>7 DEF Knows, Watermark
  <2>2. /\ anchors'[i].at = anchors[i].at /\ anchors'[i].leg = anchors[i].leg
        /\ anchors'[i].train = anchors[i].train /\ anchors'[i].tdAt = anchors[i].tdAt
        /\ anchors'[i].progress = anchors[i].progress /\ anchors'[i].trustAt = e.at
    BY <2>1 DEF Anchor
  <2>3. anchors'[i] # None
    <3>1. anchors'[i] \in Anchor
      BY <1>1, <2>1, AnchorUpdates
    <3>. QED  BY <3>1, NoneIsNoAnchor
  <2>4. OpenLeg(i)'
    BY <1>2, <1>6, <1>7, <2>1, <2>2 DEF Knows, OpenLeg, Recent
  <2>5. Watermark(i)'
    <3>1. anchors[i].at <= e.at
      BY <1>1, <2>1 DEF Anchor
    <3>. QED  BY <1>2, <1>6, <1>7, <2>2, <2>3, <3>1 DEF Knows, Watermark, Recent
  <2>6. Behind(i)'
    BY <1>2, <1>6, <2>1, <2>2, <2>3 DEF Knows, Behind, Recent
  <2>. QED  BY <2>4, <2>5, <2>6 DEF Knows
<1>8. ASSUME NEW leg \in {0, e.leg}, anchors'[i] = NewAnchor(e.copy.train, e.at, leg),
             e.at > Remembered[e.copy.train], old = None \/ e.at > old.trustAt,
             newest' = [newest EXCEPT ![i] = Max({@, e.at})]
      PROVE  Knows(i)'
  <2>1. newest'[i] = Max({newest[i], e.at})
    BY <1>1, <1>3, <1>8
  <2>2. /\ anchors'[i].at = e.at /\ anchors'[i].trustAt = e.at
        /\ anchors'[i].train = e.copy.train /\ anchors'[i] # None
    <3>1. leg \in Nat
      BY <1>1, <1>8 DEF Movement
    <3>2. anchors'[i] \in Anchor
      BY <1>1, <1>8, <3>1, AnchorTypes
    <3>. QED  BY <1>8, <3>2, NoneIsNoAnchor DEF NewAnchor
  <2>3. ASSUME NEW at \in Nat, Recent(at), anchors[i] # None /\ anchors[i].at >= at
        PROVE  e.at > at
    <3>1. anchors[i] # None /\ anchors[i].at \in Nat /\ anchors[i].trustAt \in Nat
          /\ anchors[i].at <= anchors[i].trustAt
      BY <1>6, <2>3 DEF Anchor, Knows, Watermark
    <3>2. Fresh(anchors[i])
      BY <1>1, <2>3, <3>1 DEF Recent, Fresh
    <3>3. old = anchors[i]
      BY <1>1, <3>2 DEF Forgotten
    <3>. QED  BY <1>1, <1>8, <2>3, <3>1, <3>3
  <2>4. newest[i] # 0 /\ Recent(newest[i]) => e.at > newest[i]
    BY <1>6, <2>3 DEF Knows, Watermark
  <2>5. OpenLeg(i)'
    <3>1. Recent(e.at) => e.at > ended[e.copy.train]
      <4>1. ended[e.copy.train] \in Nat
        BY <1>1, <1>3
      <4>2. CASE Remembered[e.copy.train] = ended[e.copy.train]
        BY <1>8, <4>2
      <4>3. CASE ~Recent(ended[e.copy.train])
        BY <1>1, <4>1, <4>3 DEF Recent
      <4>. QED  BY <1>1, <1>4, <4>2, <4>3
    <3>2. Recent(e.at) => e.at >= newest'[i]
      <4>1. CASE newest'[i] = e.at
        BY <1>1, <4>1
      <4>2. CASE newest'[i] = newest[i] /\ newest[i] > e.at
        BY <1>1, <1>6, <2>4, <4>2 DEF Recent
      <4>. QED  BY <1>1, <1>6, <2>1, <4>1, <4>2
    <3>. QED  BY <1>2, <2>2, <3>1, <3>2 DEF OpenLeg, Recent
  <2>6. Watermark(i)'
    <3>1. Recent(newest'[i]) => e.at >= newest'[i]
      <4>1. CASE newest'[i] = e.at
        BY <1>1, <4>1
      <4>2. CASE newest'[i] = newest[i] /\ newest[i] > e.at
        BY <1>1, <1>6, <2>4, <4>2 DEF Recent
      <4>. QED  BY <1>1, <1>6, <2>1, <4>1, <4>2
    <3>. QED  BY <1>1, <1>2, <2>2, <3>1 DEF Watermark, Recent
  <2>7. Behind(i)'
    <3>1. position[i] # None /\ position[i].departure # None /\ Recent(position[i].departure)
            => e.at > position[i].departure
      BY <1>6, <2>3 DEF Knows, Behind
    <3>2. position[i] # None /\ position[i].departure # None => position[i].departure \in Nat
      BY <1>6
    <3>. QED  BY <1>1, <1>2, <2>2, <3>1, <3>2 DEF Behind, Recent
  <2>. QED  BY <2>5, <2>6, <2>7 DEF Knows
<1>9. Knows(i)'
  <2>1. CASE anchors'[i] = old /\ newest' = newest
    BY <1>1, <1>5, <2>1
  <2>. QED  BY <1>0, <1>7, <1>8, <2>1, TrustEffect
<1>10. ASSUME NEW j \in Journeys \ {i}
       PROVE  Knows(j)'
  <2>1. anchors'[j] = Forgotten[j]
    BY <1>0, TrustEffect
  <2>2. newest'[j] = newest[j]
    <3>1. newest' = newest \/ newest' = [newest EXCEPT ![i] = Max({@, e.at})]
      BY <1>0, TrustEffect
    <3>. QED  BY <1>0, <1>3, <3>1
  <2>. QED  BY <1>5, <2>1, <2>2
<1>11. StillRight'
  BY <1>2 DEF StillRight
<1>. QED  BY <1>4, <1>9, <1>10, <1>11 DEF PositionInv

\* A cancellation closes the leg of the train, unless it has departed since.
LEMMA InvalidatePositions ==
  ASSUME TypeOK, PositionInv, NEW t \in Trains, InvalidateTrain(t)
  PROVE  PositionInv'
<1>1. PICK at \in Latest :
        /\ cancelled' = [cancelled EXCEPT ![t] = Max({@, at})]
        /\ anchors' = [j \in Journeys |-> Stopped(anchors[j], t, at)]
        /\ ended' = [ended EXCEPT ![t] = Max({@, at})]
  BY DEF InvalidateTrain
<1>2. /\ at \in Nat /\ now \in Nat /\ Window \in Nat
      /\ ended \in [Trains -> Nat] /\ cancelled \in [Trains -> Nat]
  BY DescriberAssumption DEF Latest, Times, TypeOK
<1>3. UNCHANGED <<now, reporting, position, newest>> /\ reporting = None
  BY DEF InvalidateTrain
<1>4. /\ Max({ended[t], at}) = IF ended[t] >= at THEN ended[t] ELSE at
      /\ Max({cancelled[t], at}) = IF cancelled[t] >= at THEN cancelled[t] ELSE at
  BY <1>2, MaxOfTwo
<1>5. ASSUME NEW u \in Trains
      PROVE  CancelRemembered(u)'
  <2>1. ended[u] \in Nat /\ cancelled[u] \in Nat /\ CancelRemembered(u)
    BY <1>2 DEF PositionInv
  <2>2. CASE u # t
    <3>1. ended'[u] = ended[u] /\ cancelled'[u] = cancelled[u]
      BY <1>1, <1>2, <2>2
    <3>. QED  BY <1>3, <2>1, <3>1 DEF CancelRemembered, Recent
  <2>3. CASE u = t
    <3>1. /\ ended'[u] = IF ended[u] >= at THEN ended[u] ELSE at
          /\ cancelled'[u] = IF cancelled[u] >= at THEN cancelled[u] ELSE at
      BY <1>1, <1>2, <1>4, <2>3
    <3>. QED  BY <1>2, <1>3, <2>1, <3>1 DEF CancelRemembered, Recent
  <2>. QED  BY <2>2, <2>3
<1>6. ASSUME NEW j \in Journeys
      PROVE  Knows(j)'
  <2>1. anchors'[j] = Stopped(anchors[j], t, at) /\ Knows(j)
    BY <1>1 DEF PositionInv
  <2>2. CASE anchors[j] = None
    <3>1. anchors'[j] = None
      BY <2>1, <2>2 DEF Stopped
    <3>. QED  BY <1>3, <2>1, <2>2, <3>1 DEF Knows, OpenLeg, Watermark, Behind, Recent
  <2>3. CASE anchors[j] # None /\ anchors[j].train = t /\ at >= anchors[j].at
    <3>1. anchors[j] \in Anchor
      BY <2>3 DEF TypeOK
    <3>2. anchors'[j] = [anchors[j] EXCEPT !.trustAt = Max({@, at}), !.leg = 0]
      BY <2>1, <2>3 DEF Stopped
    <3>3. Max({anchors[j].trustAt, at}) \in Nat /\ Max({anchors[j].trustAt, at}) >= anchors[j].trustAt
      <4>1. anchors[j].trustAt \in Nat
        BY <3>1 DEF Anchor
      <4>. QED  BY <1>2, <4>1, MaxOfTwo
    <3>4. /\ anchors'[j].leg = 0 /\ anchors'[j].at = anchors[j].at
          /\ anchors'[j].trustAt = Max({anchors[j].trustAt, at})
      BY <3>1, <3>2 DEF Anchor
    <3>5. anchors'[j] # None
      <4>1. anchors'[j] \in Anchor
        BY <3>1, <3>2, <3>3, AnchorUpdates
      <4>. QED  BY <4>1, NoneIsNoAnchor
    <3>6. anchors[j].at <= anchors'[j].trustAt
      <4>1. anchors[j].at \in Nat /\ anchors[j].trustAt \in Nat /\ anchors[j].at <= anchors[j].trustAt
        BY <2>1, <2>3, <3>1 DEF Anchor, Knows, Watermark
      <4>. QED  BY <3>3, <3>4, <4>1
    <3>. QED  BY <1>3, <2>1, <2>3, <3>4, <3>5, <3>6 DEF Knows, OpenLeg, Watermark, Behind, Recent
  <2>4. CASE anchors[j] # None /\ ~(anchors[j].train = t /\ at >= anchors[j].at)
    <3>1. anchors'[j] = anchors[j] /\ anchors[j] \in Anchor
      BY <2>1, <2>4 DEF Stopped, TypeOK
    <3>2. OpenLeg(j)'
      <4>1. anchors[j].train \in Trains /\ anchors[j].at \in Nat
        BY <3>1 DEF Anchor
      <4>2. CASE anchors[j].train # t
        <5>1. ended'[anchors[j].train] = ended[anchors[j].train]
          BY <1>1, <1>2, <4>1, <4>2
        <5>. QED  BY <1>3, <2>1, <3>1, <5>1 DEF Knows, OpenLeg, Recent
      <4>3. CASE anchors[j].train = t /\ at < anchors[j].at
        <5>1. ended'[t] = IF ended[t] >= at THEN ended[t] ELSE at
          BY <1>1, <1>2, <1>4
        <5>2. anchors[j].at > ended[t] => anchors[j].at > ended'[t]
          BY <1>2, <4>3, <5>1
        <5>. QED  BY <1>3, <2>1, <3>1, <4>3, <5>2 DEF Knows, OpenLeg, Recent
      <4>. QED  BY <1>2, <2>4, <4>1, <4>2, <4>3
    <3>. QED  BY <1>3, <2>1, <3>1, <3>2 DEF Knows, Watermark, Behind, Recent
  <2>. QED  BY <2>2, <2>3, <2>4
<1>7. StillRight'
  BY <1>3 DEF StillRight
<1>. QED  BY <1>5, <1>6, <1>7 DEF PositionInv

\* A TD message takes berths and legs away; a run that it selects has departed recently,
\* so all that is known of a recent departure is known of it.
LEMMA ProcessPositions ==
  ASSUME TypeOK, PositionInv, Process
  PROVE  PositionInv'
<1>1. PICK e \in Steps :
        /\ anchors' = Cleared(e)
        /\ \/ reporting' = None
           \/ \E j \in Journeys : Matches(j, e) /\ reporting' = [journey |-> j, event |-> e]
  BY ProcessEffect
<1>2. e \in Event /\ e.at \in Nat /\ e.at >= 1
  <2>1. e \in Event
    BY StepsAreEvents
  <2>. QED  BY <2>1 DEF Event, Times
<1>3. UNCHANGED <<now, run, mover, cancelled, position, newest, ended>>
  BY DEF Process
<1>4. \A t \in Trains : CancelRemembered(t)'
  BY <1>3 DEF PositionInv, CancelRemembered, Recent
<1>5. ASSUME NEW j \in Journeys
      PROVE  Knows(j)'
  <2>1. anchors'[j] = Cleared(e)[j] /\ Knows(j)
    BY <1>1 DEF PositionInv
  <2>2. CASE Broken(anchors[j], e)
    <3>1. anchors[j] # None /\ anchors[j] \in Anchor
      BY <2>2 DEF Broken, TypeOK
    <3>2. anchors'[j] = [anchors[j] EXCEPT !.berth = None, !.leg = 0, !.tdAt = e.at]
      BY <2>1, <2>2 DEF Cleared
    <3>3. /\ anchors'[j].leg = 0 /\ anchors'[j].at = anchors[j].at
          /\ anchors'[j].trustAt = anchors[j].trustAt
      BY <3>1, <3>2 DEF Anchor
    <3>4. anchors'[j] # None
      <4>1. anchors'[j] \in Anchor
        BY <1>2, <3>1, <3>2, AnchorUpdates
      <4>. QED  BY <4>1, NoneIsNoAnchor
    <3>. QED  BY <1>3, <2>1, <3>1, <3>3, <3>4 DEF Knows, OpenLeg, Watermark, Behind, Recent
  <2>3. CASE ~Broken(anchors[j], e)
    <3>1. anchors'[j] = anchors[j]
      BY <2>1, <2>3 DEF Cleared
    <3>. QED  BY <1>3, <2>1, <3>1 DEF Knows, OpenLeg, Watermark, Behind, Recent
  <2>. QED  BY <2>2, <2>3
<1>6. StillRight'
  <2>1. CASE reporting' = None
    BY <2>1 DEF StillRight
  <2>2. ASSUME NEW j \in Journeys, Matches(j, e), reporting' = [journey |-> j, event |-> e]
        PROVE  StillRight'
    <3>. DEFINE a == anchors[j]
                point == StepPoint(e, Path[j][a.leg])
    <3>1. /\ a # None /\ a.leg # 0 /\ Fresh(a) /\ anchors'[j] = a
          /\ IsMapped(e) => Advances(j, a, e)
      BY <1>1, <2>2, SelectedRun
    <3>2. a \in Anchor /\ a.at \in Nat /\ a.progress \in Nat /\ a.leg \in LegOf(j) /\ Knows(j)
      <4>1. a \in Anchor /\ a.leg \in LegOf(j)
        BY <3>1 DEF TypeOK
      <4>. QED  BY <4>1 DEF Anchor, PositionInv
    <3>3. Recent(a.at)
      BY <3>1, <3>2, FreshIsRecent DEF Fresh
    <3>4. a.at > ended[a.train] /\ a.at >= newest[j]
      BY <3>1, <3>2, <3>3 DEF Knows, OpenLeg
    <3>5. ASSUME IsMapped(e), position[j] # None, position[j].departure = a.at
          PROVE  point > position[j].progress
      <4>1. a.tdAt # 0 /\ a.progress >= position[j].progress
        <5>1. position[j].departure # None
          BY <3>2, <3>5, DescriberAssumption
        <5>. QED  BY <3>1, <3>2, <3>3, <3>5, <5>1 DEF Knows, Behind
      <4>2. point # None /\ point > a.progress
        BY <3>1, <3>5, <4>1 DEF Advances
      <4>3. point \in Nat
        <5>1. {e.from, e.to} \subseteq Berths
          BY <3>5, StepsAreEvents DEF IsMapped
        <5>2. Path[j][a.leg] \in Legs
          BY <3>1, <3>2, LegOfPath
        <5>. QED  BY <1>2, <4>2, <5>1, <5>2, StepPointType
      <4>4. position[j].progress \in Nat
        BY <3>5 DEF TypeOK, Position
      <4>. QED  BY <3>2, <4>1, <4>2, <4>3, <4>4
    <3>6. IsMapped(e) /\ position'[j] # None /\ position'[j].departure = anchors'[j].at
            => StepPoint(e, Path[j][anchors'[j].leg]) > position'[j].progress
      BY <1>3, <3>1, <3>5
    <3>7. anchors'[j].at > ended'[anchors'[j].train] /\ anchors'[j].at >= newest'[j]
      BY <1>3, <3>1, <3>4
    <3>. QED  BY <2>2, <3>6, <3>7 DEF StillRight, IsMapped, StepPoint, OnSomeLeg
  <2>. QED  BY <1>1, <2>1, <2>2
<1>. QED  BY <1>4, <1>5, <1>6 DEF PositionInv

\* The answer to a step: the anchor and the position move on together.
LEMMA ReportPositions ==
  ASSUME TypeOK, PositionInv, Report
  PROVE  PositionInv'
<1>0. PICK j \in Journeys, e \in Event : j = reporting.journey /\ e = reporting.event
  BY ReportEffect
<1>. DEFINE a == anchors[j]
            progress == IF IsMapped(e) THEN StepPoint(e, Path[j][a.leg]) ELSE a.progress
            leg == IF e.kind = "CB" THEN 0 ELSE a.leg
            observation == [at |-> e.at, train |-> a.train, departure |-> a.at, progress |-> progress]
            moved == [a EXCEPT !.tdAt = e.at, !.progress = progress, !.berth = e.to, !.leg = leg]
<1>1. /\ a \in Anchor /\ a # None /\ a.leg # 0 /\ progress \in Nat /\ leg \in {0, a.leg}
      /\ observation \in Position
      /\ \/ UNCHANGED <<anchors, position>>
         \/ /\ anchors' = [anchors EXCEPT ![j] = moved]
            /\ position' = IF IsMapped(e) THEN Observed(j, observation) ELSE position
  BY <1>0, ReportEffect
<1>2. reporting # None /\ reporting' = None /\ UNCHANGED <<now, cancelled, newest, ended>>
  BY DEF Report, history
<1>3. /\ a.at > ended[a.train] /\ a.at >= newest[j]
      /\ IsMapped(e) /\ position[j] # None /\ position[j].departure = a.at
           => progress > position[j].progress
  BY <1>0, <1>2 DEF PositionInv, StillRight
<1>4. \A t \in Trains : CancelRemembered(t)'
  BY <1>2 DEF PositionInv, CancelRemembered, Recent
<1>5. CASE UNCHANGED <<anchors, position>>
  <2>1. \A i \in Journeys : Knows(i)'
    BY <1>2, <1>5 DEF PositionInv, Knows, OpenLeg, Watermark, Behind, Recent
  <2>. QED  BY <1>2, <1>4, <2>1 DEF PositionInv, StillRight
<1>6. CASE /\ anchors' = [anchors EXCEPT ![j] = moved]
           /\ position' = IF IsMapped(e) THEN Observed(j, observation) ELSE position
  <2>1. /\ anchors'[j] = moved /\ \A i \in Journeys \ {j} : anchors'[i] = anchors[i]
    BY <1>6 DEF TypeOK
  <2>2. /\ position'[j] \in {position[j], observation}
        /\ position'[j] = observation \/ position'[j] = position[j]
        /\ ~IsMapped(e) => position'[j] = position[j]
        /\ \A i \in Journeys \ {j} : position'[i] = position[i]
    BY <1>1, <1>6, ObservedType
  <2>3. /\ moved.at = a.at /\ moved.trustAt = a.trustAt /\ moved.train = a.train
        /\ moved.leg = leg /\ moved.tdAt = e.at /\ moved.progress = progress
    BY <1>1 DEF Anchor
  <2>4. moved # None
    <3>1. e.at \in Nat /\ e.to \in Berths \cup {None} /\ leg \in Nat
      BY <1>1 DEF Event, Times, Anchor
    <3>2. moved \in Anchor
      BY <1>1, <3>1, AnchorUpdates
    <3>. QED  BY <3>2, NoneIsNoAnchor
  <2>5. e.at # 0
    BY DEF Event, Times
  <2>. HIDE DEF moved
  <2>6. \A i \in Journeys \ {j} : Knows(i)'
    BY <1>2, <2>1, <2>2 DEF PositionInv, Knows, OpenLeg, Watermark, Behind, Recent
  <2>7. Knows(j) /\ a.at \in Nat /\ a.progress \in Nat
    BY <1>1 DEF PositionInv, Anchor
  <2>8. OpenLeg(j)'
    BY <1>2, <1>3, <2>1, <2>3 DEF OpenLeg
  <2>9. Watermark(j)'
    BY <1>1, <1>2, <2>1, <2>3, <2>4, <2>7 DEF Knows, Watermark, Recent
  <2>10. Behind(j)'
    <3>1. CASE position'[j] = observation
      <4>1. position'[j].departure = a.at /\ position'[j].progress = progress
        BY <3>1
      <4>. QED  BY <1>1, <2>1, <2>3, <2>4, <2>5, <2>7, <4>1 DEF Behind
    <3>2. CASE position'[j] = position[j]
      <4>1. ASSUME position[j] # None, position[j].departure = a.at, Recent(a.at)
            PROVE  progress >= position[j].progress
        <5>1. position[j].progress \in Nat /\ position[j].departure # None
          BY <2>7, <4>1, DescriberAssumption DEF TypeOK, Position
        <5>2. CASE IsMapped(e)
          BY <1>1, <1>3, <4>1, <5>1, <5>2
        <5>3. CASE ~IsMapped(e)
          <6>1. progress = a.progress
            BY <5>3
          <6>2. a.progress >= position[j].progress
            BY <1>1, <2>7, <4>1, <5>1 DEF Knows, Behind
          <6>. QED  BY <6>1, <6>2
        <5>. QED  BY <5>2, <5>3
      <4>. HIDE DEF progress, leg
      <4>. QED  BY <1>1, <1>2, <2>1, <2>3, <2>4, <2>5, <2>7, <3>2, <4>1 DEF Knows, Behind, Recent
    <3>. QED  BY <2>2, <3>1, <3>2
  <2>. QED  BY <1>2, <1>4, <2>6, <2>8, <2>9, <2>10 DEF PositionInv, Knows, StillRight
<1>. QED  BY <1>1, <1>5, <1>6

LEMMA PositionStep == TypeOK /\ PositionInv /\ [Next]_vars => PositionInv'
<1>. SUFFICES ASSUME TypeOK, PositionInv, [Next]_vars
              PROVE  PositionInv'
  OBVIOUS
<1>1. now \in Nat /\ TypeOK'
  BY TypeStep DEF TypeOK
<1>2. ASSUME UNCHANGED <<now, tracker, position, history>>
      PROVE  PositionInv'
  BY <1>1, <1>2, PositionFrame
<1>3. ASSUME NEW j \in Journeys,
             Reinstate(j) \/ CancelRun(j) \/ RunExpires(j) \/ \E t \in Trains : Activate(j, t)
      PROVE  PositionInv'
  BY <1>2, <1>3 DEF Reinstate, CancelRun, RunExpires, Activate
<1>4. ASSUME NEW m \in Movers, FindRun(m) \/ FindRunUnlocated(m) \/ SaveRun(m)
      PROVE  PositionInv'
  BY <1>2, <1>4 DEF FindRun, FindRunUnlocated, SaveRun
<1>5. ASSUME NEW m \in Movers, Trust(m)
      PROVE  PositionInv'
  BY <1>5, TrustPositions
<1>6. ASSUME NEW m \in Movers, RecordTrust(m)
      PROVE  PositionInv'
  <2>1. UNCHANGED <<now, tracker, history>>
    BY <1>6 DEF RecordTrust
  <2>2. \A j \in Journeys : position'[j] = position[j] \/ position'[j].departure = None
    BY <1>6, RecordTypes
  <2>. QED  BY <1>1, <2>1, <2>2, PositionFrame
<1>7. ASSUME NEW t \in Trains, InvalidateTrain(t)
      PROVE  PositionInv'
  BY <1>7, InvalidatePositions
<1>8. CASE Process
  BY <1>8, ProcessPositions
<1>9. CASE Report
  BY <1>9, ReportPositions
<1>10. CASE Tick
  <2>1. UNCHANGED <<tracker, position, history>> /\ now' = now + 1
    BY <1>10 DEF Tick
  <2>. QED  BY <1>1, <2>1, PositionFrame
<1>11. CASE UNCHANGED vars
  BY <1>2, <1>11 DEF vars
<1>. QED  BY <1>3, <1>4, <1>5, <1>6, <1>7, <1>8, <1>9, <1>10, <1>11 DEF Next

\* Only the answer to a selected step puts a train where TD has seen it, and what it
\* needs for that is true of the selected run.
LEMMA MovesInOrder ==
  ASSUME TypeOK, PositionInv, [Next]_vars, NEW j \in Journeys, MovedByTD(j)
  PROVE  /\ position'[j].departure > ended[position'[j].train]
         /\ position'[j].departure >= newest[j]
         /\ position[j] # None /\ position[j].departure = position'[j].departure
              => position'[j].progress > position[j].progress
<1>1. position'[j] # position[j] /\ position'[j].departure # None
  BY DEF MovedByTD
<1>2. Report
  <2>1. \A i \in Journeys : ~(Reinstate(i) \/ CancelRun(i) \/ RunExpires(i))
        /\ \A t \in Trains : ~Activate(i, t)
    BY <1>1 DEF Reinstate, CancelRun, RunExpires, Activate
  <2>2. \A m \in Movers : ~(FindRun(m) \/ FindRunUnlocated(m) \/ SaveRun(m) \/ Trust(m))
    BY <1>1 DEF FindRun, FindRunUnlocated, SaveRun, Trust
  <2>3. \A m \in Movers : ~RecordTrust(m)
    BY <1>1, RecordTypes
  <2>4. ~(Process \/ Tick \/ UNCHANGED vars) /\ \A t \in Trains : ~InvalidateTrain(t)
    BY <1>1 DEF Process, Tick, vars, InvalidateTrain
  <2>. QED  BY <2>1, <2>2, <2>3, <2>4 DEF Next
<1>. DEFINE e == reporting.event
            a == anchors[j]
            progress == IF IsMapped(e) THEN StepPoint(e, Path[j][a.leg]) ELSE a.progress
            observation == [at |-> e.at, train |-> a.train, departure |-> a.at, progress |-> progress]
<1>3. j = reporting.journey /\ IsMapped(e) /\ position'[j] = observation
  <2>1. PICK i \in Journeys : i = reporting.journey
    BY <1>2, ReportEffect
  <2>. DEFINE b == anchors[i]
              seen == [at |-> e.at, train |-> b.train, departure |-> b.at,
                       progress |-> IF IsMapped(e) THEN StepPoint(e, Path[i][b.leg]) ELSE b.progress]
  <2>2. /\ seen \in Position
        /\ \/ position' = position
           \/ position' = IF IsMapped(e) THEN Observed(i, seen) ELSE position
    BY <1>2, <2>1, ReportEffect
  <2>3. IsMapped(e) /\ position' = Observed(i, seen)
    BY <1>1, <2>2
  <2>4. i = j /\ Observed(i, seen)[j] = seen
    BY <1>1, <2>2, <2>3, ObservedType
  <2>. QED  BY <2>1, <2>3, <2>4
<1>4. reporting # None
  BY <1>2 DEF Report
<1>5. /\ a.at > ended[a.train] /\ a.at >= newest[j]
      /\ position[j] # None /\ position[j].departure = a.at => progress > position[j].progress
  BY <1>3, <1>4 DEF PositionInv, StillRight
<1>. QED  BY <1>3, <1>5

\* No TD step positions a train that was cancelled and has not departed since, or whose
\* journey has had a later report; and the positions that follow one departure go
\* forward: for every number of journeys, trains and goroutines, every window and delay,
\* however reports and cancellations are overtaken by each other and by TD messages.
THEOREM PositionsFollowReports == Spec => PositionsInOrder
<1>1. Init => PositionInv
  <2>. SUFFICES ASSUME Init PROVE PositionInv
    OBVIOUS
  <2>. QED  BY DEF Init, PositionInv, CancelRemembered, Knows, OpenLeg, Watermark, Behind, StillRight
<1>2. TypeOK /\ PositionInv /\ [Next]_vars
        => [\A j \in Journeys : MovedByTD(j) => position'[j].departure > ended[position'[j].train]]_vars
  BY MovesInOrder
<1>3. TypeOK /\ PositionInv /\ [Next]_vars
        => [\A j \in Journeys : MovedByTD(j) => position'[j].departure >= newest[j]]_vars
  BY MovesInOrder
<1>4. TypeOK /\ PositionInv /\ [Next]_vars
        => [\A j \in Journeys :
              MovedByTD(j) /\ position[j] # None /\ position[j].departure = position'[j].departure
                /\ position[j].train = position'[j].train
                => position'[j].progress > position[j].progress]_vars
  BY MovesInOrder
<1>5. Spec => [](TypeOK /\ PositionInv)
  BY <1>1, PositionStep, TypeCorrect, PTL DEF Spec
<1>6. Spec => NotAfterCancellation
  BY <1>2, <1>5, PTL DEF Spec, NotAfterCancellation
<1>7. Spec => FollowsLastReport
  BY <1>3, <1>5, PTL DEF Spec, FollowsLastReport
<1>8. Spec => Forward
  BY <1>4, <1>5, PTL DEF Spec, Forward
<1>. QED  BY <1>6, <1>7, <1>8 DEF PositionsInOrder

=============================================================================
