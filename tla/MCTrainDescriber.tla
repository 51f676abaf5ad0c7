--------------------------- MODULE MCTrainDescriber ---------------------------
(* Two journeys with the same headcode, three berths along the leg they share.
   A train has the name of the journey it runs.                                 *)
EXTENDS TrainDescriber, TLC

CONSTANTS j1, j2, ba, bb, bc, code

TwoJourneys == {j1, j2}
ThreeBerths == {ba, bb, bc}
OneLeg      == {1}
Starts      == [l \in OneLeg |-> l]
SamePath    == [j \in TwoJourneys |-> <<1>>]
SameCode    == [t \in TwoJourneys |-> code]
Codes       == {code}
OneEach     == [j \in TwoJourneys |-> {j}]
FewMessages == [all |-> 4, change |-> 1, trust |-> 2, td |-> 2]
\* The two runs are alike.
Alike       == Permutations(TwoJourneys)

\* Steps on, back and round, a step without a headcode, a cancel and an interpose.
Line        == {[kind |-> "CA", from |-> s[1], to |-> s[2], code |-> code] :
                  s \in {<<ba, bb>>, <<bb, bc>>, <<bb, ba>>}}
               \cup {[kind |-> "CA", from |-> bb, to |-> bc, code |-> None],
                     [kind |-> "CB", from |-> bb, to |-> None, code |-> code],
                     [kind |-> "CC", from |-> None, to |-> bb, code |-> code]}

\* Berths ba and bb are mapped, bb to bc is a SMART step.
NoTransition == [s \in ThreeBerths \X ThreeBerths |-> [l \in OneLeg |-> None]]
TwoPoints    == [x \in ThreeBerths |-> [l \in OneLeg |-> IF x = ba THEN 1 ELSE IF x = bb THEN 2 ELSE None]]
SmartStep    == [s \in ThreeBerths \X ThreeBerths |-> [l \in OneLeg |-> IF s = <<bb, bc>> THEN 3 ELSE None]]
=============================================================================
