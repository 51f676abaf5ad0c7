---------------------------- MODULE MCBatchRunner ----------------------------
(* Instances of BatchRunner for TLC: a first stage of parallel dataset imports *)
(* and a fixed task after it, as every plan has them, and the fault budgets.   *)
EXTENDS BatchRunner

CONSTANTS r1, r2

OneRun  == {r1}
TwoRuns == {r1, r2}

ThreeTasks == 1..3
TwoThenOne == [t \in ThreeTasks |-> IF t <= 2 THEN 1 ELSE 2]
TwoTasks   == 1..2
OneThenOne == [t \in TwoTasks |-> t]
OneTask    == {1}
OneStage   == [t \in OneTask |-> 1]

OneCrash     == [crash |-> 1, api |-> 0, save |-> 0]
AllFaults    == [crash |-> 1, api |-> 1, save |-> 1]
=============================================================================
