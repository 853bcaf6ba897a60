---------------------------- MODULE MCCoreTasks ----------------------------
(* Instances of CoreTasks for TLC.                                         *)
EXTENDS CoreTasks, TLC

CONSTANTS a1, a2, m1, m2, r1, r2, p1, p2

TwoAndOne(a) == IF a = a1 THEN {r1, r2} ELSE {r1}

Settings == {[single |-> FALSE, threads |-> 1, losses |-> 1], [single |-> TRUE, threads |-> 2, losses |-> 0]}
=============================================================================
