--------------------------- MODULE MCNativeRunner ---------------------------
(* Instances of the native runner for TLC. *)
EXTENDS NativeRunner, TLC

CONSTANTS n1, n2, j1, j2, t1, t2, t3

Units(cpu, ram, disk) == [k \in Resource |->
    IF k = "cpu" THEN cpu ELSE IF k = "ram" THEN ram ELSE disk]

Conf(amount, jobs, tasks) ==
    [available |-> amount, jobsAllowed |-> jobs, tasksAllowed |-> tasks]

(* The tasks of j1 and those of j2 do not fit next to both jobs. *)
AllLimits == (j1 :> Units(2, 1, 1)) @@ (j2 :> Units(1, 1, 1))
             @@ (t1 :> Units(1, 1, 0)) @@ (t2 :> Units(2, 1, 0)) @@ (t3 :> Units(1, 2, 1))

MCLimits == [i \in Id |-> AllLimits[i]]

MCTaskLimits == (j1 :> Units(2, 1, 1)) @@ (j2 :> Units(3, 2, 1))

MCJobId == [t \in Task |-> IF t = t3 THEN j2 ELSE j1]

MCPriority == [i \in Id |-> IF i = j2 THEN 2 ELSE IF i \in {j1, t3} THEN 1 ELSE 0]

(* A node of the size of a workstation, and the same when its user reduces *)
(* it and takes it away from tasks.                                        *)
Whole == Conf(Units(4, 4, 3), TRUE, TRUE)

Reduced == Conf(Units(3, 3, 1), TRUE, FALSE)

MCStatic == {Whole}

MCShrinking == {Whole, Reduced}
=============================================================================
