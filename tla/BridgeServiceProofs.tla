------------------------ MODULE BridgeServiceProofs ------------------------
(***************************************************************************)
(* Proofs about the service part of Bridge, for every finite set of tasks, *)
(* any number of processes and every set of requests (some of them, as     *)
(* stated, for the requests of an undisturbed decision only).              *)
(***************************************************************************)
EXTENDS BridgeService, FiniteSetTheorems, TLAPS

(* A row of the decision whose counters have not become negative. *)
Row ==
    [status : DecisionStatus, tasks : [TaskStatus -> Nat], total : Nat, solutions : Nat]

LockedRequest ==
    [at : {"task", "decision"}, task : Task \cup {Absent}, new : TaskStatus, row : Row]

SolutionRequest == [at : {"insert", "save"}, status : DecisionStatus, solutions : Nat]

FinishRequest == [at : {"remove", "save"}, old : DecisionStatus, row : Row]

(* The types with everything that is in flight included: a row that is     *)
(* held by a request is as good as the one in the table.                   *)
TypeInv ==
    /\ decision \in Row
    /\ task \in [Task -> TaskStatus \cup {Absent}]
    /\ solution \subseteq {t \in Task : task[t] # Absent}
    /\ scheduler \in {"HEALTHY", "DISCONNECTED"}
    /\ lreq \in {NoRequest} \cup LockedRequest
    /\ lreq.at = "task" => lreq.task \in Task
    /\ sreq \in [Task -> {NoRequest} \cup SolutionRequest]
    /\ freq \in [Finisher -> {NoRequest} \cup FinishRequest]
    /\ stopping \in BOOLEAN /\ restarting \in BOOLEAN
    /\ used \subseteq Task /\ breaks \in 0..MaxBreaks

(* A task that is being written is live or has just been deleted, and only *)
(* a new one is written as pending.                                        *)
WriteInv ==
    /\ \A t \in Task : t \notin used => task[t] = Absent
    /\ lreq.at = "task" =>
          /\ lreq.task \in used
          /\ task[lreq.task] \in Live \cup {Absent}
          /\ lreq.new = "PENDING" => task[lreq.task] = Absent

-----------------------------------------------------------------------------

(* The inductive form of the types implies the invariant of the runs. *)
LEMMA TypeInvImpliesTypeOK == TypeInv => TypeOK
<1> SUFFICES ASSUME TypeInv PROVE TypeOK
  BY Zenon
<1>1. Row \subseteq Decision /\ \A r \in Row : \A s \in TaskStatus : r.tasks[s] >= 0
  BY DEF Row, Decision
<1>2. lreq = NoRequest \/
      lreq \in [at : {"task", "decision"}, task : Task \cup {Absent}, new : TaskStatus, row : Decision]
  BY Zenon, <1>1 DEF TypeInv, LockedRequest
<1>3. \A t \in Task : sreq[t] = NoRequest \/
      sreq[t] \in [at : {"insert", "save"}, status : DecisionStatus, solutions : Nat]
  BY Zenon DEF TypeInv, SolutionRequest
<1>4. \A f \in Finisher : freq[f] = NoRequest \/
      freq[f] \in [at : {"remove", "save"}, old : DecisionStatus, row : Decision]
  BY Zenon, <1>1 DEF TypeInv, FinishRequest
<1> QED
  BY Zenon, <1>1, <1>2, <1>3, <1>4 DEF TypeInv, TypeOK

(* The tasks of a decision can be counted. *)
LEMMA HavingCounted ==
  ASSUME NEW statuses
  PROVE  Cardinality(Having(statuses)) \in Nat
<1>1. IsFiniteSet(Having(statuses))
  BY Zenon, ServiceConstants, FS_Subset DEF Having
<1> QED
  BY Zenon, <1>1, FS_CardinalityType

(* update_decision() keeps the counters from becoming negative. *)
LEMMA UpdateDecisionType ==
  ASSUME NEW row \in Row, NEW new \in TaskStatus, NEW old \in TaskStatus \cup {Absent}
  PROVE  UpdateDecision(row, new, old) \in Row
<1> DEFINE less  == IF old = Absent THEN row.tasks
                   ELSE [row.tasks EXCEPT ![old] = IF @ > 0 THEN @ - 1 ELSE 0]
           moved == [less EXCEPT ![new] = @ + 1]
<1>1. less \in [TaskStatus -> Nat]
  BY DEF Row
<1>2. moved \in [TaskStatus -> Nat]
  <2> HIDE DEF less
  <2> QED BY <1>1
<1> DEFINE total == IF old = Absent THEN row.total + 1 ELSE row.total
<1>3. total \in Nat
  BY DEF Row
<1>4. UpdateDecision(row, new, old) = [row EXCEPT !.total = total, !.tasks = moved]
  BY Zenon DEF UpdateDecision
<1> HIDE DEF moved, total
<1> QED
  BY Zenon, <1>2, <1>3, <1>4 DEF Row

(* Moving the unfinished tasks of a decision to another counter leaves     *)
(* natural numbers.                                                        *)
LEMMA MoveUnfinishedType ==
  ASSUME NEW tasks \in [TaskStatus -> Nat], NEW new
  PROVE  MoveUnfinished(tasks, new) \in [TaskStatus -> Nat]
  BY HavingCounted DEF MoveUnfinished

(* A decision starts with a row of the right type. *)
LEMMA NewDecisionType == NewDecision \in Row
  BY Zenon DEF NewDecision, Row, DecisionStatus, TaskStatus

(* A worker without a request is nowhere in a handler. *)
LEMMA NoRequestAt == NoRequest.at = "none"
  BY Zenon DEF NoRequest

(* The types hold at the start. *)
LEMMA TypeInit == Init => TypeInv
<1> SUFFICES ASSUME Init PROVE TypeInv
  BY Zenon
<1>1. /\ task \in [Task -> TaskStatus \cup {Absent}]
      /\ sreq \in [Task -> {NoRequest} \cup SolutionRequest]
      /\ freq \in [Finisher -> {NoRequest} \cup FinishRequest]
  BY Zenon DEF Init
<1>2. breaks \in 0..MaxBreaks
  BY ServiceConstants DEF Init
<1> QED
  BY Zenon, <1>1, <1>2, NewDecisionType, NoRequestAt DEF Init, TypeInv

(* Every handler keeps the types. *)
LEMMA TypeStep == TypeInv /\ [Next]_vars => TypeInv'
<1> SUFFICES ASSUME TypeInv, [Next]_vars PROVE TypeInv'
  BY Zenon
<1> USE ServiceConstants, NoRequestAt, NewDecisionType DEF TypeInv, rows, history
<1>1. CASE Start
  <2>1. [decision EXCEPT !.status = "PROCESSING"] \in Row
    BY Zenon DEF Row, DecisionStatus
  <2> QED
    BY Zenon, <1>1, <2>1 DEF Start
<1>2. ASSUME NEW t \in Task, CreateRead(t) PROVE TypeInv'
  <2>1. UpdateDecision(decision, "PENDING", Absent) \in Row
    BY Zenon, UpdateDecisionType DEF TaskStatus, Live
  <2>2. lreq' \in LockedRequest /\ lreq'.at = "task" /\ lreq'.task \in Task
    BY Zenon, <1>2, <2>1 DEF CreateRead, Lock, LockedRequest, TaskStatus, Live
  <2> QED
    BY Zenon, <1>2, <2>2 DEF CreateRead
<1>3. ASSUME NEW t \in Task, NEW new \in TaskStatus, UpdateRead(t, new) PROVE TypeInv'
  <2>1. UpdateDecision(decision, new, task[t]) \in Row
    BY Zenon, UpdateDecisionType
  <2>2. lreq' \in LockedRequest /\ lreq'.at = "task" /\ lreq'.task \in Task
    BY Zenon, <1>3, <2>1 DEF UpdateRead, Lock, LockedRequest
  <2> QED
    BY Zenon, <1>3, <2>2 DEF UpdateRead
<1>4. ASSUME NEW t \in Task, Destroy(t) PROVE TypeInv'
  BY Zenon, <1>4 DEF Destroy, DeleteTasks
<1>5. ASSUME NEW t \in Task, SolutionRead(t) PROVE TypeInv'
  <2>1. [at |-> "insert", status |-> decision.status, solutions |-> 0] \in SolutionRequest
    BY Zenon DEF Row, SolutionRequest
  <2> QED
    BY Zenon, <1>5, <2>1 DEF SolutionRead
<1>6. ASSUME NEW t \in Task, InsertSolution(t) PROVE TypeInv'
  <2>1. sreq[t] \in SolutionRequest /\ decision.solutions \in Nat
    BY Zenon, <1>6 DEF InsertSolution, Row
  <2> DEFINE n == decision.solutions + 1
  <2>2. [sreq[t] EXCEPT !.at = "save", !.solutions = n] \in SolutionRequest
    <3>1. n \in Nat
      BY <2>1
    <3> HIDE DEF n, TypeInv
    <3> QED
      BY Zenon, <2>1, <3>1 DEF SolutionRequest
  <2>3. sreq' \in [Task -> {NoRequest} \cup SolutionRequest]
    BY Zenon, <1>6, <2>2 DEF InsertSolution
  <2> QED
    BY Zenon, <1>6, <2>3 DEF InsertSolution
<1>7. ASSUME NEW t \in Task, SaveSolution(t) PROVE TypeInv'
  <2>1. sreq[t] \in SolutionRequest
    BY Zenon, <1>7 DEF SaveSolution
  <2>2. [decision EXCEPT !.status = sreq[t].status, !.solutions = sreq[t].solutions] \in Row
    BY Zenon, <2>1 DEF SolutionRequest, Row
  <2> QED
    BY Zenon, <1>7, <2>2 DEF SaveSolution
<1>8. CASE ProgressRead
  <2>1. lreq' \in LockedRequest /\ lreq'.at = "decision"
    BY Zenon, <1>8 DEF ProgressRead, Lock, LockedRequest, TaskStatus, Live
  <2> QED
    BY Zenon, <1>8, <2>1 DEF ProgressRead
<1>9. CASE DisconnectRead
  <2>1. MoveUnfinished(decision.tasks, "ERROR") \in [TaskStatus -> Nat]
    BY Zenon, MoveUnfinishedType DEF Row
  <2> DEFINE counted == [decision EXCEPT !.tasks = MoveUnfinished(@, "ERROR"),
                                         !.status = IF KleverType THEN "TERMINATED" ELSE @]
  <2>2. counted \in Row
    BY Zenon, <2>1 DEF Row, DecisionStatus, Finished
  <2>3. lreq' = [at |-> "decision", task |-> Absent, new |-> "ERROR", row |-> counted]
    BY Zenon, <1>9 DEF DisconnectRead, Lock
  <2> HIDE DEF counted
  <2>4. lreq' \in LockedRequest /\ lreq'.at = "decision"
    BY Zenon, <2>2, <2>3 DEF LockedRequest, TaskStatus, Final
  <2> QED
    BY <1>9, <2>4 DEF DisconnectRead, Break
<1>10. CASE DisconnectIdle
  BY <1>10 DEF DisconnectIdle, Break
<1>11. CASE Reconnect
  BY Zenon, <1>11 DEF Reconnect
<1>12. CASE SaveTask
  <2>1. lreq \in LockedRequest /\ lreq.task \in Task
    BY Zenon, <1>12 DEF SaveTask
  <2>2. lreq' \in LockedRequest /\ lreq'.at = "decision"
    BY Zenon, <1>12, <2>1 DEF SaveTask, LockedRequest
  <2>3. /\ task' \in [Task -> TaskStatus \cup {Absent}]
        /\ \A t \in Task : task[t] # Absent => task'[t] # Absent
    BY Zenon, <1>12, <2>1 DEF SaveTask, LockedRequest, TaskStatus, Live, Final, Absent
  <2> QED
    BY Zenon, <1>12, <2>2, <2>3 DEF SaveTask
<1>13. CASE SaveDecision
  <2>1. lreq \in LockedRequest
    BY Zenon, <1>13 DEF SaveDecision
  <2> QED
    BY Zenon, <1>13, <2>1 DEF SaveDecision, LockedRequest
<1>14. ASSUME NEW f \in Finisher, NEW want \in {"solved", "failed", "corrupted"}, FinishRead(f, want)
       PROVE  TypeInv'
  <2>1. PICK status \in GetStatus(want, decision.status) :
           freq' = [freq EXCEPT ![f] = [at |-> "remove", old |-> decision.status,
                                        row |-> [decision EXCEPT !.status = status]]]
    BY Zenon, <1>14 DEF FinishRead
  <2>2. status \in DecisionStatus
    BY Zenon DEF GetStatus, DecisionStatus, Finished
  <2>3. [at |-> "remove", old |-> decision.status, row |-> [decision EXCEPT !.status = status]]
           \in FinishRequest
    BY Zenon, <2>2 DEF FinishRequest, Row
  <2> QED
    BY Zenon, <1>14, <2>1, <2>3 DEF FinishRead
<1>15. ASSUME NEW f \in Finisher, CancelledRead(f) PROVE TypeInv'
  <2>1. [at |-> "save", old |-> decision.status, row |-> [decision EXCEPT !.status = "CANCELLED"]]
           \in FinishRequest
    BY Zenon DEF FinishRequest, Row, DecisionStatus, Finished
  <2> QED
    BY Zenon, <1>15, <2>1 DEF CancelledRead
<1>16. ASSUME NEW f \in Finisher, RenameRead(f) PROVE TypeInv'
  <2>1. [at |-> "save", old |-> decision.status, row |-> decision] \in FinishRequest
    BY Zenon DEF FinishRequest, Row
  <2>2. freq' \in [Finisher -> {NoRequest} \cup FinishRequest]
    BY Zenon, <1>16, <2>1 DEF RenameRead
  <2> QED
    BY <1>16, <2>2 DEF RenameRead, Break
<1>17. ASSUME NEW f \in Finisher, RemoveTasks(f) PROVE TypeInv'
  <2>1. freq[f] \in FinishRequest
    BY Zenon, <1>17 DEF RemoveTasks
  <2>2. PICK status \in DecisionStatus :
           freq' = [freq EXCEPT ![f].at = "save", ![f].row.status = status]
    BY Zenon, <1>17, <2>1 DEF RemoveTasks, FinishRequest, Row, DecisionStatus, Finished
  <2>3. [freq[f] EXCEPT !.at = "save", !.row.status = status] \in FinishRequest
    BY Zenon, <2>1 DEF FinishRequest, Row
  <2>4. freq' \in [Finisher -> {NoRequest} \cup FinishRequest]
    BY Zenon, <2>2, <2>3
  <2> QED
    BY Zenon, <1>17, <2>4 DEF RemoveTasks, DeleteTasks
<1>18. ASSUME NEW f \in Finisher, SaveFinish(f) PROVE TypeInv'
  <2>1. freq[f] \in FinishRequest
    BY Zenon, <1>18 DEF SaveFinish
  <2> QED
    BY Zenon, <1>18, <2>1 DEF SaveFinish, FinishRequest
<1>19. CASE Stop
  <2>1. MoveUnfinished(decision.tasks, "CANCELLED") \in [TaskStatus -> Nat]
    BY Zenon, MoveUnfinishedType DEF Row
  <2>2. decision' \in Row
    BY Zenon, <1>19, <2>1 DEF Stop, Row, DecisionStatus
  <2> QED
    BY <1>19, <2>2 DEF Stop, Break
<1>20. CASE StopDelete
  BY Zenon, <1>20 DEF StopDelete, DeleteTasks
<1>21. CASE Restart
  BY <1>21 DEF Restart, DeleteTasks, Break
<1>22. CASE RestartSave
  BY Zenon, <1>22 DEF RestartSave
<1>23. CASE UNCHANGED vars
  BY Zenon, <1>23 DEF vars
<1> QED
  BY Zenon, <1>1, <1>2, <1>3, <1>4, <1>5, <1>6, <1>7, <1>8, <1>9, <1>10, <1>11, <1>12, <1>13, <1>14,
     <1>15, <1>16, <1>17, <1>18, <1>19, <1>20, <1>21, <1>22, <1>23 DEF Next

(* Whatever requests interleave, every row keeps its type, no counter of   *)
(* tasks becomes negative although requests write back counters that they  *)
(* have read before (update_decision), and only existing tasks have        *)
(* solutions.                                                              *)
THEOREM ServiceTypeCorrect == Spec => []TypeOK
  BY TypeInit, TypeStep, TypeInvImpliesTypeOK, PTL DEF Spec

-----------------------------------------------------------------------------
(* What a step does to the rows of tasks: it leaves them alone, deletes    *)
(* some, or saves the one that the locked request holds.                   *)
LEMMA TaskStep ==
  ASSUME TypeInv, [Next]_vars
  PROVE  \/ UNCHANGED task
         \/ \E ts \in SUBSET Task : task' = [t \in Task |-> IF t \in ts THEN Absent ELSE task[t]]
         \/ SaveTask
  BY ZenonT(30) DEF Next, vars, rows, Start, CreateRead, UpdateRead, Destroy, SolutionRead, InsertSolution, SaveSolution,
         ProgressRead, DisconnectRead, DisconnectIdle, Reconnect, SaveDecision, FinishRead, CancelledRead,
         RenameRead, RemoveTasks, SaveFinish, Stop, StopDelete, Restart, RestartSave, DeleteTasks

(* What a step does to the locked request. *)
LEMMA LockStep ==
  ASSUME TypeInv, [Next]_vars
  PROVE  \/ UNCHANGED <<lreq, used>>
         \/ \E t \in Task : CreateRead(t)
         \/ \E t \in Task, new \in TaskStatus : UpdateRead(t, new)
         \/ lreq'.at # "task" /\ UNCHANGED used
<1> USE NoRequestAt DEF history
<1>1. CASE ProgressRead
  BY Zenon, <1>1 DEF ProgressRead, Lock
<1>2. CASE DisconnectRead
  BY Zenon, <1>2 DEF DisconnectRead, Lock
<1>3. CASE SaveDecision
  BY Zenon, <1>3 DEF SaveDecision
<1>4. CASE SaveTask
  BY Zenon, <1>4 DEF SaveTask, TypeInv, LockedRequest
<1>5. CASE UNCHANGED vars
  BY Zenon, <1>5 DEF vars
<1> QED
  BY Zenon, <1>1, <1>2, <1>3, <1>4, <1>5
  DEF Next, Start, Destroy, SolutionRead, InsertSolution, SaveSolution, DisconnectIdle, Reconnect,
      FinishRead, CancelledRead, RenameRead, RemoveTasks, SaveFinish, Stop, StopDelete, Restart, RestartSave

(* No handler is about to write at the start. *)
LEMMA WriteInit == Init => WriteInv
  BY Zenon, NoRequestAt DEF Init, WriteInv

(* A handler that is about to write a task has found it alive, or absent   *)
(* when it is to be created; nobody decides it meanwhile.                  *)
LEMMA WriteStep == TypeInv /\ WriteInv /\ [Next]_vars => WriteInv'
<1> SUFFICES ASSUME TypeInv, WriteInv, [Next]_vars PROVE WriteInv'
  BY Zenon
<1>1. ASSUME NEW t \in Task, CreateRead(t) PROVE WriteInv'
  <2>1. lreq'.at = "task" /\ lreq'.task = t /\ lreq'.new = "PENDING" /\ UNCHANGED task /\ used' = used \cup {t}
        /\ t \notin used
    BY Zenon, <1>1 DEF CreateRead, Lock, rows
  <2> QED
    BY Zenon, <2>1 DEF WriteInv
<1>2. ASSUME NEW t \in Task, NEW new \in TaskStatus, UpdateRead(t, new) PROVE WriteInv'
  <2>1. /\ lreq'.at = "task" /\ lreq'.task = t /\ lreq'.new = new /\ UNCHANGED <<task, used>>
        /\ task[t] \in Live /\ new # task[t] /\ ~(task[t] = "PROCESSING" /\ new = "PENDING")
    BY Zenon, <1>2 DEF UpdateRead, Lock, rows, history
  <2> QED
    BY Zenon, <2>1 DEF WriteInv, Live, Absent
<1>3. CASE SaveTask
  <2>1. /\ lreq'.at = "decision" /\ UNCHANGED used
        /\ lreq.at = "task" /\ task' = [task EXCEPT ![lreq.task] = lreq.new]
    BY Zenon, <1>3 DEF SaveTask, TypeInv, LockedRequest, NoRequest, history
  <2> QED
    BY Zenon, <2>1 DEF WriteInv, TypeInv
<1>4. CASE ~SaveTask /\ (UNCHANGED <<lreq, used>> \/ (lreq'.at # "task" /\ UNCHANGED used))
  <2>1. \A t \in Task : task'[t] \in {task[t], Absent}
    BY Zenon, <1>4, TaskStep
  <2> QED
    BY Zenon, <1>4, <2>1 DEF WriteInv, TypeInv
<1> QED
  BY Zenon, <1>1, <1>2, <1>3, <1>4, LockStep

(* Whatever requests interleave, also with stops, restarts, disconnections *)
(* and the end of the decision, a task whose status is final keeps it      *)
(* until it is deleted, and no task becomes pending again: the status      *)
(* validated when a task was read (validate_status) is still allowed when  *)
(* it is saved.                                                            *)
THEOREM TaskLifecycleHolds == Spec => TaskLifecycle
<1> DEFINE A == \A t \in Task : /\ task[t] \in Final => task'[t] \in {task[t], Absent}
                                /\ task[t] = "PROCESSING" => task'[t] # "PENDING"
<1>1. TypeInv /\ WriteInv /\ [Next]_vars => [A]_vars
  <2> SUFFICES ASSUME TypeInv, WriteInv, [Next]_vars PROVE A
    BY Zenon
  <2>1. CASE SaveTask
    <3>1. lreq.at = "task" /\ lreq.task \in Task /\ task' = [task EXCEPT ![lreq.task] = lreq.new]
      BY Zenon, <2>1 DEF SaveTask, TypeInv
    <3> QED
      BY Zenon, <3>1 DEF WriteInv, TypeInv, Live, Final, Absent
  <2>2. CASE ~SaveTask
    <3>1. \A t \in Task : task'[t] \in {task[t], Absent}
      BY Zenon, <2>2, TaskStep
    <3> QED
      BY Zenon, <3>1 DEF Absent
  <2> QED
    BY Zenon, <2>1, <2>2
<1> QED
  BY <1>1, TypeInit, TypeStep, WriteInit, WriteStep, PTL DEF Spec, TaskLifecycle

-----------------------------------------------------------------------------
(* Nothing but the solution of tasks goes on: nobody stops, restarts or    *)
(* finishes the decision, and the scheduler stays connected.               *)
Undisturbed == Requests \subseteq {"start", "create", "update", "destroy", "progress", "solution"}

With(rows_of_tasks, s) == {t \in Task : rows_of_tasks[t] = s}

(* The counters of row are those of the given rows of tasks. *)
Agree(row, rows_of_tasks) ==
    /\ \A s \in Live : row.tasks[s] = Cardinality(With(rows_of_tasks, s))
    /\ row.total = row.tasks["PENDING"] + row.tasks["PROCESSING"]
           + row.tasks["FINISHED"] + row.tasks["ERROR"] + row.tasks["CANCELLED"]

(* The row a locked request holds agrees with the tasks as they will be    *)
(* when the row is saved; a task is written as finished only with a        *)
(* solution.                                                               *)
QuietInv ==
    /\ Undisturbed
    /\ freq = [f \in Finisher |-> NoRequest]
    /\ stopping = FALSE /\ restarting = FALSE
    /\ lreq = NoRequest => Agree(decision, task)
    /\ lreq.at = "task" => /\ Agree(lreq.row, [task EXCEPT ![lreq.task] = lreq.new])
                           /\ lreq.new = "FINISHED" => lreq.task \in solution
    /\ lreq.at = "decision" => Agree(lreq.row, task)
    /\ FinishedHasSolution

(* update_decision() moves the counters as the task moves. *)
LEMMA UpdateAgrees ==
  ASSUME NEW row \in Row, NEW tasks \in [Task -> TaskStatus \cup {Absent}], Agree(row, tasks),
         NEW t \in Task, NEW new \in TaskStatus, tasks[t] \in Live \cup {Absent}, new # tasks[t]
  PROVE  Agree(UpdateDecision(row, new, tasks[t]), [tasks EXCEPT ![t] = new])
<1> DEFINE old   == tasks[t]
           after == [tasks EXCEPT ![t] = new]
           n(s)  == Cardinality(With(tasks, s))
           less  == IF old = Absent THEN row.tasks
                    ELSE [row.tasks EXCEPT ![old] = IF @ > 0 THEN @ - 1 ELSE 0]
           moved == [less EXCEPT ![new] = @ + 1]
           total == IF old = Absent THEN row.total + 1 ELSE row.total
<1>1. ASSUME NEW s \in TaskStatus
      PROVE  /\ n(s) \in Nat
             /\ s = old => n(s) > 0
             /\ Cardinality(With(after, s)) =
                   IF s = new THEN n(s) + 1 ELSE IF s = old THEN n(s) - 1 ELSE n(s)
  <2>1. IsFiniteSet(With(tasks, s))
    BY Zenon, ServiceConstants, FS_Subset DEF With
  <2>2. n(s) \in Nat /\ (n(s) = 0 => With(tasks, s) = {})
    BY Zenon, <2>1, FS_CardinalityType, FS_EmptySet
  <2>3. CASE s = new
    <3>1. With(after, s) = With(tasks, s) \cup {t} /\ t \notin With(tasks, s)
      BY Zenon, <2>3 DEF With
    <3> QED
      BY ZenonT(30), <2>1, <2>2, <2>3, <3>1, FS_AddElement
  <2>4. CASE s # new /\ s = old
    <3>1. With(after, s) = With(tasks, s) \ {t} /\ t \in With(tasks, s)
      BY Zenon, <2>4 DEF With
    <3>2. Cardinality(With(tasks, s) \ {t}) = n(s) - 1
      BY Zenon, <2>1, <3>1, FS_RemoveElement
    <3>3. With(tasks, s) # {}
      BY Zenon, <3>1
    <3>4. n(s) > 0
      BY <2>2, <3>3
    <3>5. Cardinality(With(after, s)) = n(s) - 1
      BY Zenon, <3>1, <3>2
    <3> HIDE DEF n, after
    <3> QED
      BY Zenon, <2>2, <2>4, <3>4, <3>5
  <2>5. CASE s # new /\ s # old
    <3>1. With(after, s) = With(tasks, s)
      BY Zenon, <2>5 DEF With
    <3> QED
      BY Zenon, <2>2, <2>5, <3>1
  <2> QED
    BY Zenon, <2>3, <2>4, <2>5
<1>2. /\ row.tasks \in [TaskStatus -> Nat] /\ row.total \in Nat
      /\ \A s \in Live : row.tasks[s] = n(s)
      /\ row.total = row.tasks["PENDING"] + row.tasks["PROCESSING"]
             + row.tasks["FINISHED"] + row.tasks["ERROR"] + row.tasks["CANCELLED"]
  BY Zenon DEF Row, Agree
<1>3. /\ old \in Live \cup {Absent} /\ Absent \notin TaskStatus /\ Live \subseteq TaskStatus
      /\ old \in Live => row.tasks[old] > 0
  BY Zenon, <1>1, <1>2 DEF TaskStatus, Live, Final, Absent
<1>4. \A s \in TaskStatus : moved[s] = IF s = new THEN row.tasks[s] + 1
                                       ELSE IF s = old THEN row.tasks[s] - 1 ELSE row.tasks[s]
  BY Zenon, <1>2, <1>3
<1>5. /\ UpdateDecision(row, new, old).tasks = moved
      /\ UpdateDecision(row, new, old).total = total
  BY Zenon DEF UpdateDecision, Row
<1>6. \A s \in Live : moved[s] = Cardinality(With(after, s))
  BY Zenon, <1>1, <1>2, <1>3, <1>4
<1>7. total = moved["PENDING"] + moved["PROCESSING"]
             + moved["FINISHED"] + moved["ERROR"] + moved["CANCELLED"]
  <2> DEFINE a(s) == row.tasks[s]
             b(s) == moved[s]
  <2>1. /\ TaskStatus = {"PENDING", "PROCESSING", "FINISHED", "ERROR", "CANCELLED"}
        /\ old \in {"PENDING", "PROCESSING", Absent}
    BY Zenon, <1>3 DEF TaskStatus, Live, Final
  <2>2. \A s \in TaskStatus : a(s) \in Nat /\ b(s) = IF s = new THEN a(s) + 1 ELSE IF s = old THEN a(s) - 1 ELSE a(s)
    BY Zenon, <1>2, <1>4
  <2>3. row.total = a("PENDING") + a("PROCESSING") + a("FINISHED") + a("ERROR") + a("CANCELLED")
    BY Zenon, <1>2
  <2>4. new \in TaskStatus /\ Absent \notin TaskStatus /\ new # old
    BY Zenon, <1>3
  <2> HIDE DEF a, b, old
  <2>5. b("PENDING") + b("PROCESSING") + b("FINISHED") + b("ERROR") + b("CANCELLED")
          = IF old = Absent THEN row.total + 1 ELSE row.total
    <3>1. CASE old = Absent
      BY <2>1, <2>2, <2>3, <2>4, <3>1
    <3>2. CASE old = "PENDING"
      BY <2>1, <2>2, <2>3, <2>4, <3>2
    <3>3. CASE old = "PROCESSING"
      BY <2>1, <2>2, <2>3, <2>4, <3>3
    <3> QED
      BY Zenon, <2>1, <3>1, <3>2, <3>3
  <2> QED
    BY Zenon, <2>5 DEF b
<1> QED
  BY Zenon, <1>5, <1>6, <1>7 DEF Agree

(* The counters of a decision without tasks are zero. *)
LEMMA QuietInit == Undisturbed /\ Init => QuietInv
<1> SUFFICES ASSUME Undisturbed, Init PROVE QuietInv
  BY Zenon
<1>1. \A s \in TaskStatus : With(task, s) = {}
  BY Zenon DEF Init, With, TaskStatus, Live, Final, Absent
<1>2. Agree(decision, task)
  <2>1. decision.tasks = [s \in TaskStatus |-> 0] /\ decision.total = 0
    BY Zenon DEF Init, NewDecision
  <2> QED
    BY <1>1, <2>1, FS_EmptySet DEF Agree, TaskStatus, Live, Final
<1>3. FinishedHasSolution
  BY Zenon DEF FinishedHasSolution, Init, Having, Absent
<1> QED
  BY Zenon, <1>2, <1>3, NoRequestAt DEF QuietInv, Init

(* While no handler is disturbed between its read and its write, every one *)
(* keeps the counters equal to the tasks.                                  *)
LEMMA QuietStep == TypeInv /\ WriteInv /\ QuietInv /\ [Next]_vars => QuietInv'
<1> SUFFICES ASSUME TypeInv, WriteInv, QuietInv, [Next]_vars PROVE QuietInv'
  BY Zenon
<1> USE NoRequestAt DEF rows, history
<1>0. /\ \A f \in Finisher : freq[f] = NoRequest
      /\ lreq \in {NoRequest} \cup LockedRequest
      /\ Undisturbed /\ FinishedHasSolution
  BY Zenon DEF QuietInv, TypeInv
<1>1. CASE Start
  <2>1. decision'.tasks = decision.tasks /\ decision'.total = decision.total
    BY Zenon, <1>1 DEF Start, TypeInv, Row
  <2>2. Agree(decision, task) => Agree(decision', task')
    BY Zenon, <1>1, <2>1 DEF Start, Agree
  <2> QED
    BY Zenon, <1>1, <2>2 DEF Start, QuietInv, FinishedHasSolution, Having
<1>2. ASSUME NEW t \in Task, CreateRead(t) PROVE QuietInv'
  <2>1. /\ lreq = NoRequest
        /\ lreq'.at = "task" /\ lreq'.task = t /\ lreq'.new = "PENDING"
        /\ lreq'.row = UpdateDecision(decision, "PENDING", Absent)
        /\ UNCHANGED <<decision, task, solution, freq, stopping, restarting>>
    BY Zenon, <1>2 DEF CreateRead, Lock
  <2>2. Agree(decision, task)
    BY Zenon, <2>1 DEF QuietInv
  <2>3. task[t] = Absent
    BY Zenon, <1>2 DEF CreateRead, WriteInv
  <2>4. Agree(UpdateDecision(decision, "PENDING", task[t]), [task EXCEPT ![t] = "PENDING"])
    <3>1. "PENDING" \in TaskStatus /\ "PENDING" # task[t] /\ decision \in Row
          /\ task \in [Task -> TaskStatus \cup {Absent}]
      BY Zenon, <2>3 DEF TaskStatus, Live, Absent, TypeInv
    <3> QED
      BY Zenon, <2>2, <2>3, <3>1, UpdateAgrees
  <2> QED
    BY Zenon, <2>1, <2>3, <2>4, <1>0 DEF QuietInv, FinishedHasSolution, Having
<1>3. ASSUME NEW t \in Task, NEW new \in TaskStatus, UpdateRead(t, new) PROVE QuietInv'
  <2>1. /\ lreq = NoRequest
        /\ lreq'.at = "task" /\ lreq'.task = t /\ lreq'.new = new
        /\ lreq'.row = UpdateDecision(decision, new, task[t])
        /\ task[t] \in Live /\ new # task[t] /\ (new = "FINISHED" => t \in solution)
        /\ UNCHANGED <<decision, task, solution, freq, stopping, restarting>>
    BY Zenon, <1>3 DEF UpdateRead, Lock
  <2>2. Agree(UpdateDecision(decision, new, task[t]), [task EXCEPT ![t] = new])
    <3>1. Agree(decision, task) /\ decision \in Row /\ task \in [Task -> TaskStatus \cup {Absent}]
      BY Zenon, <2>1 DEF QuietInv, TypeInv
    <3> QED
      BY Zenon, <2>1, <3>1, UpdateAgrees
  <2> QED
    BY Zenon, <2>1, <2>2, <1>0 DEF QuietInv, FinishedHasSolution, Having
<1>4. ASSUME NEW t \in Task, Destroy(t) PROVE QuietInv'
  <2>1. /\ lreq = NoRequest /\ task[t] \in Final
        /\ task' = [task EXCEPT ![t] = Absent] /\ solution' = solution \ {t}
        /\ UNCHANGED <<decision, lreq, freq, stopping, restarting>>
    BY Zenon, <1>4 DEF Destroy, DeleteTasks, TypeInv
  <2>2. \A s \in Live : With(task', s) = With(task, s)
    BY Zenon, <2>1 DEF With, TypeInv, Live, Final, Absent
  <2>3. Agree(decision', task')
    BY Zenon, <2>1, <2>2 DEF QuietInv, Agree
  <2>4. FinishedHasSolution'
    BY Zenon, <2>1, <1>0 DEF FinishedHasSolution, Having, TypeInv, Absent
  <2> QED
    BY Zenon, <2>1, <2>3, <2>4 DEF QuietInv
<1>5. ASSUME NEW t \in Task, SolutionRead(t) PROVE QuietInv'
  BY Zenon, <1>5 DEF SolutionRead, QuietInv, FinishedHasSolution, Having
<1>6. ASSUME NEW t \in Task, InsertSolution(t) PROVE QuietInv'
  <2>1. /\ solution \subseteq solution'
        /\ UNCHANGED <<decision, task, lreq, freq, stopping, restarting>>
    BY Zenon, <1>6 DEF InsertSolution
  <2> QED
    BY Zenon, <2>1 DEF QuietInv, FinishedHasSolution, Having
<1>7. ASSUME NEW t \in Task, SaveSolution(t) PROVE QuietInv'
  <2>1. decision'.tasks = decision.tasks /\ decision'.total = decision.total
    BY Zenon, <1>7 DEF SaveSolution, TypeInv, Row
  <2>2. Agree(decision, task) => Agree(decision', task')
    BY Zenon, <1>7, <2>1 DEF SaveSolution, Agree
  <2> QED
    BY Zenon, <1>7, <2>2 DEF SaveSolution, QuietInv, FinishedHasSolution, Having
<1>8. CASE ProgressRead
  <2>1. /\ lreq = NoRequest /\ lreq'.at = "decision" /\ lreq'.row = decision
        /\ UNCHANGED <<decision, task, solution, freq, stopping, restarting>>
    BY Zenon, <1>8 DEF ProgressRead, Lock
  <2> QED
    BY Zenon, <2>1 DEF QuietInv, FinishedHasSolution, Having
<1>9. CASE Reconnect
  BY Zenon, <1>9 DEF Reconnect, QuietInv, FinishedHasSolution, Having
<1>10. CASE SaveTask
  <2>1. /\ lreq \in LockedRequest /\ lreq.at = "task" /\ lreq.task \in Task
        /\ task' = [task EXCEPT ![lreq.task] = lreq.new]
        /\ lreq' = [lreq EXCEPT !.at = "decision"]
        /\ UNCHANGED <<decision, solution, freq, stopping, restarting>>
    BY Zenon, <1>10 DEF SaveTask, TypeInv
  <2>2. lreq'.at = "decision" /\ lreq'.row = lreq.row
    BY Zenon, <2>1 DEF LockedRequest
  <2>3. Agree(lreq'.row, task') /\ (lreq.new = "FINISHED" => lreq.task \in solution)
    BY Zenon, <2>1, <2>2 DEF QuietInv
  <2>4. FinishedHasSolution'
    BY Zenon, <1>0, <2>1, <2>3 DEF FinishedHasSolution, Having, TypeInv
  <2> QED
    BY Zenon, <2>1, <2>2, <2>3, <2>4 DEF QuietInv
<1>11. CASE SaveDecision
  BY Zenon, <1>11 DEF SaveDecision, QuietInv, FinishedHasSolution, Having
<1>12. CASE UNCHANGED vars
  BY Zenon, <1>12 DEF vars, QuietInv, FinishedHasSolution, Having
<1>13. ~DisconnectRead /\ ~DisconnectIdle /\ ~Stop /\ ~StopDelete /\ ~Restart /\ ~RestartSave
  BY Zenon, <1>0 DEF Undisturbed, QuietInv, DisconnectRead, Lock, DisconnectIdle, Stop, StopDelete, Restart, RestartSave
<1>14. ASSUME NEW f \in Finisher
       PROVE  /\ \A want \in {"solved", "failed", "corrupted"} : ~FinishRead(f, want)
              /\ ~CancelledRead(f) /\ ~RenameRead(f) /\ ~RemoveTasks(f) /\ ~SaveFinish(f)
  BY Zenon, <1>0 DEF Undisturbed, FinishRead, CancelledRead, RenameRead, RemoveTasks, SaveFinish
<1> QED
  BY Zenon, <1>1, <1>2, <1>3, <1>4, <1>5, <1>6, <1>7, <1>8, <1>9, <1>10, <1>11, <1>12, <1>13, <1>14 DEF Next

(* As long as tasks are solved and nothing disturbs the decision, the      *)
(* counters of pending and processing tasks are the numbers of such tasks  *)
(* whenever no locked request is under way, and add up to the total: the   *)
(* uploads of solutions, which write the row of the decision without the   *)
(* lock, do not damage them (update_decision).                             *)
THEOREM CountersAgreeHolds == Undisturbed /\ Spec => []CountersAgree
<1>1. QuietInv => CountersAgree
  BY Zenon DEF QuietInv, CountersAgree, Agree, Count, Having, With
<1> QED
  BY <1>1, TypeInit, TypeStep, WriteInit, WriteStep, QuietInit, QuietStep, PTL DEF Spec

(* Then every finished task has its solution too (validate_status), also   *)
(* while tasks are destroyed (perform_destroy).                            *)
THEOREM FinishedHasSolutionHolds == Undisturbed /\ Spec => []FinishedHasSolution
<1>1. QuietInv => FinishedHasSolution
  BY Zenon DEF QuietInv
<1> QED
  BY <1>1, TypeInit, TypeStep, WriteInit, WriteStep, QuietInit, QuietStep, PTL DEF Spec
=============================================================================
