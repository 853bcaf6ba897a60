---------------------------- MODULE BridgeService ----------------------------
(***************************************************************************)
(* The service part of Bridge that Klever Core, the scheduler and the user *)
(* drive one decision with (bridge/service, StopDecisionView and the       *)
(* restart in bridge/jobs).  Every request is handled by a process of its  *)
(* own: it reads the row of the decision, does its work, and writes the    *)
(* whole row back, with no transaction around the two.  Requests to tasks, *)
(* to the progress and to the scheduler status exclude one another, since  *)
(* they hold the lock of Decision (module ExecLocker); the others run      *)
(* together with them and with one another.  Messages for the scheduler    *)
(* are not modelled, nor is the text of errors.                            *)
(***************************************************************************)
EXTENDS Integers, FiniteSets

CONSTANTS
    Task,          \* identifiers of tasks, never used twice
    Finisher,      \* processes that handle requests to finish or rename the decision
    Requests,      \* the kinds of requests that the clients send
    MaxBreaks,     \* stops, restarts, disconnections and renames
    KleverType     \* the scheduler has the type Klever, not VerifierCloud

RequestKind == {"start", "create", "update", "destroy", "progress", "disconnect",
                "solution", "cancelled", "solved", "failed", "corrupted", "rename", "stop", "restart"}

ASSUME ServiceConstants ==
    /\ IsFiniteSet(Task)
    /\ Requests \subseteq RequestKind
    /\ MaxBreaks \in Nat
    /\ KleverType \in BOOLEAN

Live == {"PENDING", "PROCESSING"}

Final == {"FINISHED", "ERROR", "CANCELLED"}

TaskStatus == Live \cup Final

Absent == "ABSENT"

Finished == {"SOLVED", "FAILED", "CORRUPTED", "CANCELLED", "TERMINATED"}

DecisionStatus == Finished \cup {"PENDING", "PROCESSING", "CANCELLING"}

VARIABLES
    decision,    \* the row of the decision
    task,        \* status of the row of each task
    solution,    \* tasks that have a row in the table of solutions
    scheduler,   \* status of the scheduler of the decision
    lreq,        \* the request that holds the lock of Decision
    sreq,        \* sreq[t]: the upload of the solution of t
    freq,        \* freq[f]: the request to finish or rename the decision f handles
    stopping,    \* StopDecisionView has still to delete the tasks
    restarting,  \* the restart has still to save the decision
    used,        \* history: identifiers of tasks that have been taken
    breaks       \* history: number of stops, restarts, disconnections and renames

rows == <<decision, task, solution, scheduler>>

history == <<used, breaks>>

vars == <<rows, lreq, sreq, freq, stopping, restarting, history>>

Decision ==
    [status : DecisionStatus, tasks : [TaskStatus -> Int], total : Int, solutions : Int]

NoRequest == [at |-> "none"]

NewDecision ==
    [status |-> "PENDING", tasks |-> [s \in TaskStatus |-> 0], total |-> 0, solutions |-> 0]

TypeOK ==
    /\ decision \in Decision
    /\ \A s \in TaskStatus : decision.tasks[s] >= 0
    /\ task \in [Task -> TaskStatus \cup {Absent}]
    /\ solution \subseteq {t \in Task : task[t] # Absent}
    /\ scheduler \in {"HEALTHY", "DISCONNECTED"}
    /\ \/ lreq = NoRequest
       \/ lreq \in [at : {"task", "decision"}, task : Task \cup {Absent}, new : TaskStatus, row : Decision]
    /\ \A t \in Task : sreq[t] = NoRequest \/
           sreq[t] \in [at : {"insert", "save"}, status : DecisionStatus, solutions : Nat]
    /\ \A f \in Finisher : freq[f] = NoRequest \/
           freq[f] \in [at : {"remove", "save"}, old : DecisionStatus, row : Decision]
    /\ stopping \in BOOLEAN /\ restarting \in BOOLEAN
    /\ used \subseteq Task /\ breaks \in 0..MaxBreaks

Init ==
    /\ decision = NewDecision
    /\ task = [t \in Task |-> Absent]
    /\ solution = {}
    /\ scheduler = "HEALTHY"
    /\ lreq = NoRequest
    /\ sreq = [t \in Task |-> NoRequest]
    /\ freq = [f \in Finisher |-> NoRequest]
    /\ stopping = FALSE /\ restarting = FALSE
    /\ used = {} /\ breaks = 0

Having(statuses) == {t \in Task : task[t] \in statuses}

(* Mutant: the solutions of deleted tasks stay. *)
DeleteTasks_Bug(ts) ==
    /\ task' = [t \in Task |-> IF t \in ts THEN Absent ELSE task[t]]
    /\ UNCHANGED solution

(* Deleting the rows of tasks deletes the rows of their solutions too. *)
DeleteTasks(ts) ==
    /\ task' = [t \in Task |-> IF t \in ts THEN Absent ELSE task[t]]
    /\ solution' = solution \ ts

-----------------------------------------------------------------------------
(* CoreDecisionArchiveView: Klever Core gets its files and the decision    *)
(* becomes processing, in one transaction.                                 *)
Start ==
    /\ "start" \in Requests
    /\ decision.status = "PENDING"
    /\ decision' = [decision EXCEPT !.status = "PROCESSING"]
    /\ UNCHANGED <<task, solution, scheduler, lreq, sreq, freq, stopping, restarting, history>>

(* Mutant: the counter of the old status is not decremented. *)
UpdateDecision_Bug(row, new, old) ==
    [row EXCEPT !.total = IF old = Absent THEN @ + 1 ELSE @, !.tasks[new] = @ + 1]

(* The row with its counters moved from the status old to the status new. *)
UpdateDecision(row, new, old) ==
    LET less  == IF old = Absent THEN row.tasks
                 ELSE [row.tasks EXCEPT ![old] = IF @ > 0 THEN @ - 1 ELSE 0]
        moved == [less EXCEPT ![new] = @ + 1]
    IN  [row EXCEPT !.total = IF old = Absent THEN @ + 1 ELSE @, !.tasks = moved]

(* The counters when all unfinished tasks are given the status new at once. *)
MoveUnfinished(tasks, new) ==
    [s \in TaskStatus |->
        IF s \in Live THEN 0
        ELSE IF s = new THEN tasks[s] + Cardinality(Having(Live)) ELSE tasks[s]]

Break == breaks < MaxBreaks /\ breaks' = breaks + 1

Lock(kind, rec) ==
    /\ kind \in Requests
    /\ lreq = NoRequest
    /\ lreq' = rec

(* POST of a task: validate_job reads the decision. *)
CreateRead(t) ==
    /\ t \notin used
    /\ decision.status = "PROCESSING" /\ scheduler # "DISCONNECTED"
    /\ Lock("create", [at |-> "task", task |-> t, new |-> "PENDING",
                       row |-> UpdateDecision(decision, "PENDING", Absent)])
    /\ used' = used \cup {t}
    /\ UNCHANGED <<rows, sreq, freq, stopping, restarting, breaks>>

(* Mutant: a task that has ended can be given another status. *)
UpdateRead_Bug(t, new) ==
    /\ task[t] # Absent
    /\ new # task[t]
    /\ ~(task[t] = "PROCESSING" /\ new = "PENDING")
    /\ new = "FINISHED" => t \in solution
    /\ decision.status = "PROCESSING"
    /\ Lock("update", [at |-> "task", task |-> t, new |-> new,
                       row |-> UpdateDecision(decision, new, task[t])])
    /\ UNCHANGED <<rows, sreq, freq, stopping, restarting, history>>

(* Mutant: a task can be finished without a solution. *)
UpdateRead_Bug2(t, new) ==
    /\ task[t] \in Live
    /\ new # task[t]
    /\ ~(task[t] = "PROCESSING" /\ new = "PENDING")
    /\ decision.status = "PROCESSING"
    /\ Lock("update", [at |-> "task", task |-> t, new |-> new,
                       row |-> UpdateDecision(decision, new, task[t])])
    /\ UNCHANGED <<rows, sreq, freq, stopping, restarting, history>>

(* PATCH of a task: its row is read together with that of the decision,    *)
(* and the change of the status is validated; FINISHED requires a solution.*)
UpdateRead(t, new) ==
    /\ task[t] \in Live
    /\ new # task[t]
    /\ ~(task[t] = "PROCESSING" /\ new = "PENDING")
    /\ new = "FINISHED" => t \in solution
    /\ decision.status = "PROCESSING"
    /\ Lock("update", [at |-> "task", task |-> t, new |-> new,
                       row |-> UpdateDecision(decision, new, task[t])])
    /\ UNCHANGED <<rows, sreq, freq, stopping, restarting, history>>

(* The row of the task is saved, which inserts it if it is not there.      *)
SaveTask ==
    /\ lreq.at = "task"
    /\ task' = [task EXCEPT ![lreq.task] = lreq.new]
    /\ lreq' = [lreq EXCEPT !.at = "decision"]
    /\ UNCHANGED <<decision, solution, scheduler, sreq, freq, stopping, restarting, history>>

(* PATCH of the progress: the fields that it changes are not modelled. *)
ProgressRead ==
    /\ decision.status = "PROCESSING"
    /\ Lock("progress", [at |-> "decision", task |-> Absent, new |-> "PENDING", row |-> decision])
    /\ UNCHANGED <<rows, sreq, freq, stopping, restarting, history>>

(* The scheduler has been found disconnected: finish_tasks reads the       *)
(* decision and gives its tasks an error, not another status.              *)
DisconnectRead ==
    LET counted == [decision EXCEPT !.tasks = MoveUnfinished(@, "ERROR"),
                                    !.status = IF KleverType THEN "TERMINATED" ELSE @]
    IN  /\ decision.status \in {"PENDING", "PROCESSING", "CANCELLING"}
        /\ Lock("disconnect", [at |-> "decision", task |-> Absent, new |-> "ERROR", row |-> counted])
        /\ Break
        /\ scheduler' = "DISCONNECTED"
        /\ UNCHANGED <<decision, task, solution, sreq, freq, stopping, restarting, used>>

(* It is found disconnected when the decision is over. *)
DisconnectIdle ==
    /\ "disconnect" \in Requests
    /\ lreq = NoRequest
    /\ decision.status \in Finished
    /\ Break
    /\ scheduler' = "DISCONNECTED"
    /\ UNCHANGED <<decision, task, solution, lreq, sreq, freq, stopping, restarting, used>>

Reconnect ==
    /\ scheduler = "DISCONNECTED"
    /\ lreq = NoRequest
    /\ scheduler' = "HEALTHY"
    /\ UNCHANGED <<decision, task, solution, lreq, sreq, freq, stopping, restarting, history>>

(* The locked request saves the whole row of the decision and returns. *)
SaveDecision ==
    /\ lreq.at = "decision"
    /\ decision' = lreq.row
    /\ lreq' = NoRequest
    /\ UNCHANGED <<task, solution, scheduler, sreq, freq, stopping, restarting, history>>

(* DELETE of a task. *)
Destroy(t) ==
    /\ "destroy" \in Requests
    /\ lreq = NoRequest
    /\ task[t] \in Final
    /\ task[t] = "FINISHED" => t \in solution
    /\ DeleteTasks({t})
    /\ UNCHANGED <<decision, scheduler, lreq, sreq, freq, stopping, restarting, history>>

-----------------------------------------------------------------------------
(* POST of a solution: the status of the decision is read, and not used. *)
SolutionRead(t) ==
    /\ "solution" \in Requests
    /\ sreq[t] = NoRequest
    /\ task[t] # Absent /\ t \notin solution
    /\ sreq' = [sreq EXCEPT ![t] = [at |-> "insert", status |-> decision.status, solutions |-> 0]]
    /\ UNCHANGED <<rows, lreq, freq, stopping, restarting, history>>

(* The solution is inserted, which fails when its task has been deleted;   *)
(* then the number of solutions is read.                                   *)
InsertSolution(t) ==
    /\ sreq[t].at = "insert"
    /\ IF task[t] = Absent
       THEN sreq' = [sreq EXCEPT ![t] = NoRequest] /\ UNCHANGED solution
       ELSE /\ solution' = solution \cup {t}
            /\ sreq' = [sreq EXCEPT ![t].at = "save", ![t].solutions = decision.solutions + 1]
    /\ UNCHANGED <<decision, task, scheduler, lreq, freq, stopping, restarting, history>>

(* The loaded fields of the decision are saved: its status is one of them. *)
SaveSolution(t) ==
    /\ sreq[t].at = "save"
    /\ decision' = [decision EXCEPT !.status = sreq[t].status, !.solutions = sreq[t].solutions]
    /\ sreq' = [sreq EXCEPT ![t] = NoRequest]
    /\ UNCHANGED <<task, solution, scheduler, lreq, freq, stopping, restarting, history>>

-----------------------------------------------------------------------------
(* The statuses that FinishDecision may choose, by what the reports and    *)
(* the progress are like; a description of an error that is too long makes *)
(* the decision terminated.                                                *)
GetStatus(want, status) ==
    CASE want = "solved"    -> IF status = "PROCESSING" THEN {"SOLVED", "FAILED", "CORRUPTED"}
                                                        ELSE {"CORRUPTED"}
      [] want = "failed"    -> {"FAILED", "CORRUPTED", "TERMINATED"}
      [] want = "corrupted" -> {"CORRUPTED", "TERMINATED"}

(* PATCH of the decision status, or a report that cannot be processed:     *)
(* reports are accepted for processing decisions only.                     *)
FinishRead(f, want) ==
    /\ want \in Requests
    /\ freq[f] = NoRequest
    /\ want = "corrupted" => decision.status = "PROCESSING"
    /\ \E status \in GetStatus(want, decision.status) :
           freq' = [freq EXCEPT ![f] = [at |-> "remove", old |-> decision.status,
                                        row |-> [decision EXCEPT !.status = status]]]
    /\ UNCHANGED <<rows, lreq, sreq, stopping, restarting, history>>

(* The scheduler says that the decision is cancelled. *)
CancelledRead(f) ==
    /\ "cancelled" \in Requests
    /\ freq[f] = NoRequest
    /\ decision.status = "CANCELLING"
    /\ freq' = [freq EXCEPT ![f] = [at |-> "save", old |-> decision.status,
                                    row |-> [decision EXCEPT !.status = "CANCELLED"]]]
    /\ UNCHANGED <<rows, lreq, sreq, stopping, restarting, history>>

(* RenameDecisionView, which takes no lock: the row is read, its title is  *)
(* changed, which is not modelled, and the whole row is saved.             *)
RenameRead(f) ==
    /\ "rename" \in Requests
    /\ freq[f] = NoRequest
    /\ freq' = [freq EXCEPT ![f] = [at |-> "save", old |-> decision.status, row |-> decision]]
    /\ Break
    /\ UNCHANGED <<rows, lreq, sreq, stopping, restarting, used>>

(* __remove_tasks: the second status it compares with is the title of      *)
(* PENDING, so that tasks being processed are not unfinished for it.  A    *)
(* task with an error and without its text is refused too: there is none,  *)
(* since an error is validated, or set by finish_tasks, with its text.     *)
RemoveTasks(f) ==
    LET refused == \/ freq[f].old # "PROCESSING"
                   \/ Having({"PENDING"}) # {}
                   \/ Having({"FINISHED"}) \ solution # {}
        keep    == freq[f].old = "PENDING" \/ freq[f].row.status = "TERMINATED"
    IN  /\ freq[f].at = "remove"
        /\ IF freq[f].old = "PENDING" \/ refused
           THEN UNCHANGED <<task, solution>>
           ELSE DeleteTasks(Task)
        /\ freq' = [freq EXCEPT ![f].at = "save",
                        ![f].row.status = IF refused /\ ~keep THEN "CORRUPTED" ELSE @]
        /\ UNCHANGED <<decision, scheduler, lreq, sreq, stopping, restarting, history>>

SaveFinish(f) ==
    /\ freq[f].at = "save"
    /\ decision' = freq[f].row
    /\ freq' = [freq EXCEPT ![f] = NoRequest]
    /\ UNCHANGED <<task, solution, scheduler, lreq, sreq, stopping, restarting, history>>

-----------------------------------------------------------------------------
(* StopDecisionView: cancel_decision in a transaction that locks the row. *)
Stop ==
    /\ "stop" \in Requests
    /\ ~stopping
    /\ decision.status \in {"PENDING", "PROCESSING"}
    /\ decision' = [decision EXCEPT !.status = "CANCELLING", !.tasks = MoveUnfinished(@, "CANCELLED")]
    /\ Break
    /\ stopping' = TRUE
    /\ UNCHANGED <<task, solution, scheduler, lreq, sreq, freq, restarting, used>>

StopDelete ==
    /\ stopping
    /\ stopping' = FALSE
    /\ DeleteTasks(Task)
    /\ UNCHANGED <<decision, scheduler, lreq, sreq, freq, restarting, history>>

(* RestartDecisionView: the tasks are deleted, then the decision is saved. *)
Restart ==
    /\ "restart" \in Requests
    /\ ~restarting
    /\ Break
    /\ decision.status \in Finished
    /\ DeleteTasks(Task)
    /\ restarting' = TRUE
    /\ UNCHANGED <<decision, scheduler, lreq, sreq, freq, stopping, used>>

RestartSave ==
    /\ restarting
    /\ restarting' = FALSE
    /\ decision' = NewDecision
    /\ UNCHANGED <<task, solution, scheduler, lreq, sreq, freq, stopping, history>>

Next ==
    \/ Start
    \/ \E t \in Task :
          \/ CreateRead(t)
          \/ \E new \in TaskStatus : UpdateRead(t, new)
          \/ Destroy(t)
          \/ SolutionRead(t) \/ InsertSolution(t) \/ SaveSolution(t)
    \/ ProgressRead \/ DisconnectRead \/ DisconnectIdle \/ Reconnect
    \/ SaveTask \/ SaveDecision
    \/ \E f \in Finisher :
          \/ \E want \in {"solved", "failed", "corrupted"} : FinishRead(f, want)
          \/ CancelledRead(f) \/ RenameRead(f) \/ RemoveTasks(f) \/ SaveFinish(f)
    \/ Stop \/ StopDelete
    \/ Restart \/ RestartSave

Spec == Init /\ [][Next]_vars

-----------------------------------------------------------------------------
Count(statuses) == Cardinality(Having(statuses))

(* With no locked request under way the counters of pending and processing *)
(* tasks are the numbers of such tasks, and the counters add up to the     *)
(* number of tasks that have been created (update_decision), whatever      *)
(* solutions are being uploaded meanwhile.                                 *)
CountersAgree ==
    lreq = NoRequest =>
        /\ \A s \in Live : decision.tasks[s] = Count({s})
        /\ decision.total = decision.tasks["PENDING"] + decision.tasks["PROCESSING"]
               + decision.tasks["FINISHED"] + decision.tasks["ERROR"] + decision.tasks["CANCELLED"]

(* A finished task has its solution (validate_status, perform_destroy).    *)
FinishedHasSolution == Having({"FINISHED"}) \subseteq solution

(* Whatever requests run at the same time, a task whose status is final    *)
(* keeps it until it is deleted, and no task becomes pending again.        *)
TaskLifecycle ==
    [][\A t \in Task :
          /\ task[t] \in Final => task'[t] \in {task[t], Absent}
          /\ task[t] = "PROCESSING" => task'[t] # "PENDING"]_vars

(* A decision that is being cancelled is cancelled in the end, or the      *)
(* disconnection of its scheduler terminates it: it does not become        *)
(* anything else.                                                          *)
CancelSticks ==
    [][decision.status = "CANCELLING" =>
          decision'.status \in {"CANCELLING", "CANCELLED", "TERMINATED"}]_vars

=============================================================================
