---------------------------- MODULE NativeRunner ----------------------------
(***************************************************************************)
(* The native runner (klever/scheduler/schedulers/native.py and the parts  *)
(* of runners.py it inherits) on top of the resource manager.  Jobs and    *)
(* tasks are executed by the threads of a pool; the scheduler loop claims  *)
(* resources when it submits one, and releases them when it notices that   *)
(* the future is done or when it cancels the solution.  The runner knows   *)
(* one node, the one that was active when it was initialised, and claims   *)
(* and releases everything there.                                          *)
(***************************************************************************)
EXTENDS ResourceManager

CONSTANTS
    NoNode,        \* the runner has not been initialised yet
    Cancellable,   \* jobs and tasks whose cancellation may be requested
    MaxAttempts    \* attempts to start a job or a task, 2 in the code

ASSUME RunnerConstants ==
    /\ NoNode \notin Node
    /\ Cancellable \subseteq Id
    /\ MaxAttempts \in Nat

VARIABLES
    node_name,   \* the node of the runner
    future,      \* state of the future of each job and task
    attempts,    \* failed attempts to start a job or a task
    rescheduled, \* jobs that have been put back among the pending ones
    seen         \* tasks whose identifiers have been used up

runner == <<node_name, future, attempts, rescheduled, seen>>

iteration == <<phase, queue, draft, plan, cancel>>

allvars == <<vars, runner>>

(* A future that has "failed" holds an exception of _execute. *)
FutureState == {"none", "queued", "running", "done", "failed"}

Executing == {i \in Id : future[i] = "running"}

Submitted == {i \in Id : future[i] # "none"}

RunnerTypeOK ==
    /\ TypeOK
    /\ node_name \in Node \cup {NoNode}
    /\ future \in [Id -> FutureState]
    /\ attempts \in [Id -> 0..MaxAttempts]
    /\ rescheduled \subseteq Job
    /\ seen \subseteq Task

RunnerInit ==
    /\ Init
    /\ node_name = NoNode
    /\ future = [i \in Id |-> "none"]
    /\ attempts = [i \in Id |-> 0]
    /\ rescheduled = {}
    /\ seen = {}

Active == {n \in Known : system_status[n].status # "DISCONNECTED"}

SetFuture(i, state) == future' = [future EXCEPT ![i] = state]

(* The loop deletes the items, and with them the number of attempts. *)
DeleteItems(ids) == attempts' = [i \in Id |-> IF i \in ids THEN 0 ELSE attempts[i]]

-----------------------------------------------------------------------------
(* Native.init repeats update_nodes until exactly one node is active. *)
InitNode ==
    /\ phase = "updated"
    /\ node_name = NoNode
    /\ IF Cardinality(Active) = 1 THEN node_name' \in Active ELSE UNCHANGED node_name
    /\ phase' = "idle"
    /\ UNCHANGED <<managed, pending, queue, draft, plan, cancel, raised, future, attempts, rescheduled, seen>>

UpdateNodes == Update /\ UNCHANGED runner

(* prepare_job, prepare_task; Bridge never uses a task identifier twice. *)
PrepareSolution(i) ==
    /\ node_name # NoNode
    /\ i \notin seen \cup Submitted
    /\ Prepare(i)
    /\ seen' = seen \cup ({i} \cap Task)
    /\ rescheduled' = rescheduled \ {i}
    /\ UNCHANGED <<node_name, future, attempts>>

ScheduleStep ==
    /\ node_name # NoNode
    /\ Schedule
    /\ UNCHANGED runner

(* _solve_task and _solve_job: the limits are checked again, then the      *)
(* resources are claimed and the process is submitted to the pool.         *)
Solve(i) ==
    /\ CheckResources(i)
    /\ ClaimResources(i, node_name)
    /\ IF raised' THEN UNCHANGED future ELSE SetFuture(i, "queued")
    /\ UNCHANGED <<node_name, attempts, rescheduled, seen>>

(* _prepare_solution raises SchedulerException, for the last time or not. *)
SolveFails(i) ==
    LET again == attempts[i] < MaxAttempts
    IN  /\ NotStarted(i, again)
        /\ attempts' = [attempts EXCEPT ![i] = IF again THEN @ + 1 ELSE 0]
        /\ UNCHANGED <<node_name, future, rescheduled, seen>>

NextIteration == EndIteration /\ UNCHANGED runner

(* A thread of the pool takes i and starts its process. *)
Execute(i) ==
    /\ future[i] = "queued"
    /\ Cardinality(Executing) < max_tasks
    /\ SetFuture(i, "running")
    /\ UNCHANGED <<vars, node_name, attempts, rescheduled, seen>>

(* The process has terminated, or _execute could not start or follow it. *)
Complete(i) ==
    /\ future[i] = "running"
    /\ \E state \in {"done", "failed"} : SetFuture(i, state)
    /\ UNCHANGED <<vars, node_name, attempts, rescheduled, seen>>

LiveTasks(j) == {t \in Task : job_id[t] = j /\ (t \in pending \/ t \in Submitted)}

(* process_job_result, process_task_result with _postprocess_solution: the *)
(* loop submits the status and forgets i.                                  *)
ProcessResult(i) ==
    /\ phase = "idle"
    /\ future[i] = "done"
    /\ \E keep \in KeepDisk :
           /\ ReleaseResources(i, node_name, keep)
           /\ raised' = ReleaseRaises(i, node_name, keep)
    /\ SetFuture(i, "none")
    /\ DeleteItems({i})
    /\ UNCHANGED <<pending, iteration, node_name, rescheduled, seen>>

(* process_job_result when Klever Core has failed: with tasks to cancel it *)
(* raises TypeError, since it is given their identifiers, not their items; *)
(* without them the job is run once more if Bridge holds it for pending,   *)
(* with the attempts it has used.                                          *)
ProcessJobFailure(j) ==
    /\ phase = "idle"
    /\ future[j] = "done"
    /\ \E keep \in KeepDisk :
           /\ ReleaseResources(j, node_name, keep)
           /\ raised' = (ReleaseRaises(j, node_name, keep) \/ LiveTasks(j) # {})
    /\ SetFuture(j, "none")
    /\ IF raised' \/ j \in rescheduled
       THEN DeleteItems({j}) /\ UNCHANGED <<pending, rescheduled>>
       ELSE /\ pending' = pending \cup {j}
            /\ rescheduled' = rescheduled \cup {j}
            /\ UNCHANGED attempts
    /\ UNCHANGED <<iteration, node_name, seen>>

(* _is_done gets the exception of the future, and nothing catches it. *)
ProcessException(i) ==
    /\ phase = "idle"
    /\ future[i] = "failed"
    /\ raised' = TRUE
    /\ UNCHANGED <<managed, pending, iteration, runner>>

(* cancel_task for every member of ts, after what has been done to job j:  *)
(* a pending task is dropped and a queued future cancelled, and nothing is *)
(* released; a started task is released as a job, which raises KeyError.   *)
CancelTasks(ts) ==
    /\ pending' = pending \ ts
    /\ future' = [i \in Id |-> IF i \in ts THEN "none" ELSE future[i]]
    /\ DeleteItems(ts)

Started(i) == future[i] \in {"running", "done", "failed"}

(* cancel_task when Bridge says that a task being solved has ended. *)
CancelTask(t) ==
    /\ phase = "idle"
    /\ t \in Submitted
    /\ CancelTasks({t})
    /\ raised' = Started(t)
    /\ UNCHANGED <<managed, iteration, node_name, rescheduled, seen>>

(* cancel_job: the process is terminated and its resources are released,   *)
(* unless it was still queued; then the tasks of the job are cancelled.    *)
CancelJob(j) ==
    /\ phase = "idle"
    /\ j \in Submitted
    /\ \E keep \in KeepDisk :
           /\ IF Started(j) THEN ReleaseResources(j, node_name, keep) ELSE UNCHANGED managed
           /\ raised' = \/ Started(j) /\ ReleaseRaises(j, node_name, keep)
                        \/ \E t \in LiveTasks(j) : Started(t)
    /\ CancelTasks({j} \cup LiveTasks(j))
    /\ UNCHANGED <<iteration, node_name, rescheduled, seen>>

(* A job or task that has not been started is deleted from the loop's tables. *)
ForgetPending(i) ==
    /\ Forget(i)
    /\ DeleteItems({i})
    /\ UNCHANGED <<node_name, future, rescheduled, seen>>

(* An exception has left the loop: the scheduler terminates everything and *)
(* initialises itself again, or its process ends and is started again.     *)
ResetRunner ==
    /\ Reset
    /\ node_name' = NoNode
    /\ future' = [i \in Id |-> "none"]
    /\ attempts' = [i \in Id |-> 0]
    /\ rescheduled' = {}
    /\ UNCHANGED seen

Work ==
    \/ InitNode
    \/ UpdateNodes
    \/ ScheduleStep
    \/ \E i \in Id : Solve(i) \/ SolveFails(i)
    \/ NextIteration

RunnerNext ==
    \/ /\ ~raised
       /\ \/ Work
          \/ \E i \in Id : PrepareSolution(i) \/ Execute(i) \/ Complete(i)
                             \/ ProcessResult(i) \/ ProcessException(i)
          \/ \E j \in Job : ProcessJobFailure(j)
          \/ \E i \in Cancellable : ForgetPending(i)
          \/ \E j \in Cancellable \cap Job : CancelJob(j)
          \/ \E t \in Cancellable \cap Task : CancelTask(t)
    \/ ResetRunner

RunnerSpec == RunnerInit /\ [][RunnerNext]_allvars

(***************************************************************************)
(* The scheduler loop runs for ever and looks at every future in every     *)
(* iteration, hence the strong fairness of ProcessResult; threads of the   *)
(* pool take what is queued; tasks are limited in time.  A job ends when   *)
(* Klever Core does, which nothing here guarantees.                        *)
(***************************************************************************)
FairRunnerSpec ==
    /\ RunnerSpec
    /\ WF_allvars(~raised /\ Work)
    /\ WF_allvars(ResetRunner)
    /\ \A i \in Id : WF_allvars(~raised /\ Execute(i))
    /\ \A t \in Task :
           /\ WF_allvars(~raised /\ Complete(t))
           /\ SF_allvars(~raised /\ (ProcessResult(t) \/ ProcessException(t)))

-----------------------------------------------------------------------------
(* What is reserved at a node is what its running jobs and tasks asked for *)
(* plus the directories kept there, whatever nodes come and go             *)
(* (claim_resources, release_resources).  A node that is reported as       *)
(* healthy has not promised more than it has.                              *)
Conservation ==
    ~raised => \A n \in Known :
        /\ \A k \in Resource :
              system_status[n].reserved[k] =
                  Total(system_status[n].jobs \cup system_status[n].tasks)[k]
                  + IF k = "disk" THEN kept[n] ELSE 0
        /\ system_status[n].status = "HEALTHY" => AtMost(system_status[n].reserved, system_status[n].available)

(* Everything that schedule() allowed can be claimed, in any order, at the *)
(* node of the runner: claim_resources does not raise.                     *)
ScheduledFits ==
    ~raised /\ phase = "claim" /\ plan # {} =>
        AtMost(Plus(Reserved[node_name], Total({p[1] : p \in plan})),
               system_status[node_name].available)

(* Whenever jobs run that generate tasks for this scheduler, one of them   *)
(* can have its largest task executed once the running tasks have ended.   *)
NoDeadlock ==
    LET jobs == RunningJobs \cap LocalTasks
    IN  ~raised /\ phase = "idle" /\ jobs # {} =>
            \E j \in jobs : Suitable(WithoutTasks, task_limits[j], FALSE) # {}

(* The types hold, and no more than max_running_jobs jobs are in the pool  *)
(* at a time, although one call of schedule() chooses jobs twice.          *)
JobLimit == RunnerTypeOK /\ (~raised => Cardinality(Submitted \cap Job) =< max_running_jobs)

(* Every task that has been accepted is executed and its result processed, *)
(* or it is given up, even if its job never ends and starting it fails.    *)
TaskServed ==
    \A t \in Task : t \in pending ~> t \notin pending /\ future[t] = "none"

=============================================================================
