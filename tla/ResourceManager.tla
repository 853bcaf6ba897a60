--------------------------- MODULE ResourceManager ---------------------------
(***************************************************************************)
(* The resource manager of the scheduler                                   *)
(* (klever/scheduler/schedulers/resource_scheduler.py): what the nodes of  *)
(* the system have, what running jobs and tasks have reserved there, and   *)
(* which pending jobs and tasks can be started.  All calls come from the   *)
(* single thread of the scheduler loop; one iteration of it updates the    *)
(* nodes, schedules, and claims resources for what schedule() allowed.     *)
(* Jobs and tasks without a CPU model are modelled in full; a job whose    *)
(* tasks name one makes the check of the invariant raise.                  *)
(***************************************************************************)
EXTENDS Integers, FiniteSetsExt

CONSTANTS
    Node, Job, Task,   \* identifiers
    limits,            \* resource limits of a job or of a task
    task_limits,       \* task_limits[j]: bound on the limits of j's tasks
    job_id,            \* job_id[t]: the job that has generated task t
    priority,          \* 0 (IDLE) to 3 (URGENT), see sort_priority
    LocalTasks,        \* jobs whose tasks are not for VerifierCloud
    NamesModel,        \* jobs whose task resource limits name a CPU model
    Reporting,         \* nodes that run a controller, which reports their state
    NodeConf,          \* configurations a node can be reported with
    KeepDisk,          \* disk memory a kept working directory can take
    max_running_jobs,
    max_tasks

(* The three rows of __iterate_over_resources. *)
Resource == {"cpu", "ram", "disk"}

Amount == [Resource -> Nat]

Id == Job \cup Task

ASSUME ManagerConstants ==
    /\ Job \cap Task = {}
    /\ limits \in [Id -> Amount]
    /\ task_limits \in [Job -> Amount]
    /\ job_id \in [Task -> Job]
    /\ priority \in [Id -> 0..3]
    /\ LocalTasks \subseteq Job
    /\ NamesModel \subseteq Job
    /\ Reporting \subseteq Node
    /\ NodeConf \subseteq [available : Amount, jobsAllowed : BOOLEAN, tasksAllowed : BOOLEAN]
    /\ KeepDisk \subseteq Nat
    /\ max_running_jobs \in Nat
    /\ max_tasks \in Nat
    \* a limit left out of a job configuration, which becomes zero, is not modelled
    /\ \A j \in Job : \A k \in Resource : limits[j][k] > 0 /\ task_limits[j][k] > 0

VARIABLES
    system_status,  \* the nodes known so far, with what is reserved there
    config,         \* keys of __jobs_config and __tasks_config
    pending,        \* jobs and tasks prepared and waiting to be scheduled
    phase,          \* where the scheduler iteration is
    queue,          \* candidates the loop of schedule() has still to consider
    draft,          \* reserved amounts in the copy schedule() works with
    plan,           \* jobs and tasks allowed to start, with their nodes
    cancel,         \* what the last update reported to be cancelled
    kept,           \* history: disk memory of kept working directories
    raised          \* an exception has left the manager

vars == <<system_status, config, pending, phase, queue, draft, plan, cancel, kept, raised>>

managed == <<system_status, config, kept>>

Known == DOMAIN system_status

RunningJobs == UNION {system_status[n].jobs : n \in Known}

RunningTasks == UNION {system_status[n].tasks : n \in Known}

(* The units of resource k that the jobs and tasks of ids ask for. *)
Shares(ids, k) == UNION {{i} \X (1 .. limits[i][k]) : i \in ids}

Total(ids) == [k \in Resource |-> Cardinality(Shares(ids, k))]

Plus(a, b) == [k \in Resource |-> a[k] + b[k]]

Minus(a, b) == [k \in Resource |-> a[k] - b[k]]

AtMost(a, b) == \A k \in Resource : a[k] =< b[k]

Reserved == [n \in Known |-> system_status[n].reserved]

NodeRecord ==
    [status : {"HEALTHY", "AILING", "DISCONNECTED"}, jobsAllowed : BOOLEAN,
     tasksAllowed : BOOLEAN, available : Amount, reserved : Amount,
     jobs : SUBSET Job, tasks : SUBSET Task]

TypeOK ==
    /\ Known \subseteq Node
    /\ \A n \in Known : system_status[n] \in NodeRecord
    /\ config \subseteq Id
    /\ pending \subseteq Id
    /\ phase \in {"idle", "updated", "jobs", "tasks", "morejobs", "claim"}
    /\ queue \subseteq pending
    /\ DOMAIN draft \subseteq Known /\ \A n \in DOMAIN draft : draft[n] \in Amount
    /\ plan \subseteq pending \X Known
    /\ cancel \subseteq Id
    /\ kept \in [Node -> Nat]
    /\ raised \in BOOLEAN

Init ==
    /\ system_status = <<>>
    /\ config = {}
    /\ pending = {}
    /\ phase = "idle"
    /\ queue = {}
    /\ draft = <<>>
    /\ plan = {}
    /\ cancel = {}
    /\ kept = [n \in Node |-> 0]
    /\ raised = FALSE

-----------------------------------------------------------------------------
(* Free resources of a node when resv is reserved there, never negative. *)
FreeResources(n, resv) ==
    [k \in Resource |-> LET rest == system_status[n].available[k] - resv[n][k]
                        IN  IF rest > 0 THEN rest ELSE 0]

FulfillRequirement(n, resv, need, asJob) ==
    /\ IF asJob THEN system_status[n].jobsAllowed ELSE system_status[n].tasksAllowed
    /\ AtMost(need, FreeResources(n, resv))

Suitable(resv, need, asJob) == {n \in Known : FulfillRequirement(n, resv, need, asJob)}

(* Lists of free resources are compared lexicographically. *)
Less(a, b) ==
    \/ a["cpu"] < b["cpu"]
    \/ a["cpu"] = b["cpu"] /\ a["ram"] < b["ram"]
    \/ a["cpu"] = b["cpu"] /\ a["ram"] = b["ram"] /\ a["disk"] < b["disk"]

(* The nodes __nodes_ranking may put first: the most loaded ones. *)
First(nodes, resv) ==
    {n \in nodes : \A m \in nodes : ~Less(FreeResources(m, resv), FreeResources(n, resv))}

(* __create_system_status: the copy without the tasks and some jobs. *)
WithoutTasks == [n \in Known |-> Minus(Reserved[n], Total(system_status[n].tasks))]

Emptied == [n \in Known |-> Minus(WithoutTasks[n], Total(system_status[n].jobs))]

ReserveAt(resv, n, need) == [resv EXCEPT ![n] = Plus(@, need)]

Fits(n, resv) == AtMost(resv[n], system_status[n].available)

-----------------------------------------------------------------------------
(* The greatest task limits among the given jobs, resource by resource. *)
MaxTask(jobs) == [k \in Resource |-> Max({task_limits[j][k] : j \in jobs} \cup {0})]

(***************************************************************************)
(* __check_invariant(job) for jobs whose tasks do not name a CPU model:    *)
(* room for the largest task is reserved next to the running jobs.  When   *)
(* there is no such room the function still answers that the invariant is  *)
(* preserved, because the model it blames is None, with the copy as it     *)
(* was.  Result: the reserved amounts among which a node is chosen.        *)
(***************************************************************************)
InvariantStatus(jobs) ==
    LET local == jobs \cap LocalTasks
        room  == Suitable(WithoutTasks, MaxTask(local), FALSE)
    IN  IF local = {} \/ room = {}
        THEN {WithoutTasks}
        ELSE {ReserveAt(WithoutTasks, n, MaxTask(local)) : n \in First(room, WithoutTasks)}

(* A named CPU model: yield_max_task reads cpu_model before its assignment. *)
InvariantRaises(jobs) == jobs \cap LocalTasks \cap NamesModel # {}

(* check_resources(conf, job=True): the job and a task of it fit together. *)
CheckJob(j) ==
    \E n \in First(Suitable(Emptied, limits[j], TRUE), Emptied) :
        j \in LocalTasks => Suitable(ReserveAt(Emptied, n, limits[j]), task_limits[j], TRUE) # {}

(* check_resources(conf): the job runs and the task is within its limits. *)
CheckTask(t) ==
    /\ job_id[t] \in config
    /\ AtMost(limits[t], task_limits[job_id[t]])
    /\ Suitable(Emptied, limits[t], TRUE) # {}

-----------------------------------------------------------------------------
CheckResources(i) == IF i \in Job THEN CheckJob(i) ELSE CheckTask(i)

(* prepare_job and prepare_task succeed for a new entry of the scheduler.  *)
(* A restriction that the code does not make: no entry is accepted while   *)
(* resources are claimed for its identifier.  Bridge may send a job again  *)
(* whose future was cancelled in the queue, with its resources still       *)
(* claimed; the test of claim_resources for this never holds.              *)
Prepare(i) ==
    /\ phase = "idle" /\ Known # {}
    /\ i \notin pending \cup config
    /\ CheckResources(i)
    /\ pending' = pending \cup {i}
    /\ UNCHANGED <<managed, phase, queue, draft, plan, cancel, raised>>

(* Mutant: a node that comes back keeps the lists of its jobs and tasks. *)
Connect_Bug(n, conf) ==
    LET fresh == [status |-> "HEALTHY", jobsAllowed |-> conf.jobsAllowed,
                  tasksAllowed |-> conf.tasksAllowed, available |-> conf.available,
                  reserved |-> [k \in Resource |-> 0], jobs |-> {}, tasks |-> {}]
    IN  IF n \notin Known THEN fresh
        ELSE IF system_status[n].status = "DISCONNECTED"
        THEN [fresh EXCEPT !.jobs = system_status[n].jobs, !.tasks = system_status[n].tasks]
        ELSE [system_status[n] EXCEPT !.available = conf.available,
                  !.jobsAllowed = conf.jobsAllowed, !.tasksAllowed = conf.tasksAllowed]

(* What becomes of the record of a node that the controller reports. *)
Connect(n, conf) ==
    IF n \in Known /\ system_status[n].status # "DISCONNECTED"
    THEN [system_status[n] EXCEPT !.available = conf.available,
              !.jobsAllowed = conf.jobsAllowed, !.tasksAllowed = conf.tasksAllowed]
    ELSE [status |-> "HEALTHY", jobsAllowed |-> conf.jobsAllowed,
          tasksAllowed |-> conf.tasksAllowed, available |-> conf.available,
          reserved |-> [k \in Resource |-> 0], jobs |-> {}, tasks |-> {}]

AilingStatus(rec) == IF AtMost(rec.reserved, rec.available) THEN "HEALTHY" ELSE "AILING"

(***************************************************************************)
(* update_system_status: listed are the nodes of the catalogue, states the *)
(* configurations of those that have reported one.  The branch for changed *)
(* amounts calls __check_invariant() too, which never gives a job to       *)
(* cancel: it would have to blame a CPU model, and no job that names one   *)
(* is ever started.                                                        *)
(***************************************************************************)
UpdateSystemStatus(listed, states) ==
    LET missing == Known \ listed
        merged  == [n \in Known \cup DOMAIN states |->
                       IF n \in DOMAIN states THEN Connect(n, states[n])
                       ELSE IF n \in missing THEN [system_status[n] EXCEPT !.status = "DISCONNECTED"]
                       ELSE system_status[n]]
        alive   == {n \in Known \cap DOMAIN states : system_status[n].status # "DISCONNECTED"}
    IN  /\ phase = "idle"
        /\ phase' = "updated"
        /\ system_status' = [n \in DOMAIN merged |->
               IF merged[n].status = "DISCONNECTED" THEN merged[n]
               ELSE [merged[n] EXCEPT !.status = AilingStatus(merged[n])]]
        /\ cancel' = UNION (
               {system_status[n].jobs : n \in {m \in alive :
                    system_status[m].jobsAllowed /\ ~states[m].jobsAllowed}} \cup
               {system_status[n].tasks : n \in {m \in alive :
                    system_status[m].tasksAllowed /\ ~states[m].tasksAllowed}} \cup
               {system_status[n].jobs \cup system_status[n].tasks : n \in missing})
        /\ kept' = [n \in Node |-> IF n \in DOMAIN states \ alive THEN 0 ELSE kept[n]]
        /\ UNCHANGED <<config, pending, queue, draft, plan, raised>>

-----------------------------------------------------------------------------
(* Mutant: the jobs chosen by the first loop are not counted by the second. *)
PlannedJobs_Bug == IF phase = "claim" THEN {p \in plan : p[1] \in Job} ELSE {}

PlannedJobs == {p \in plan : p[1] \in Job}

Highest == Max({priority[j] : j \in RunningJobs} \cup {0})

(* Pending tasks are prepared again, then schedule() copies the status and *)
(* selects the jobs that are more urgent than every running one.           *)
BeginSchedule ==
    LET refused == {t \in pending \cap Task : ~CheckTask(t)}
    IN  /\ phase = "updated" /\ Known # {}
        /\ phase' = "jobs"
        /\ pending' = pending \ refused
        /\ draft' = Reserved
        /\ queue' = {j \in pending \cap Job : priority[j] > Highest}
        /\ cancel' = {}
        /\ UNCHANGED <<managed, plan, raised>>

(* Mutant: the copy of the status is not updated for what is chosen. *)
Allow_Bug(i, n) ==
    /\ plan' = plan \cup {<<i, n>>}
    /\ UNCHANGED <<draft, raised>>

(* The candidate i is given node n unless the amounts do not add up. *)
Allow(i, n) ==
    LET after == ReserveAt(draft, n, limits[i])
    IN  IF Fits(n, after)
        THEN /\ plan' = plan \cup {<<i, n>>}
             /\ draft' = after
             /\ UNCHANGED raised
        ELSE /\ raised' = TRUE
             /\ UNCHANGED <<plan, draft>>

MostUrgent(i) == i \in queue /\ \A o \in queue : priority[o] =< priority[i]

(* Mutant: one job too many, and no room is left for the largest task. *)
ScheduleJob_Bug(j) ==
    /\ phase \in {"jobs", "morejobs"}
    /\ MostUrgent(j)
    /\ Cardinality(RunningJobs) + Cardinality(PlannedJobs) =< max_running_jobs
    /\ queue' = queue \ {j}
    /\ LET nodes == Suitable(draft, limits[j], TRUE)
       IN  IF nodes = {} \/ (\E n \in Known : <<j, n>> \in plan)
           THEN UNCHANGED <<plan, draft, raised>>
           ELSE \E n \in First(nodes, draft) : Allow(j, n)
    /\ UNCHANGED <<managed, pending, phase, cancel>>

(* One turn of the loop of schedule_jobs, with __schedule_job. *)
ScheduleJob(j) ==
    LET jobs  == RunningJobs \cup {j}
        nodes == Suitable(draft, limits[j], TRUE)
    IN  /\ phase \in {"jobs", "morejobs"}
        /\ MostUrgent(j)
        /\ Cardinality(RunningJobs) + Cardinality(PlannedJobs) < max_running_jobs
        /\ queue' = queue \ {j}
        /\ IF nodes = {} \/ (\E n \in Known : <<j, n>> \in plan)
           THEN UNCHANGED <<plan, draft, raised>>
           ELSE IF InvariantRaises(jobs)
           THEN raised' = TRUE /\ UNCHANGED <<plan, draft>>
           ELSE \E par \in InvariantStatus(jobs) :
                   LET suits == nodes \cap Suitable(par, limits[j], TRUE)
                   IN  IF suits = {} THEN UNCHANGED <<plan, draft, raised>>
                       ELSE \E n \in First(suits, draft) : Allow(j, n)
        /\ UNCHANGED <<managed, pending, phase, cancel>>

(* The loop of schedule_jobs ends; what follows it in schedule(). *)
EndJobs ==
    /\ phase \in {"jobs", "morejobs"}
    /\ queue = {} \/ Cardinality(RunningJobs) + Cardinality(PlannedJobs) >= max_running_jobs
    /\ IF phase = "jobs"
       THEN phase' = "tasks" /\ queue' = pending \cap Task
       ELSE phase' = "claim" /\ queue' = {}
    /\ UNCHANGED <<managed, pending, draft, plan, cancel, raised>>

TaskLimitReached ==
    Cardinality(RunningTasks) + Cardinality(plan \ PlannedJobs) >= max_tasks

(* One turn of the loop over the pending tasks, with __schedule_task. *)
ScheduleTask(t) ==
    LET nodes == Suitable(draft, limits[t], TRUE)
    IN  /\ phase = "tasks"
        /\ MostUrgent(t)
        /\ ~TaskLimitReached
        /\ queue' = queue \ {t}
        /\ IF nodes = {} THEN UNCHANGED <<plan, draft, raised>>
           ELSE \E n \in First(nodes, draft) : Allow(t, n)
        /\ UNCHANGED <<managed, pending, phase, cancel>>

(* The tasks are done with: jobs as urgent as the running ones come next. *)
EndTasks ==
    /\ phase = "tasks"
    /\ queue = {} \/ TaskLimitReached
    /\ phase' = "morejobs"
    /\ queue' = {j \in pending \cap Job : priority[j] >= Highest}
    /\ UNCHANGED <<managed, pending, draft, plan, cancel, raised>>

-----------------------------------------------------------------------------
(* i is next among what schedule() allowed: jobs are started first. *)
NextPlanned(i) ==
    /\ phase = "claim"
    /\ \E p \in plan : p[1] = i
    /\ i \in Task => PlannedJobs = {}

Unplan(i) == plan' = {p \in plan : p[1] # i}

(* claim_resources(i, conf, n), called right before i is started. *)
ClaimResources(i, n) ==
    LET after == ReserveAt(Reserved, n, limits[i])
        rec   == [system_status[n] EXCEPT !.reserved = after[n]]
    IN  /\ NextPlanned(i)
        /\ Unplan(i)
        /\ pending' = pending \ {i}
        /\ IF n \in Known /\ Fits(n, after)
           THEN /\ config' = config \cup {i}
                /\ system_status' = [system_status EXCEPT ![n] =
                       IF i \in Job THEN [rec EXCEPT !.jobs = @ \cup {i}]
                                    ELSE [rec EXCEPT !.tasks = @ \cup {i}]]
                /\ UNCHANGED raised
           ELSE raised' = TRUE /\ UNCHANGED <<config, system_status>>
        /\ UNCHANGED <<kept, phase, queue, draft, cancel>>

(* Mutant: failed attempts are not counted. *)
NotStarted_Bug(i, again) ==
    /\ NextPlanned(i)
    /\ Unplan(i)
    /\ UNCHANGED <<managed, pending, phase, queue, draft, cancel, raised>>

(* Preparing i fails before the claim: it is tried again or given up. *)
NotStarted(i, again) ==
    /\ NextPlanned(i)
    /\ Unplan(i)
    /\ pending' = IF again THEN pending ELSE pending \ {i}
    /\ UNCHANGED <<managed, phase, queue, draft, cancel, raised>>

EndIteration ==
    /\ phase = "claim" /\ plan = {}
    /\ phase' = "idle"
    /\ draft' = <<>>
    /\ UNCHANGED <<managed, pending, queue, plan, cancel, raised>>

(* release_resources raises: i does not run at n, or there is no room for  *)
(* the working directory that is kept.                                     *)
ReleaseRaises(i, n, keep) ==
    \/ n \notin Known \/ i \notin config
    \/ i \notin system_status[n].jobs \cup system_status[n].tasks
    \/ keep > system_status[n].available["disk"] - system_status[n].reserved["disk"]
              + limits[i]["disk"] /\ keep > 0

(* release_resources(i, n, job, keep), called when i has been solved. *)
ReleaseResources(i, n, keep) ==
    LET rec   == system_status[n]
        freed == Minus(rec.reserved, limits[i])
    IN  IF ReleaseRaises(i, n, keep)
        THEN UNCHANGED managed
        ELSE /\ system_status' = [system_status EXCEPT ![n] =
                    [rec EXCEPT !.jobs = @ \ {i}, !.tasks = @ \ {i},
                         !.reserved = [freed EXCEPT !["disk"] = @ + keep]]]
             /\ config' = config \ {i}
             /\ kept' = [kept EXCEPT ![n] = @ + keep]

(* A pending job or task is cancelled before it has been scheduled. *)
Forget(i) ==
    /\ phase = "idle"
    /\ i \in pending
    /\ pending' = pending \ {i}
    /\ UNCHANGED <<managed, phase, queue, draft, plan, cancel, raised>>

(* A new manager is made by init_scheduler(), or by the next process. *)
Reset ==
    /\ raised
    /\ system_status' = <<>> /\ config' = {} /\ pending' = {} /\ phase' = "idle"
    /\ queue' = {} /\ draft' = <<>> /\ plan' = {} /\ cancel' = {}
    /\ kept' = [n \in Node |-> 0]
    /\ raised' = FALSE

(* The steps of one scheduler iteration after the update of the nodes. *)
Schedule ==
    \/ BeginSchedule
    \/ \E j \in Job : ScheduleJob(j)
    \/ EndJobs
    \/ \E t \in Task : ScheduleTask(t)
    \/ EndTasks

(* The catalogue lists at least one node, or the update fails at once. *)
Update ==
    \E listed \in (SUBSET Node) \ {{}} : \E reported \in SUBSET (listed \cap Reporting) :
        \E states \in [reported -> NodeConf] : UpdateSystemStatus(listed, states)
=============================================================================
