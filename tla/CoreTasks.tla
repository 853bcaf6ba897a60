------------------------------ MODULE CoreTasks ------------------------------
(***************************************************************************)
(* Verification tasks inside Klever Core, for one job without sub-jobs:    *)
(* VTG starts workers for abstract tasks and for the verification tasks    *)
(* they give rise to, VRP follows the tasks that were sent to Bridge and   *)
(* processes their solutions, both tell VTG about the outcome through the  *)
(* queue 'processed', and the progress watcher PW counts what VTG tells    *)
(* it.  All of them are processes that share nothing but queues.           *)
(***************************************************************************)
EXTENDS Integers, Sequences, FiniteSets, Queues

CONSTANTS Atask,          \* abstract tasks (fragment, class of requirements)
          Envmodel,       \* environment models EMG may generate for one
          Rule(_),        \* requirement specifications of its class
          Setting,        \* settings: single, threads and losses, see below
          MaxTasks,       \* 'max solving tasks per sub-job'
          EMGThreads,     \* parallel threads for EMG
          RPWorkers,      \* workers of VRP
          KeepDirs,       \* 'keep intermediate files'
          Idle, Ended,    \* states of a worker of VRP without a task
          Null

Task == UNION {[atask : {a}, envmodel : Envmodel, rule : Rule(a)] : a \in Atask}
Work == Atask \cup Task

(* A job has finitely many works; the marks that stand for no task are     *)
(* none.  With a single environment model per fragment there is one for    *)
(* each abstract task, so that its tasks are as many as its requirements.  *)
ASSUME CoreConstants ==
    /\ IsFiniteSet(Atask) /\ IsFiniteSet(Envmodel) /\ IsFiniteSet(RPWorkers)
    /\ \A a \in Atask : IsFiniteSet(Rule(a))
    /\ Atask \cap Task = {}
    /\ Null \notin Task /\ Idle \notin Task /\ Ended \notin Task /\ Idle # Ended
    /\ Null \notin Nat
    /\ MaxTasks \in Nat /\ EMGThreads \in Nat /\ KeepDirs \in BOOLEAN
    /\ \A s \in Setting : /\ s.single \in BOOLEAN /\ s.threads \in Nat /\ s.losses \in Nat
                          /\ s.single => Cardinality(Envmodel) = 1

VARIABLES prepare, waiting, left_abstract_tasks, total_tasks, \* locals of VTG
          prepare_workers, max_worker_threads, atask_tasks,
          vtg,            \* where VTG is in its loop
          worker,         \* processes of EMGW and PLUGINS workers
          processed, pending_tasks, processing_tasks, \* queues
          tasks_messages, total_message,              \* queues to PW
          flag,           \* vals['task solving flag']
          bridge,         \* statuses of tasks in Bridge
          receiving, pending, rpl, \* the poller of VRP
          rpwl,           \* worker of VRP -> the task it processes
          pw,             \* the progress watcher
          core,           \* start_jobs in the main process
          lost,           \* works whose answer was lost
          dirs,           \* abstract tasks whose directories exist
          setting,        \* of the job: whether there is a 'single environment
                          \* model per fragment', the parallel threads for plugins
                          \* other than EMG, and the bound on lost answers
          verdict         \* history: what VTG told PW about each task

vtgVars == <<prepare, waiting, left_abstract_tasks, total_tasks,
             prepare_workers, max_worker_threads, atask_tasks, vtg, dirs, verdict>>
vrpVars == <<receiving, pending, rpl, rpwl, processing_tasks>>
pwVars == <<tasks_messages, total_message, pw>>
vars == <<vtgVars, vrpVars, pwVars, worker, processed, pending_tasks, flag, bridge, core, lost, setting>>

Min2(a, b) == IF a < b THEN a ELSE b
Max2(a, b) == IF a < b THEN b ELSE a

Init == /\ prepare = <<>> /\ waiting = 0
        /\ left_abstract_tasks = Cardinality(Atask) /\ total_tasks = 0
        /\ prepare_workers = {} /\ max_worker_threads = EMGThreads
        /\ atask_tasks = [a \in Atask |-> Null]
        /\ vtg = "start"
        /\ worker = [w \in Work |-> "none"]
        /\ processed = <<>> /\ pending_tasks = <<>> /\ processing_tasks = <<>>
        /\ tasks_messages = [finished |-> 0, failed |-> 0] /\ total_message = Null
        /\ flag = FALSE
        /\ bridge = [t \in Task |-> "none"]
        /\ receiving = TRUE /\ pending = {} /\ rpl = "run"
        /\ rpwl = [r \in RPWorkers |-> Idle]
        /\ pw = [at |-> "watch", finished |-> 0, failed |-> 0, total |-> Null, started |-> FALSE]
        /\ core = "running"
        /\ lost = {}
        /\ dirs = {}
        /\ setting \in Setting
        /\ verdict = [t \in Task |-> "none"]

MayFail == Cardinality(lost) < setting.losses

----------------------------------------------------------------------------
(* The main loop of VTG.                                                   *)

(* The worker objects are created in some order; a single model per        *)
(* fragment lets VTG announce the number of tasks at once.                 *)
VTGStart ==
    /\ core = "running" /\ vtg = "start"
    /\ prepare' = SetToSeq(Atask)
    /\ IF setting.single
       THEN /\ total_tasks' = Cardinality(Task)
            /\ total_message' = total_tasks'
       ELSE UNCHANGED <<total_tasks, total_message>>
    /\ vtg' = "loop"
    /\ UNCHANGED <<setting, waiting, left_abstract_tasks, prepare_workers, max_worker_threads, atask_tasks,
                   vrpVars, tasks_messages, pw, worker, processed, pending_tasks, flag, bridge,
                   core, lost, dirs, verdict>>

(* How many works __gradual_submit() starts.                               *)
Submitted(alive) ==
    LET quota == IF MaxTasks > waiting THEN MaxTasks - waiting ELSE 0
    IN Max2(0, Min2(Min2(quota, Len(prepare)), max_worker_threads - Cardinality(alive)))

(* __gradual_submit(): forget workers that have ended, start new ones from *)
(* the end of the list.                                                    *)
VTGSubmit ==
    /\ core = "running" /\ vtg = "loop"
    /\ prepare # <<>> \/ waiting # 0
    /\ LET alive == {w \in prepare_workers : worker[w] # "exited"}
           n == Submitted(alive)
           started == ToSet(SubSeq(prepare, Len(prepare) - n + 1, Len(prepare)))
       IN /\ prepare' = SubSeq(prepare, 1, Len(prepare) - n)
          /\ prepare_workers' = alive \cup started
          /\ worker' = [w \in Work |-> IF w \in started THEN "run" ELSE worker[w]]
          /\ waiting' = waiting + n
          /\ dirs' = dirs \cup (started \cap Atask)
    /\ vtg' = "get"
    /\ UNCHANGED <<setting, left_abstract_tasks, total_tasks, max_worker_threads, atask_tasks,
                   vrpVars, pwVars, processed, pending_tasks, flag, bridge, core, lost, verdict>>

(* get_waiting_first() gives up after three seconds.                       *)
VTGTimeout ==
    /\ core = "running" /\ vtg = "get" /\ processed = <<>>
    /\ vtg' = "loop"
    /\ UNCHANGED <<setting, prepare, waiting, left_abstract_tasks, total_tasks, prepare_workers,
                   max_worker_threads, atask_tasks, vrpVars, pwVars, worker, processed,
                   pending_tasks, flag, bridge, core, lost, dirs, verdict>>

(* The next item of the batch that get_waiting_first() has drained; what   *)
(* is left in the queue may have come after the drain.                     *)
TakeItem ==
    /\ core = "running" /\ vtg = "get" /\ processed # <<>>
    /\ processed' = Tail(processed)
    /\ waiting' = waiting - 1
    /\ vtg' \in (IF Len(processed) = 1 THEN {"loop"} ELSE {"loop", "get"})

VTGAbstract_Bug ==
    /\ TakeItem
    /\ Head(processed).work \in Atask
    /\ LET m == Head(processed)
           a == m.work
           new == [atask : {a}, envmodel : m.models, rule : Rule(a)]
           left == left_abstract_tasks - 1
       IN /\ left_abstract_tasks' = left
          /\ atask_tasks' = [atask_tasks EXCEPT ![a] = IF m.other /\ ~KeepDirs THEN new ELSE @]
          /\ prepare' = prepare \o SetToSeq(new)
          /\ total_tasks' = IF setting.single THEN total_tasks ELSE total_tasks + Cardinality(new)
          /\ IF setting.single /\ new = {}
             THEN /\ tasks_messages' = [tasks_messages EXCEPT !.failed = @ + Cardinality(Rule(a))]
                  /\ verdict' = [t \in Task |-> IF t.atask = a THEN "failed" ELSE verdict[t]]
             ELSE UNCHANGED <<tasks_messages, verdict>>
          /\ total_message' = IF ~setting.single /\ left = 0 THEN total_tasks ELSE total_message
          /\ max_worker_threads' = setting.threads
    /\ UNCHANGED <<setting, prepare_workers, vrpVars, pw, worker, pending_tasks, flag, bridge, core, lost, dirs>>

(* An abstract task has been processed, with or without models.            *)
VTGAbstract ==
    /\ TakeItem
    /\ Head(processed).work \in Atask
    /\ LET m == Head(processed)
           a == m.work
           new == [atask : {a}, envmodel : m.models, rule : Rule(a)]
           left == left_abstract_tasks - 1
       IN /\ left_abstract_tasks' = left
          /\ atask_tasks' = [atask_tasks EXCEPT ![a] = IF m.other /\ ~KeepDirs THEN new ELSE @]
          /\ prepare' = prepare \o SetToSeq(new)
          /\ total_tasks' = IF setting.single THEN total_tasks ELSE total_tasks + Cardinality(new)
          /\ IF setting.single /\ new = {}
             THEN /\ tasks_messages' = [tasks_messages EXCEPT !.failed = @ + Cardinality(Rule(a))]
                  /\ verdict' = [t \in Task |-> IF t.atask = a THEN "failed" ELSE verdict[t]]
             ELSE UNCHANGED <<tasks_messages, verdict>>
          /\ total_message' = IF ~setting.single /\ left = 0 THEN total_tasks' ELSE total_message
          /\ max_worker_threads' = setting.threads
    /\ UNCHANGED <<setting, prepare_workers, vrpVars, pw, worker, pending_tasks, flag, bridge, core, lost, dirs>>

VTGTask_Bug ==
    /\ TakeItem
    /\ Head(processed).work \in Task
    /\ LET m == Head(processed)
           t == m.work
           status == IF m.other THEN "finished" ELSE "failed"
           rest == atask_tasks[t.atask] \ {t}
       IN /\ tasks_messages' = [tasks_messages EXCEPT ![status] = @ + 1]
          /\ verdict' = [verdict EXCEPT ![t] = status]
          /\ IF KeepDirs
             THEN UNCHANGED <<atask_tasks, dirs>>
             ELSE /\ atask_tasks' = [atask_tasks EXCEPT ![t.atask] = IF rest = {} THEN Null ELSE rest]
                  /\ dirs' = dirs \ {t.atask}
    /\ UNCHANGED <<setting, prepare, left_abstract_tasks, total_tasks, prepare_workers, max_worker_threads,
                   vrpVars, total_message, pw, worker, pending_tasks, flag, bridge, core, lost>>

(* A verification task has been processed.  The directory of its abstract  *)
(* task goes with the last of its tasks.                                   *)
VTGTask ==
    /\ TakeItem
    /\ Head(processed).work \in Task
    /\ LET m == Head(processed)
           t == m.work
           status == IF m.other THEN "finished" ELSE "failed"
           rest == atask_tasks[t.atask] \ {t}
       IN /\ tasks_messages' = [tasks_messages EXCEPT ![status] = @ + 1]
          /\ verdict' = [verdict EXCEPT ![t] = status]
          /\ IF KeepDirs
             THEN UNCHANGED <<atask_tasks, dirs>>
             ELSE /\ atask_tasks' = [atask_tasks EXCEPT ![t.atask] = IF rest = {} THEN Null ELSE rest]
                  /\ dirs' = IF rest = {} THEN dirs \ {t.atask} ELSE dirs
    /\ UNCHANGED <<setting, prepare, left_abstract_tasks, total_tasks, prepare_workers, max_worker_threads,
                   vrpVars, total_message, pw, worker, pending_tasks, flag, bridge, core, lost>>

VTGDone_Bug ==
    /\ core = "running" /\ vtg = "loop"
    /\ prepare = <<>>
    /\ vtg' = "done"
    /\ pending_tasks' = Append(pending_tasks, Null)
    /\ UNCHANGED <<setting, prepare, waiting, left_abstract_tasks, total_tasks, prepare_workers,
                   max_worker_threads, atask_tasks, vrpVars, pwVars, worker, processed, flag,
                   bridge, core, lost, dirs, verdict>>

(* The loop is over: no more tasks will come for VRP.                      *)
VTGDone ==
    /\ core = "running" /\ vtg = "loop"
    /\ prepare = <<>> /\ waiting = 0
    /\ vtg' = "done"
    /\ pending_tasks' = Append(pending_tasks, Null)
    /\ UNCHANGED <<setting, prepare, waiting, left_abstract_tasks, total_tasks, prepare_workers,
                   max_worker_threads, atask_tasks, vrpVars, pwVars, worker, processed, flag,
                   bridge, core, lost, dirs, verdict>>

----------------------------------------------------------------------------
(* Workers of VTG.                                                         *)

otherThanWorker == <<vtgVars, vrpVars, pwVars, core>>

Answer(w, answered, models) ==
    /\ processed' = Append(processed, [work |-> w, other |-> answered, models |-> models])
    /\ worker' = [worker EXCEPT ![w] = "put"]

(* EMG has generated models (none is possible too).                        *)
EMGWSend(a) ==
    /\ core = "running" /\ worker[a] = "run"
    /\ \E models \in SUBSET Envmodel :
          /\ setting.single => Cardinality(models) <= 1
          /\ Answer(a, TRUE, models)
    /\ UNCHANGED <<setting, otherThanWorker, pending_tasks, flag, bridge, lost>>

PluginFails_Bug(w) ==
    /\ core = "running" /\ worker[w] = "run"
    /\ Answer(w, FALSE, {})
    /\ IF w \in Task
       THEN /\ bridge' = [bridge EXCEPT ![w] = "PENDING"]
            /\ pending_tasks' = Append(pending_tasks, w)
       ELSE UNCHANGED <<bridge, pending_tasks>>
    /\ UNCHANGED <<setting, otherThanWorker, flag, lost>>

(* A plugin has failed: plugin_fail_processing() of either kind of worker. *)
PluginFails(w) ==
    /\ core = "running" /\ worker[w] = "run"
    /\ Answer(w, FALSE, {})
    /\ UNCHANGED <<setting, otherThanWorker, pending_tasks, flag, bridge, lost>>

(* All plugins have done their work: _submit_task() schedules the task.    *)
PLUGINSSubmit(t) ==
    /\ core = "running" /\ worker[t] = "run"
    /\ bridge' = [bridge EXCEPT ![t] = "PENDING"]
    /\ pending_tasks' = Append(pending_tasks, t)
    /\ worker' = [worker EXCEPT ![t] = "put"]
    /\ UNCHANGED <<setting, otherThanWorker, processed, flag, lost>>

(* After its work a worker sets the task solving flag and exits.           *)
WorkerEnds(w) ==
    /\ core = "running" /\ worker[w] = "put"
    /\ flag' = TRUE
    /\ worker' = [worker EXCEPT ![w] = "exited"]
    /\ UNCHANGED <<setting, otherThanWorker, processed, pending_tasks, bridge, lost>>

(* A worker ends without a word: any exception but ComponentError, or a    *)
(* last plugin that prepared no task description.                          *)
WorkerLost(w) ==
    /\ core = "running" /\ worker[w] = "run" /\ MayFail
    /\ worker' = [worker EXCEPT ![w] = "exited"]
    /\ lost' = lost \cup {w}
    /\ UNCHANGED <<setting, otherThanWorker, processed, pending_tasks, flag, bridge>>

----------------------------------------------------------------------------
(* Bridge and the scheduler decide a task, as FINISHED or as ERROR.        *)
Solved(t) ==
    /\ core = "running" /\ bridge[t] = "PENDING"
    /\ bridge' = [bridge EXCEPT ![t] = "decided"]
    /\ UNCHANGED <<setting, vtgVars, vrpVars, pwVars, worker, processed, pending_tasks, flag, core, lost>>

----------------------------------------------------------------------------
(* VRP.                                                                    *)

(* One iteration of __result_processing(): drain the queue (a None ends    *)
(* the reception), pass on what has been decided, and let the workers end  *)
(* when nothing more can come.                                             *)
RPLPoll ==
    /\ core = "running" /\ rpl = "run"
    /\ LET more == receiving /\ Null \notin ToSet(pending_tasks)
           known == pending \cup (ToSet(pending_tasks) \ {Null})
           decided == {t \in known : bridge[t] = "decided"}
           over == ~more /\ known = decided
       IN /\ pending_tasks' = <<>>
          /\ receiving' = more
          /\ pending' = known \ decided
          /\ processing_tasks' = processing_tasks \o SetToSeq(decided)
                                   \o (IF over THEN [r \in 1 .. Cardinality(RPWorkers) |-> Null] ELSE <<>>)
          /\ rpl' = IF over THEN "done" ELSE "run"
    /\ UNCHANGED <<setting, vtgVars, pwVars, rpwl, worker, processed, flag, bridge, core, lost>>

RPWLTake(r) ==
    /\ core = "running" /\ rpwl[r] = Idle /\ processing_tasks # <<>>
    /\ rpwl' = [rpwl EXCEPT ![r] = IF Head(processing_tasks) = Null THEN Ended ELSE Head(processing_tasks)]
    /\ processing_tasks' = Tail(processing_tasks)
    /\ UNCHANGED <<setting, vtgVars, pwVars, receiving, pending, rpl, worker, processed, pending_tasks, flag,
                   bridge, core, lost>>

RPFetch_Bug(r) ==
    /\ core = "running" /\ rpwl[r] \in Task
    /\ processed' \in {processed, Append(processed, [work |-> rpwl[r], other |-> TRUE, models |-> {}])}
    /\ bridge' = [bridge EXCEPT ![rpwl[r]] = "removed"]
    /\ rpwl' = [rpwl EXCEPT ![r] = Idle]
    /\ UNCHANGED <<setting, vtgVars, pwVars, receiving, pending, rpl, processing_tasks, worker, pending_tasks,
                   flag, core, lost>>

(* RP.fetcher(): whatever happens while the solution is processed, VTG     *)
(* gets the processed data; a failed RP is ignored.                        *)
RPFetch(r) ==
    /\ core = "running" /\ rpwl[r] \in Task
    /\ processed' = Append(processed, [work |-> rpwl[r], other |-> TRUE, models |-> {}])
    /\ bridge' = [bridge EXCEPT ![rpwl[r]] = "removed"]
    /\ rpwl' = [rpwl EXCEPT ![r] = Idle]
    /\ UNCHANGED <<setting, vtgVars, pwVars, receiving, pending, rpl, processing_tasks, worker, pending_tasks,
                   flag, core, lost>>

(* RP fails before it comes to the solution: nothing is sent.              *)
RPLost(r) ==
    /\ core = "running" /\ rpwl[r] \in Task /\ MayFail
    /\ lost' = lost \cup {rpwl[r]}
    /\ rpwl' = [rpwl EXCEPT ![r] = Idle]
    /\ UNCHANGED <<setting, vtgVars, pwVars, receiving, pending, rpl, processing_tasks, worker, processed,
                   pending_tasks, flag, bridge, core>>

----------------------------------------------------------------------------
(* The progress watcher of a job without sub-jobs.                         *)

TasksProgress(p) ==
    IF p.total = Null THEN Null
    ELSE IF p.failed = p.total THEN 100
    ELSE (100 * p.finished) \div (p.total - p.failed)

(* One iteration of watch_progress(): counters, the number of tasks, the   *)
(* time of the first task, the estimation of the time that is left (which  *)
(* raises if progress was made before the start was noticed), the end.     *)
WatchProgress ==
    /\ core \in {"running", "waiting"} /\ pw.at = "watch"
    /\ LET now == [pw EXCEPT !.finished = @ + tasks_messages.finished,
                             !.failed = @ + tasks_messages.failed,
                             !.total = IF @ = Null THEN total_message ELSE @,
                             !.started = @ \/ flag]
           progress == TasksProgress(now)
       IN pw' = [now EXCEPT !.at = CASE progress = 100 -> "over"
                                     [] progress \in 11 .. 99 /\ ~now.started -> "failed"
                                     [] OTHER -> "watch"]
    /\ tasks_messages' = [finished |-> 0, failed |-> 0]
    /\ UNCHANGED <<setting, vtgVars, vrpVars, total_message, worker, processed, pending_tasks, flag, bridge, core, lost>>

----------------------------------------------------------------------------
(* The main process: launch_workers() and start_jobs().                    *)

(* A component of the job fails with an exception of its own:              *)
(* launch_workers() stops the others and start_jobs() the watcher.  What   *)
(* the others still do before they are stopped is seen by nobody.          *)
ComponentFails ==
    /\ core = "running" /\ MayFail
    /\ core' = "failed"
    /\ UNCHANGED <<setting, vtgVars, vrpVars, pwVars, worker, processed, pending_tasks, flag, bridge, lost>>

JobEnds ==
    /\ core = "running"
    /\ vtg = "done" /\ rpl = "done" /\ \A r \in RPWorkers : rpwl[r] = Ended
    /\ core' = "waiting"
    /\ UNCHANGED <<setting, vtgVars, vrpVars, pwVars, worker, processed, pending_tasks, flag, bridge, lost>>

(* A failed watcher is noticed by check_components() or when it is joined. *)
WatcherFails ==
    /\ core \in {"running", "waiting"} /\ pw.at = "failed"
    /\ core' = "failed"
    /\ UNCHANGED <<setting, vtgVars, vrpVars, pwVars, worker, processed, pending_tasks, flag, bridge, lost>>

CoreFinishes ==
    /\ core = "waiting" /\ pw.at = "over"
    /\ core' = "finished"
    /\ UNCHANGED <<setting, vtgVars, vrpVars, pwVars, worker, processed, pending_tasks, flag, bridge, lost>>

----------------------------------------------------------------------------
VTGStep == VTGStart \/ VTGSubmit \/ VTGTimeout \/ VTGAbstract \/ VTGTask \/ VTGDone

WorkerStep(w) == \/ w \in Atask /\ EMGWSend(w)
                 \/ PluginFails(w)
                 \/ w \in Task /\ PLUGINSSubmit(w)
                 \/ WorkerEnds(w)

RPWLStep(r) == RPWLTake(r) \/ RPFetch(r)

CoreStep == JobEnds \/ WatcherFails \/ CoreFinishes

Fault == \/ \E w \in Work : WorkerLost(w)
         \/ \E r \in RPWorkers : RPLost(r)
         \/ ComponentFails

Next == \/ VTGStep
        \/ \E w \in Work : WorkerStep(w)
        \/ \E t \in Task : Solved(t)
        \/ RPLPoll
        \/ \E r \in RPWorkers : RPWLStep(r)
        \/ WatchProgress
        \/ CoreStep
        \/ Fault

Spec == Init /\ [][Next]_vars

(* Every process runs, workers and solutions of tasks come to an end.  Each *)
(* worker and each task takes finitely many steps, so that it is enough    *)
(* that some worker, some task and some worker of VRP goes on.             *)
FairSpec == /\ Spec
            /\ WF_vars(VTGStep) /\ WF_vars(RPLPoll) /\ WF_vars(WatchProgress) /\ WF_vars(CoreStep)
            /\ WF_vars(\/ \E w \in Work : WorkerStep(w)
                       \/ \E t \in Task : Solved(t)
                       \/ \E r \in RPWorkers : RPWLStep(r))

----------------------------------------------------------------------------
(* Properties.                                                             *)

Unanswered ==
    {w \in Work : worker[w] = "run" \/ w \in lost}
      \cup {t \in Task : bridge[t] \in {"PENDING", "decided"}}

TypeOK == /\ prepare \in Seq(Work) /\ waiting \in 0 .. MaxTasks
          /\ prepare_workers \subseteq Work
          /\ worker \in [Work -> {"none", "run", "put", "exited"}]
          /\ vtg \in {"start", "loop", "get", "done"}
          /\ left_abstract_tasks \in 0 .. Cardinality(Atask)
          /\ core \in {"running", "waiting", "finished", "failed"}

(* The counter 'waiting' of VTG (vtg/__init__.py:314) is exact whatever    *)
(* workers, VRP and VTG itself are doing: it is the number of works that   *)
(* were started and whose answer is still to come or has not been read.    *)
WaitingExact == TypeOK /\ waiting = Cardinality(Unanswered) + Len(processed)

(* The directory of an abstract task (vtg/__init__.py:437) exists as long  *)
(* as one of its tasks is waiting to be prepared, being prepared, solved,  *)
(* or processed.                                                           *)
DirKept == \A t \in Task : t \in ToSet(prepare) \/ t \in Unanswered => t.atask \in dirs

(* VRP stops expecting tasks (vrp/__init__.py:88) only when none can come. *)
NoLateTask == ~receiving => /\ \A w \in Work : worker[w] # "run"
                            /\ prepare = <<>> /\ pending_tasks = <<>>

(* Core ends, unless an answer of a worker or of RP was lost: no crash of  *)
(* a component and no failure of a plugin keeps it running                 *)
(* (components.py:81, job.py:190).                                         *)
CoreEnds == <>(core \in {"finished", "failed"} \/ lost # {})

(* A task with a verdict was counted once, and everybody agrees on it:     *)
(* the detailed model implements the ledger.                               *)
Expected == IF setting.single
            THEN IF vtg = "start" THEN {} ELSE Task
            ELSE {t \in Task : worker[t] # "none" \/ t \in ToSet(prepare)}

Ledger == INSTANCE TaskLedger WITH
              Task <- Task, Unknown <- Null,
              expected <- Expected,
              verdict <- verdict,
              total <- total_message,
              shown <- [finished |-> pw.finished, failed |-> pw.failed],
              over <- pw.at = "over"

ImplementsLedger == Ledger!LedgerSpec
=============================================================================
