# TLA+ models of Klever

Klever verifies C programs as follows. A user starts a *decision* (a solution of
a job) in **Bridge**, a Django web application. The **scheduler** starts
**Klever Core** for it. Core generates verification tasks and uploads them to
Bridge; the scheduler takes the tasks from there, runs a verifier for each, and
uploads the solutions, which Core downloads and turns into reports for Bridge.
The reports are shown in web pages, some of them as graphs drawn by the bundled
graph library mxGraph.

This directory models the parts in which processes, threads, nodes, requests or
events get in each other's way, checks them with TLC on small instances, and
proves the central safety properties with TLAPS for all instances.

## Inventory

| Part | State | Operations | What makes it hard |
|---|---|---|---|
| Request locking (`bridge/tools/profiling.py`) | lock file, `LockTable` | lock, unlock, manual unlock | concurrent processes, timeouts, kills, failed views |
| Resource manager (`schedulers/resource_scheduler.py`) | nodes, reserved amounts, running jobs and tasks | update, schedule, claim, release, check | nodes that come and go, two passes over jobs, jobs waiting for tasks |
| Native runner and scheduler loop (`native.py`, `runners.py`, `schedulers/__init__.py`) | futures, pool, tables of jobs and tasks | prepare, solve, process results, cancel, re-initialise | pool threads against the loop, exceptions in the middle of an iteration |
| Service of Bridge (`bridge/service`), stop and restart (`bridge/jobs`) | decision row, tasks, solutions, scheduler status | create, update, delete, upload, progress, finish, disconnect, stop, restart | rows read and saved by several processes without a transaction |
| Core: VTG, VRP, progress watcher, components (`vtg/__init__.py`, `vrp/__init__.py`, `progress.py`, `components.py`, `core.py`, `job.py`) | queues, counters, processes | generate, submit, poll, process, count, stop | termination, lost answers, order of announcements |
| mxGraph: document, view, operations, editor, undo (`bridge/static/bridge/mxgraph/js`) | tree of cells, cache of states, selection, history | 20 editing operations, undo, redo | inverse of compound edits, stale caches |
| mxGraph: mouse events and handlers | button filter, seven listeners, timers | press, move, release, keys, removal meanwhile | lost, doubled and synthetic events, several listeners for one press |
| mxGraph: hierarchical layout | internal model, ranks, coordinates | cycle removal, layering, crossing reduction, placement | cycles, counting in a tree of accumulators, integer bounds |
| Scripts of Bridge's pages (`treetable.js`, `ETV.js`, `source.js`, `coverage.js`, `decisionFilesEdit.js`, `decisionPage.js`, `jobtree.js`, ...) | what is shown, requests under way | clicks, answers, failures, timers | answers in any order, polling |
| Messages (`on_task_change`, `decision_status_changed`, `ListeningThread`) | queue | publish, consume, periodic check | not modelled |
| Reports (`UploadReport.py`), sessions, `TryLessMemoryRunner`, VerifierCloud and Docker runners, EMG, fragmentation, weaver, marks, deployment, server pages | files, tables | transformations, requests | not modelled |

`PROJECT.json` lists all parts with what is left out of each, the definitions
with the lines they translate, and the hazards with the lines where they bite.

## Modules

| Module | Models |
|---|---|
| `ExecLocker`; `ExecLockerProofs` | request locking; its theorems |
| `ResourceManager`, `NativeRunner`; `NativeRunnerProofs` | the resource manager; the native runner and the loop around it; theorems about both |
| `BridgeService`; `BridgeServiceProofs` | the service of Bridge for one decision, with stop and restart; its theorems |
| `TaskLedger` | what Core promises about tasks (abstract) |
| `CoreTasks`, `Queues` | VTG, VRP, progress watcher and component processes (detailed); queues as sequences |
| `CoreTasksProofs`, `CoreFlowProofs`, `CoreLedgerProofs`, `CoreProofs` | sequences, types; the flow of work; directories and ledger; the theorems about Core |
| `UndoManager`, `MouseDispatch`; `InteractionProofs` | undo history; `fireMouseEvent`; theorems about both |
| `GraphGestures` | the mouse listeners |
| `GraphModel`, `GraphView`, `GraphOps`, `GraphEditor` | document, cache of states, operations, the editor that composes them with selection and history |
| `TreeTable`, `TraceView`, `SourceView`, `FilesTree`, `JobPages` | scripts of pages |
| `HierarchicalLayout`, `LayoutSeqs` | layout of report graphs; loops and sorts over arrays |
| `MC*` | instances for TLC |

Operators whose names end in `_Bug` are mistaken versions of the definition that
follows them; they belong to no specification and show that a property notices
the mistake.

### ExecLocker

`lockfile`, `rows` and `locked` are `media/.lock` and the table; `pc[r]` is where
the process of request `r` is between `dispatch` and the end of `unlock`. One
action is one system call or query. Rows are named by the model names: a name is
unique in the table, and a row that was deleted and created again differs from
the old one only in that collected identifiers (`lock_ids`) no longer denote it,
so the manual unlock empties `lock_ids`. `Crash` kills a process, after which no
`finally` runs. `forced` records that a timeout (development) or a manual unlock
broke a lock. Time is abstracted: a wait may expire whenever what it waits for
is not there. `UNLOCK_FAILED_REQUESTS` is chosen at the start and never changes,
so the run covers production and development.

Checked for three requests over two names, of which two overlap with the third:
the smallest instance in which a request waits for two others and a row is
created by one of two candidates. Fairness: a started request goes on (its
process is scheduled, its waits are bounded by `MAX_WAITING`, its view ends); no
fairness for kills, manual unlocks or new requests.

### ResourceManager and NativeRunner

`system_status` is the dictionary of the same name; amounts are functions over
CPU, RAM and disk. One iteration of `Scheduler.launch` goes through `phase`:
`idle` (messages, results and preparation), `updated` (after `update_nodes`),
`jobs`, `tasks`, `morejobs` (the three loops of `schedule()`, one candidate per
step, on the copy `draft`), `claim` (starting what is in `plan`). `future[i]`
is the future of job or task `i` in the pool; threads take and complete futures
at any moment of the iteration. An exception that leaves the loop sets `raised`;
then only `ResetRunner` is possible, which stands for the re-initialisation in
production and for a new process otherwise.

What the catalogue of Consul lists and what the controllers report is arbitrary
(`Update`). A failed preparation, a failed process and a failed execution are
possible wherever the code expects them. `attempts` belongs to the loop's item
and is lost with it: a job that is run once more goes on counting. A job that names a CPU model for its
tasks makes `__check_invariant` raise, because `yield_max_task` uses `cpu_model`
before it is assigned (`InvariantRaises`); other uses of CPU models are left out.
So are `submit_status`, the adjustment of the pool by workers of Core, limits of
zero, and the case in which `check_resources` raises nothing for a node that is
not available because no limit error has been recorded (no run has a node that
is not available for jobs). One restriction is the model's own: no entry is
accepted while resources are claimed for its identifier (`Prepare`). Bridge may
send a job again whose queued future was cancelled with its resources still
claimed; `claim_resources` means to refuse it (`resource_scheduler.py:303`), but
compares an identifier with pairs and never does.

Bounds: two jobs whose largest tasks do not fit next to both of them, one task
with the code's two further attempts (`native_local`) or two tasks without
(`native_nodes`), one or two nodes of two sizes; task identifiers are used once.
Fairness of `FairRunnerSpec`: the loop runs;
pool threads take queued futures; tasks end, since they are limited in time; and
results are processed (strongly fair, because the loop looks at all futures in
every iteration, although the step is enabled only between iterations). Nothing
is assumed about the end of jobs.

### BridgeService

`decision` is the row with its status and counters. A request is split where the
code reads the row and where it saves it. Requests to tasks, progress and the
scheduler status lock `Decision` (`lreq` is the one that holds the lock, see
`ExecLocker`); uploads of solutions (`sreq`), requests to finish (`freq`), stops
and restarts do not. Renaming a decision (`RenameRead`) saves its whole row like
a locked request does. Saving writes the whole row as it was read, except for the
upload, which loads only the status and the counter and saves these two. What
reports and progress data make of the status is a choice (`GetStatus`). Messages
to the scheduler, error texts, and the single-solution deletion that no client
requests are left out. Deletion of tasks deletes their solutions. Reads that the
code makes in a row without using one before the other are merged: the check
that a finished task has a solution is made together with the reading of the
task.

Bounds: `MaxBreaks` counts stops, restarts, renamings and disconnections (1 in
all runs);
two tasks without finishing requests, one task with one. All runs may stop when
the decision has ended and all identifiers are used, so deadlock is not checked.

### CoreTasks and TaskLedger

One job without sub-jobs. VTG, its workers (`worker`), VRP with its poller and
threads (`rpwl`), and the progress watcher (`pw`) share nothing but the queues
`processed`, `pending_tasks` and `processing_tasks`; the locals of VTG's loop are
the variables with the code's names. A work is an abstract task or one of the
tasks (abstract task, model, requirement) it gives rise to. A plugin may fail in
any worker, a component may fail at any moment, and up to `losses` workers of
VTG or threads of VRP may end without sending their answer (`lost`). `setting`
ranges over a job with one model per abstract task (the number of tasks is known
at once) and with several, over numbers of threads and of losses.

`TaskLedger` has three variables: the expected tasks, their verdicts and what
the watcher shows. `ImplementsLedger` is the refinement under the mapping
`Expected`, `verdict`, `pw`.

Bounds: two abstract tasks with two and one requirements, one thread of VRP, at
most one loss. Fairness of `FairSpec`: VTG, the poller, the watcher and Core's
loop are processes that run; of workers, threads and schedulers only that some
of them goes on while one can.

### The graph library

`GraphModel` keeps a document as functions on cells; `execute` logs each atomic
change. `GraphOps` are the operations of `mxGraph` on a session (document and
changes so far), which read the view as it was after the last transaction.
`GraphEditor` composes one operation, the processing of its changes
(`graphModelChanged`), the validation of the view, the selection and the
recording of the edit into one action, as one call does. Geometries have one
dimension; switches have their default values. `replaced` records that another
document was set while a group was shown: the group then stays on screen, so
`ViewInSync` does not speak of it, and `exitGroup` has no step where the code's
loop does not end.

`UndoManager` is the history alone, with an edit reduced to the versions it
leads from and to, so that edits made by listeners in the middle of an undo can
be followed. `MouseDispatch` is the filter against a browser that loses
releases, fires events twice and synthesizes mouse events for touches;
`GraphGestures` are the listeners behind it, with cells removed, keys pressed
and timers run out between the events of a gesture.

Bounds: eight cells in use and four fresh ones with two operations in a row
(`graph_editor`); a history of three edits over three versions, four presses at
two positions, and one gesture with one removal from elsewhere on five cells
(`interaction`). The theorems about history and filter have no such bounds.

### Pages and layout

Each page has one variable; requests are sets of records that are answered in
any order or fail. `raced` (in `SourceView`, `FilesTree`, `JobPages`) is no part
of the code: it records that the user went on while a request was under way.
What a property says "without haste" does not hold with it, because the code
applies late answers without looking whether they are still wanted.
In `FilesTree` a file is readable or not (`isFileReadable`), and one that is not
is never loaded into the editor; a request that is answered with an error is told
apart from one that fails, because the code handles only the latter.
`HierarchicalLayout` runs the stages of `mxHierarchicalLayout` as actions on
graphs of five and six vertices with cycles, loops, parallel links and links from
unknown nodes, with the spacings `report-graph.js` sets; coordinates are whole
pixels. The pages are independent, so a behaviour of `MCPages` has one of them in
use. The only fairness is that of the decision page: its timer runs and the
server answers.

## Runs

| Run | Shows |
|---|---|
| `locker` | in both settings: mutual exclusion until a lock is broken; rows are created once; in production a failed view blocks its names; nothing else leaves locks, however many were forced; every request is answered |
| `native_local` | with one job at a time the largest task of a running job can always be executed; no more jobs than allowed are in the pool; every accepted task is served or given up, even if its job never ends |
| `native_nodes` | reservations are exactly the sum of the limits of what runs plus kept directories, though nodes come, go and shrink; a healthy node has not promised more than it has; what was scheduled can be claimed when one node reports |
| `bridge_solving` | counters agree with the tasks although solutions are uploaded without the lock; a finished task has a solution |
| `bridge_breaking` | with a stop, a restart, a renaming or a disconnection at any point a task that has ended never gets another status |
| `core_tasks` | VTG's counter is exact, directories are kept as long as needed, no task comes after the end of the queue, the ledger is implemented, and Core ends unless an answer was lost |
| `interaction` | undo and redo meet the document they were made for; listeners see presses and releases in turn; a press belongs to one gesture, which has one outcome and ends with the button; typed text is kept |
| `graph_editor` | after any two operations the document is a consistent tree, undo and redo restore it exactly, the view agrees with it, and no edit leaves a cell selected that it removed, hid or folded away |
| `pages` | tables and traces show what their state says (`PagesShow`), source panel and file editor show the file they name (`FilesShown`), requests keep what was asked for (`RequestsKept`), a change of status reaches the decision page; layout: hierarchies and ranks, crossing counts against their definition, no overlaps |

Three runs show a disagreement between the code and its own comments or tests
(details in `findings` of `PROJECT.json`).

* `native_deadlock`: `NoDeadlock` fails if two jobs may run. The shortest trace
  plans both in one call of `schedule()` while nothing runs: `__check_invariant`
  looks at the running jobs and the candidate (`resource_scheduler.py:612`), not
  at the jobs chosen before it. `NoDeadlock` holds with `max_running_jobs = 1`
  (`native_local`), which is the point of the pair.
* `bridge_cancel`: `CancelSticks` fails, a stale save undoes a stop.
* `graph_removal`: `NoEdgeOnRemoved` fails. When the cells at both ends of an
  edge are removed and the edge is not, `cellsRemoved` disconnects it from the
  first cell only (`mxGraph.js:5019`). `DocumentOK` therefore allows one end of an
  edge to hang on a removed cell, and no more.

Disagreements that the definitions show and that have no run of their own:

* A queued future is cancelled without a release (`native.py:653`), although
  `release_resources` is called the "Paired method with claim_resources"
  (`resource_scheduler.py:333`). `Conservation` holds nevertheless: the
  reservation and the set of running identifiers leak together.
* A violated deadlock check counts as preserved when the tasks have no CPU model
  (`resource_scheduler.py:622` takes the model for the sign of a violation);
  `InvariantStatus` follows the code.
* `schedule()` plans for any node, the runner claims at its own
  (`native.py:632`): with two reporting nodes `ScheduledFits` fails.
* A node that leaves and returns gets a new, empty account while its old job is
  still in the pool, so with several nodes more than `max_running_jobs` jobs may
  be there.
* `TaskLimitReached` counts tasks only, while `native.py:587` limits "the total
  number of running jobs and tasks"; `ScheduleTask` ranks nodes as for a job;
  `UpdateSystemStatus` reports nothing to cancel when amounts are reduced, while
  its docstring (`resource_scheduler.py:70`) says it does.
* Processing tasks do not count as unfinished when a decision ends
  (`bridge/service/utils.py:82` compares with a title instead of a status); a
  disconnection counts tasks as failed but keeps their status
  (`bridge/service/serializers.py:423`); one of two concurrent uploads may go
  uncounted.
* The estimate of the progress watcher raises when progress was made before the
  start of the tasks was noticed (`progress.py:247`).
* In the graph library: an identifier given by the caller may be generated again
  after its cell was removed, because `nextId` becomes that identifier and not
  its successor (comment at `mxGraphModel.js:699`); the target of a connection
  removed before the release is still connected (`mxConnectionHandler.js:1723`).
* `jobtree.js:83` means to remove decisions before their jobs, but all requests
  are sent at once, and a decision that went with its job keeps the page from
  being reloaded; the cache of `decisionFilesEdit.js` is never hit; a commit that
  is answered with an error leaves its promise unsettled, and an upload answered
  so leaves its button disabled (`decisionFilesEdit.js:189`). The form of roles
  shows its selector at opening although the global role leaves nothing to set
  (`jobRolesEdit.js:109` against the comment at 99).

## Proofs

All theorems hold for every value of the constants that satisfies the named
assumptions of the modules (`LockerConstants`, `ManagerConstants`,
`RunnerConstants`, `ServiceConstants`, `CoreConstants`, `UndoConstants`,
`DispatchConstants`), which TLC evaluates in the runs. They ask that sets be
finite or disjoint and numbers natural; the only sizes they ask for are positive
resource limits of jobs and of their tasks (`ManagerConstants`). Where a theorem has
a hypothesis of its own, the property is false without it.

| Module | Theorems | Inductive invariant |
|---|---|---|
| `ExecLockerProofs` | `TypeOK`, `MutualExclusion`, `NoDuplicateRow`, `FailedKeepsLocks`, `QuiescentClean` | rows and their holders; who is to blame for a lock |
| `NativeRunnerProofs` | `Conservation`; `JobLimit` if `OneNode`; `ScheduledFits` if `OneReporting` | `AccountInv`, `LimitInv`, `FitsInv` |
| `BridgeServiceProofs` | `TypeOK`, `TaskLifecycle`; `CountersAgree`, `FinishedHasSolution` if `Undisturbed` | `TypeInv`, `WriteInv`, `QuietInv` |
| `CoreProofs` | `WaitingExact`, `NoLateTask`, `DirKept`, `ImplementsLedger` | `FlowInv`, `DirInv`, `LedgerInv` |
| `InteractionProofs` | `NeverBroken`, `IndexInHistory`, `Chained`, `MouseDownAsSeen`, `EventsInOrder` | `UndoInv`, `DispatchInv` |

**Locks.** Until a lock is broken, at most one request is between creating the
file and removing it; it has collected the rows it has not to create; and a
request past `MarkRows` has all its names locked. A request can then pass
`MarkRows` only if none of its names is locked. `FailedKeepsLocks` extends this
to failed requests. `QuiescentClean` needs an invariant that holds with broken
locks too: the file exists only if somebody is between creating and removing it
or was killed there, and a locked row belongs to a request that has not yet
freed it.

**Scheduler.** `Conservation` is an equation between a stored amount and a sum
over a set that changes. `AccountInv` states it as an account per node: an
entry per running job or task whose limits make up the reserved amounts, except
for disk space that finished entries keep; claiming adds and releasing removes
one entry, and `update_system_status` opens only empty accounts. It also carries
the types and what each phase of the iteration may hold. `LimitInv` adds that
jobs in the pool are among those the manager counts and that running and planned
jobs together stay within the limit. `FitsInv` says that the copy `draft` is
what will be reserved once everything planned has been claimed: equal while
`schedule()` chooses, and at least that while jobs are being started, because
what fails to start is dropped from the plan.

**Service of Bridge.** `WriteInv` says that a request about to save a task has
found it alive, or absent when it is to be created, and that nothing decides it
meanwhile, because whoever changes a single task holds the lock and the rest
only deletes. `TaskLifecycle` is then an action property of each save.
`QuietInv` relates the row a request carries to the tasks as they will be after
its save. `Undisturbed` (nobody stops, restarts or finishes the decision or
disconnects the scheduler) is needed: `bridge_cancel` shows a stale row saved
over a stop.

**Core.** `FlowInv` puts every work in exactly one place (the list to be
prepared, a worker, Bridge and VRP, an answer, or lost), from which the counter
is exact and no task is late. `DirInv` adds that VTG's record of live tasks
covers every task without a verdict; `LedgerInv` that the counters told to the
watcher and not yet read add up to the verdicts. With them every step of Core
maps to a step of the ledger or leaves it alone (`LedgerImplemented`). The
lemmas that count take the facts on finite sets as one hypothesis (`Counting`),
which `CoreProofs` proves (`CountingHolds`).

**Undo and mouse.** `UndoInv` is the conjunction of the three properties and the
type. `DispatchInv` relates the browser's button, the event last seen, the
synthetic events still to come and the fields of the filter: in particular that
a synthetic press is announced only for a touch whose release was seen.

Only model-checked, and why:

* `Answered`, `TaskServed`, `CoreEnds`, `StatusSeen`: liveness under fairness is
  out of the prover's reach.
* `NoDeadlock`: it holds for some limits and not for others (`native_deadlock`),
  so there is no theorem for all constants.
* `GestureEndsWithButton`, `OneGesture`, `SourceThere`, `OneOutcome`,
  `TypedTextKept`, all properties of `graph_editor` and `pages`: these modules
  use recursive operators over trees and lists (the loops of the code), for
  which the provers have no induction.

## Not modelled

Messages between Bridge and the scheduler (the product of `BridgeService` and
`NativeRunner` is out of TLC's reach), the tree of reports and caches of marks,
`TryLessMemoryRunner`, the VerifierCloud and Docker runners, sub-jobs of Core,
the session of Core with Bridge, and the transformations of data: environment
models, fragmentation, weaving, error traces. Of the web interface only scripts
with state of their own are modelled; pages made by the server are queries.
