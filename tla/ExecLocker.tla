----------------------------- MODULE ExecLocker -----------------------------
(***************************************************************************)
(* The lock that Klever Bridge takes around a view which must not run in   *)
(* parallel with others (bridge/tools/profiling.py).  Every request runs   *)
(* in a server process of its own.  A lock file serialises the requests    *)
(* that are busy locking; the locks themselves are rows of the database    *)
(* table LockTable, one row per model name, which a request finds by name  *)
(* and from then on refers to by row identifier.  Both waits are bounded   *)
(* by a timeout; UNLOCK_FAILED_REQUESTS decides what an expired wait does: *)
(* in production it refuses the request, in development it forces the      *)
(* lock.  A manager may also delete all rows and the file by hand.         *)
(***************************************************************************)
CONSTANTS
    Request,                 \* the requests that are served
    Name,                    \* the model names that LockTable may have
    names                    \* names[r]: the names the view of r must lock

ASSUME LockerConstants == names \in [Request -> SUBSET Name]

VARIABLES
    UNLOCK_FAILED_REQUESTS,   \* the setting Bridge was started with
    lockfile,   \* whether media/.lock exists
    rows,       \* names that have a row in LockTable
    locked,     \* names whose row has locked = True
    pc,         \* where each request is
    lock_ids,   \* lock_ids[r]: names of the rows that exist and whose
                \* identifiers r has collected
    missing,    \* missing[r]: names without a row that r has yet to create
    blocked,    \* blocked[r]: r saw a locked row when it read the table
    manager,    \* where the manual unlock is
    forced      \* history: a lock was broken by a timeout or by hand

vars == <<UNLOCK_FAILED_REQUESTS, lockfile, rows, locked, pc, lock_ids, missing, blocked,
          manager, forced>>

(***************************************************************************)
(* Control points of a request: "open" and "expired" wait for the file,    *)
(* the Locking ones have created it, "view" runs the view; Final ones      *)
(* have returned.                                                          *)
(***************************************************************************)
Locking == {"read", "create", "wait", "mark", "remove", "removeErr"}

Final == {"done", "failed", "refused", "dead"}

Control == {"ready", "open", "expired", "view"} \cup Locking \cup Final

TypeOK ==
    /\ UNLOCK_FAILED_REQUESTS \in BOOLEAN
    /\ lockfile \in BOOLEAN
    /\ rows \in SUBSET Name
    /\ locked \in SUBSET rows
    /\ pc \in [Request -> Control]
    /\ lock_ids \in [Request -> SUBSET rows]
    /\ missing \in [Request -> SUBSET Name]
    /\ blocked \in [Request -> BOOLEAN]
    /\ manager \in {"idle", "file"}
    /\ forced \in BOOLEAN

(* Bridge may have served requests before, so some rows may exist. *)
Init ==
    /\ UNLOCK_FAILED_REQUESTS \in BOOLEAN
    /\ lockfile = FALSE
    /\ rows \in SUBSET Name
    /\ locked = {}
    /\ pc = [r \in Request |-> "ready"]
    /\ lock_ids = [r \in Request |-> {}]
    /\ missing = [r \in Request |-> {}]
    /\ blocked = [r \in Request |-> FALSE]
    /\ manager = "idle"
    /\ forced = FALSE

GoTo(r, from, to) ==
    /\ pc[r] = from
    /\ pc' = [pc EXCEPT ![r] = to]
    /\ UNCHANGED UNLOCK_FAILED_REQUESTS

-----------------------------------------------------------------------------
(***************************************************************************)
(* The operators named ..._Bug are mistaken versions of the definition     *)
(* that follows them; they are part of no specification.                   *)
(***************************************************************************)

(* The lock file is not used at all. *)
Dispatch_Bug(r) ==
    /\ GoTo(r, "ready", IF names[r] = {} THEN "view" ELSE "read")
    /\ UNCHANGED <<lockfile, rows, locked, lock_ids, missing, blocked, manager, forced>>

(* LoggedCallMixin.dispatch: lock() returns at once without names. *)
Dispatch(r) ==
    /\ GoTo(r, "ready", IF names[r] = {} THEN "view" ELSE "open")
    /\ UNCHANGED <<lockfile, rows, locked, lock_ids, missing, blocked, manager, forced>>

(* The file is opened with mode 'w', which succeeds when it exists. *)
OpenFile_Bug(r) ==
    /\ GoTo(r, "open", "read")
    /\ lockfile' = TRUE
    /\ UNCHANGED <<rows, locked, lock_ids, missing, blocked, manager, forced>>

(* open(lockfile, mode='x') succeeds: nobody else is locking. *)
OpenFile(r) ==
    /\ ~lockfile
    /\ GoTo(r, "open", "read")
    /\ lockfile' = TRUE
    /\ UNCHANGED <<rows, locked, lock_ids, missing, blocked, manager, forced>>

(* The file is still there after MAX_WAITING seconds. *)
FileTimeout(r) ==
    /\ lockfile
    /\ GoTo(r, "open", IF UNLOCK_FAILED_REQUESTS THEN "expired" ELSE "refused")
    /\ UNCHANGED <<lockfile, rows, locked, lock_ids, missing, blocked, manager, forced>>

(* The expired request removes the file, whoever has created it. *)
ForceFile(r) ==
    /\ GoTo(r, "expired", "open")
    /\ lockfile' = FALSE
    /\ forced' = TRUE
    /\ UNCHANGED <<rows, locked, lock_ids, missing, blocked, manager>>

(* One query for the rows of all names: which are missing, is one locked. *)
ReadRows(r) ==
    /\ GoTo(r, "read", "create")
    /\ lock_ids' = [lock_ids EXCEPT ![r] = names[r] \cap rows]
    /\ missing' = [missing EXCEPT ![r] = names[r] \ rows]
    /\ blocked' = [blocked EXCEPT ![r] = names[r] \cap locked # {}]
    /\ UNCHANGED <<lockfile, rows, locked, manager, forced>>

(* A missing row is created unlocked; its name is unique in the table. *)
CreateRow(r, n) ==
    /\ pc[r] = "create"
    /\ n \in missing[r] \ rows
    /\ rows' = rows \cup {n}
    /\ lock_ids' = [lock_ids EXCEPT ![r] = @ \cup {n}]
    /\ missing' = [missing EXCEPT ![r] = @ \ {n}]
    /\ UNCHANGED <<lockfile, locked, pc, blocked, manager, forced, UNLOCK_FAILED_REQUESTS>>

(* Somebody else has created the row meanwhile: the insertion fails. *)
DuplicateRow(r) ==
    /\ missing[r] \cap rows # {}
    /\ GoTo(r, "create", "removeErr")
    /\ UNCHANGED <<lockfile, rows, locked, lock_ids, missing, blocked, manager, forced>>

RowsReady(r) ==
    /\ missing[r] = {}
    /\ GoTo(r, "create", IF blocked[r] THEN "wait" ELSE "mark")
    /\ UNCHANGED <<lockfile, rows, locked, lock_ids, missing, blocked, manager, forced>>

(* The polling query finds no locked row among lock_ids any more. *)
RowsFree(r) ==
    /\ lock_ids[r] \cap locked = {}
    /\ GoTo(r, "wait", "mark")
    /\ UNCHANGED <<lockfile, rows, locked, lock_ids, missing, blocked, manager, forced>>

(* The wait for the rows has no timeout. *)
RowsTimeout_Bug(r) ==
    /\ FALSE
    /\ GoTo(r, "wait", "removeErr")
    /\ UNCHANGED <<lockfile, rows, locked, lock_ids, missing, blocked, manager, forced>>

(* A row is still locked after MAX_WAITING seconds. *)
RowsTimeout(r) ==
    /\ lock_ids[r] \cap locked # {}
    /\ GoTo(r, "wait", IF UNLOCK_FAILED_REQUESTS THEN "mark" ELSE "removeErr")
    /\ forced' = (forced \/ UNLOCK_FAILED_REQUESTS)
    /\ UNCHANGED <<lockfile, rows, locked, lock_ids, missing, blocked, manager>>

(* The rows are locked by name, as if nobody could have deleted them. *)
MarkRows_Bug(r) ==
    /\ GoTo(r, "mark", "remove")
    /\ locked' = locked \cup names[r]
    /\ UNCHANGED <<lockfile, rows, lock_ids, missing, blocked, manager, forced>>

(* One update sets locked = True for the rows of lock_ids. *)
MarkRows(r) ==
    /\ GoTo(r, "mark", "remove")
    /\ locked' = locked \cup lock_ids[r]
    /\ UNCHANGED <<lockfile, rows, lock_ids, missing, blocked, manager, forced>>

(* The file is removed after __lock_names but not in a finally clause. *)
RemoveFile_Bug(r) ==
    /\ \/ GoTo(r, "remove", "view") /\ lockfile' = FALSE
       \/ GoTo(r, "removeErr", "refused") /\ lockfile' = lockfile
    /\ UNCHANGED <<rows, locked, lock_ids, missing, blocked, manager, forced>>

(* The finally clause of lock() removes the file, if there is one. *)
RemoveFile(r) ==
    /\ \/ GoTo(r, "remove", "view")
       \/ GoTo(r, "removeErr", "refused")
    /\ lockfile' = FALSE
    /\ UNCHANGED <<rows, locked, lock_ids, missing, blocked, manager, forced>>

(* The view returns or raises a BridgeException: unlock(False). *)
ViewReturns(r) ==
    /\ GoTo(r, "view", "done")
    /\ locked' = locked \ lock_ids[r]
    /\ UNCHANGED <<lockfile, rows, lock_ids, missing, blocked, manager, forced>>

(* The setting is ignored: a failed request frees its rows. *)
ViewFails_Bug(r) ==
    /\ GoTo(r, "view", "failed")
    /\ locked' = locked \ lock_ids[r]
    /\ UNCHANGED <<lockfile, rows, lock_ids, missing, blocked, manager, forced>>

(* Any other exception: unlock(True) frees the rows in development only. *)
ViewFails(r) ==
    /\ GoTo(r, "view", "failed")
    /\ locked' = IF UNLOCK_FAILED_REQUESTS THEN locked \ lock_ids[r] ELSE locked
    /\ UNCHANGED <<lockfile, rows, lock_ids, missing, blocked, manager, forced>>

(* The server process is killed; no finally clause runs. *)
Crash(r) ==
    /\ pc[r] \notin {"ready"} \cup Final
    /\ pc' = [pc EXCEPT ![r] = "dead"]
    /\ UNCHANGED UNLOCK_FAILED_REQUESTS
    /\ UNCHANGED <<lockfile, rows, locked, lock_ids, missing, blocked, manager, forced>>

(* ManualUnlockAPIView.delete and the command unlock delete every row... *)
ManualUnlock ==
    /\ manager = "idle"
    /\ manager' = "file"
    /\ rows' = {}
    /\ locked' = {}
    /\ lock_ids' = [r \in Request |-> {}]
    /\ forced' = TRUE
    /\ UNCHANGED <<lockfile, pc, missing, blocked, UNLOCK_FAILED_REQUESTS>>

(* ... and then the lock file, if there is one. *)
ManualUnlockFile ==
    /\ manager = "file"
    /\ manager' = "idle"
    /\ lockfile' = FALSE
    /\ UNCHANGED <<rows, locked, pc, lock_ids, missing, blocked, forced, UNLOCK_FAILED_REQUESTS>>

Step(r) ==
    \/ OpenFile(r) \/ FileTimeout(r) \/ ForceFile(r)
    \/ ReadRows(r) \/ (\E n \in Name : CreateRow(r, n)) \/ DuplicateRow(r)
    \/ RowsReady(r) \/ RowsFree(r) \/ RowsTimeout(r) \/ MarkRows(r)
    \/ RemoveFile(r) \/ ViewReturns(r) \/ ViewFails(r)

Next ==
    \/ \E r \in Request : Dispatch(r) \/ Step(r) \/ Crash(r)
    \/ ManualUnlock
    \/ ManualUnlockFile

Spec == Init /\ [][Next]_vars

(* A started request keeps running: its waits time out, its view returns. *)
FairSpec == Spec /\ \A r \in Request : WF_vars(Step(r))

-----------------------------------------------------------------------------
(* Until a lock is broken by a timeout or by hand, two views that share a  *)
(* name never run at the same time (LoggedCallMixin.dispatch).             *)
MutualExclusion ==
    ~forced => \A r, s \in Request :
        r # s /\ pc[r] = "view" /\ pc[s] = "view" => names[r] \cap names[s] = {}

(* Until a lock is broken, the loop of __lock_names that creates the       *)
(* missing rows never meets a row that somebody else has just created.     *)
NoDuplicateRow ==
    ~forced => \A r \in Request : pc[r] = "create" => missing[r] \cap rows = {}

(* In production the names of a failed request stay locked: until somebody *)
(* unlocks Bridge by hand, no view of one of these names runs any more.    *)
FailedKeepsLocks ==
    ~UNLOCK_FAILED_REQUESTS /\ ~forced =>
        \A r, s \in Request :
            pc[r] = "failed" /\ pc[s] = "view" => names[r] \cap names[s] = {}

(* Once every started request has returned, the file is left over only by  *)
(* a killed process, and a locked row only by a killed process or, in      *)
(* production, by a failed view - however many locks were forced.          *)
QuiescentClean ==
    (\A r \in Request : pc[r] \in {"ready"} \cup Final) =>
        /\ lockfile => \E r \in Request : pc[r] = "dead"
        /\ \A n \in locked : \E r \in Request :
              /\ n \in names[r]
              /\ pc[r] = "dead" \/ (pc[r] = "failed" /\ ~UNLOCK_FAILED_REQUESTS)

(* Every started request is answered: its view runs or it is refused,      *)
(* whatever locks were left over by failed or killed requests.             *)
Answered == \A r \in Request : pc[r] = "open" ~> pc[r] \in Final
=============================================================================
