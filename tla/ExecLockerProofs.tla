-------------------------- MODULE ExecLockerProofs --------------------------
(***************************************************************************)
(* Proofs that the lock of ExecLocker is safe for every set of requests,   *)
(* every assignment of names to them and both values of                    *)
(* UNLOCK_FAILED_REQUESTS.                                                 *)
(***************************************************************************)
EXTENDS ExecLocker, TLAPS

(* The requests whose names are locked on their behalf. *)
Holds(r) ==
    \/ pc[r] \in {"remove", "view"}
    \/ pc[r] = "failed" /\ ~UNLOCK_FAILED_REQUESTS

(* The lock file is held by whoever is locking, and by one at a time. *)
FileInv ==
    /\ manager = "idle"
    /\ \A r \in Request : pc[r] \in Locking => lockfile
    /\ \A r, s \in Request : pc[r] \in Locking /\ pc[s] \in Locking => r = s

(* What a request knows about the table while it is locking is true of it. *)
ViewOfRows ==
    \A r \in Request :
        /\ pc[r] = "ready" => lock_ids[r] = {}
        /\ pc[r] = "create" =>
              /\ names[r] = lock_ids[r] \cup missing[r]
              /\ missing[r] \cap rows = {}
              /\ ~blocked[r] => lock_ids[r] \cap locked = {}
        /\ pc[r] \in {"wait", "mark"} => lock_ids[r] = names[r]
        /\ pc[r] = "mark" => names[r] \cap locked = {}

(* Holders have their names locked, and no name has two holders. *)
HoldersInv ==
    /\ \A r \in Request : Holds(r) => lock_ids[r] = names[r] /\ names[r] \subseteq locked
    /\ \A r, s \in Request : Holds(r) /\ Holds(s) /\ r # s => names[r] \cap names[s] = {}

(* The inductive invariant of the lock as long as nobody breaks it. *)
LockInv == ~forced => FileInv /\ ViewOfRows /\ HoldersInv

(* Whose fault a lock file or a locked row is, also when locks are broken. *)
BlameInv ==
    /\ \A r \in Request : lock_ids[r] \subseteq names[r] /\ missing[r] \subseteq names[r]
    /\ lockfile => \E r \in Request : pc[r] \in Locking \cup {"dead"}
    /\ \A n \in locked : \E r \in Request :
          /\ n \in lock_ids[r]
          /\ Holds(r) \/ pc[r] = "dead"

(* The types hold at the start. *)
LEMMA TypeInit == Init => TypeOK
  BY Zenon, LockerConstants DEF Init, TypeOK, Control

(* Every step keeps the types. *)
LEMMA TypeStep == TypeOK /\ [Next]_vars => TypeOK'
<1> SUFFICES ASSUME TypeOK, [Next]_vars PROVE TypeOK'
  BY Zenon
<1> USE LockerConstants DEF TypeOK, GoTo, Control, Locking, Final
<1>1. ASSUME NEW r \in Request, Dispatch(r) PROVE TypeOK'
  BY Zenon, <1>1 DEF Dispatch
<1>2. ASSUME NEW r \in Request, OpenFile(r) PROVE TypeOK'
  BY Zenon, <1>2 DEF OpenFile
<1>3. ASSUME NEW r \in Request, FileTimeout(r) PROVE TypeOK'
  BY Zenon, <1>3 DEF FileTimeout
<1>4. ASSUME NEW r \in Request, ForceFile(r) PROVE TypeOK'
  BY Zenon, <1>4 DEF ForceFile
<1>5. ASSUME NEW r \in Request, ReadRows(r) PROVE TypeOK'
  BY Zenon, <1>5 DEF ReadRows
<1>6. ASSUME NEW r \in Request, NEW n \in Name, CreateRow(r, n) PROVE TypeOK'
  BY Zenon, <1>6 DEF CreateRow
<1>7. ASSUME NEW r \in Request, DuplicateRow(r) PROVE TypeOK'
  BY Zenon, <1>7 DEF DuplicateRow
<1>8. ASSUME NEW r \in Request, RowsReady(r) PROVE TypeOK'
  BY Zenon, <1>8 DEF RowsReady
<1>9. ASSUME NEW r \in Request, RowsFree(r) PROVE TypeOK'
  BY Zenon, <1>9 DEF RowsFree
<1>10. ASSUME NEW r \in Request, RowsTimeout(r) PROVE TypeOK'
  BY Zenon, <1>10 DEF RowsTimeout
<1>11. ASSUME NEW r \in Request, MarkRows(r) PROVE TypeOK'
  BY Zenon, <1>11 DEF MarkRows
<1>12. ASSUME NEW r \in Request, RemoveFile(r) PROVE TypeOK'
  BY Zenon, <1>12 DEF RemoveFile
<1>13. ASSUME NEW r \in Request, ViewReturns(r) PROVE TypeOK'
  BY Zenon, <1>13 DEF ViewReturns
<1>14. ASSUME NEW r \in Request, ViewFails(r) PROVE TypeOK'
  BY Zenon, <1>14 DEF ViewFails
<1>15. ASSUME NEW r \in Request, Crash(r) PROVE TypeOK'
  BY Zenon, <1>15 DEF Crash
<1>16. CASE ManualUnlock
  BY Zenon, <1>16 DEF ManualUnlock
<1>17. CASE ManualUnlockFile
  BY Zenon, <1>17 DEF ManualUnlockFile
<1>18. CASE UNCHANGED vars
  BY Zenon, <1>18 DEF vars
<1> QED
  BY Zenon, <1>1, <1>2, <1>3, <1>4, <1>5, <1>6, <1>7, <1>8, <1>9, <1>10, <1>11,
     <1>12, <1>13, <1>14, <1>15, <1>16, <1>17, <1>18 DEF Next, Step

(* Every variable of the lock keeps its type; in particular a locked row   *)
(* exists and a request holds identifiers of existing rows only, even when *)
(* the table is emptied by hand.                                           *)
THEOREM TypeCorrect == Spec => []TypeOK
  BY TypeInit, TypeStep, PTL DEF Spec

-----------------------------------------------------------------------------

(* No request holds a lock at the start. *)
LEMMA LockInit == Init => LockInv
  BY Zenon, LockerConstants DEF Init, LockInv, FileInv, ViewOfRows, HoldersInv, Holds, Locking

(* Every step keeps the rows and their holders in line. *)
LEMMA LockStep == TypeOK /\ LockInv /\ [Next]_vars => LockInv'
<1> SUFFICES ASSUME TypeOK, LockInv, [Next]_vars PROVE LockInv'
  BY Zenon
<1> USE LockerConstants DEF TypeOK, LockInv, FileInv, ViewOfRows, HoldersInv, Holds, GoTo,
        Locking, Final
<1>1. ASSUME NEW r \in Request, Dispatch(r) PROVE LockInv'
  BY <1>1 DEF Dispatch
<1>2. ASSUME NEW r \in Request, OpenFile(r) PROVE LockInv'
  BY <1>2 DEF OpenFile
<1>3. ASSUME NEW r \in Request, FileTimeout(r) PROVE LockInv'
  BY <1>3 DEF FileTimeout
<1>4. ASSUME NEW r \in Request, ForceFile(r) PROVE LockInv'
  BY Zenon, <1>4 DEF ForceFile
<1>5. ASSUME NEW r \in Request, ReadRows(r) PROVE LockInv'
  BY <1>5 DEF ReadRows
<1>6. ASSUME NEW r \in Request, NEW n \in Name, CreateRow(r, n) PROVE LockInv'
  BY <1>6 DEF CreateRow
<1>7. ASSUME NEW r \in Request, DuplicateRow(r) PROVE LockInv'
  BY Zenon, <1>7 DEF DuplicateRow
<1>8. ASSUME NEW r \in Request, RowsReady(r) PROVE LockInv'
  BY SMTT(30), <1>8 DEF RowsReady
<1>9. ASSUME NEW r \in Request, RowsFree(r) PROVE LockInv'
  BY <1>9 DEF RowsFree
<1>10. ASSUME NEW r \in Request, RowsTimeout(r) PROVE LockInv'
  BY <1>10 DEF RowsTimeout
<1>11. ASSUME NEW r \in Request, MarkRows(r) PROVE LockInv'
  BY <1>11 DEF MarkRows
<1>12. ASSUME NEW r \in Request, RemoveFile(r) PROVE LockInv'
  BY <1>12 DEF RemoveFile
<1>13. ASSUME NEW r \in Request, ViewReturns(r) PROVE LockInv'
  BY <1>13 DEF ViewReturns
<1>14. ASSUME NEW r \in Request, ViewFails(r) PROVE LockInv'
  BY <1>14 DEF ViewFails
<1>15. ASSUME NEW r \in Request, Crash(r) PROVE LockInv'
  BY <1>15 DEF Crash
<1>16. CASE ManualUnlock
  BY Zenon, <1>16 DEF ManualUnlock
<1>17. CASE ManualUnlockFile
  BY Zenon, <1>17 DEF ManualUnlockFile
<1>18. CASE UNCHANGED vars
  BY ZenonT(30), <1>18 DEF vars
<1> QED
  BY Zenon, <1>1, <1>2, <1>3, <1>4, <1>5, <1>6, <1>7, <1>8, <1>9, <1>10, <1>11,
     <1>12, <1>13, <1>14, <1>15, <1>16, <1>17, <1>18 DEF Next, Step

(* There are no locks at the start. *)
LEMMA BlameInit == Init => BlameInv
  BY Zenon, LockerConstants DEF Init, BlameInv

(* After every step, each lock file and locked row has a request that      *)
(* holds it or has died.                                                   *)
LEMMA BlameStep == TypeOK /\ BlameInv /\ [Next]_vars => BlameInv'
<1> SUFFICES ASSUME TypeOK, BlameInv, [Next]_vars PROVE BlameInv'
  BY Zenon
<1> USE LockerConstants DEF TypeOK, BlameInv, Holds, GoTo, Locking, Final
<1>1. ASSUME NEW r \in Request, Dispatch(r) PROVE BlameInv'
  BY Zenon, <1>1 DEF Dispatch
<1>2. ASSUME NEW r \in Request, OpenFile(r) PROVE BlameInv'
  BY Zenon, <1>2 DEF OpenFile
<1>3. ASSUME NEW r \in Request, FileTimeout(r) PROVE BlameInv'
  BY Zenon, <1>3 DEF FileTimeout
<1>4. ASSUME NEW r \in Request, ForceFile(r) PROVE BlameInv'
  BY Zenon, <1>4 DEF ForceFile
<1>5. ASSUME NEW r \in Request, ReadRows(r) PROVE BlameInv'
  BY Zenon, <1>5 DEF ReadRows
<1>6. ASSUME NEW r \in Request, NEW n \in Name, CreateRow(r, n) PROVE BlameInv'
  BY Zenon, <1>6 DEF CreateRow
<1>7. ASSUME NEW r \in Request, DuplicateRow(r) PROVE BlameInv'
  BY Zenon, <1>7 DEF DuplicateRow
<1>8. ASSUME NEW r \in Request, RowsReady(r) PROVE BlameInv'
  BY Zenon, <1>8 DEF RowsReady
<1>9. ASSUME NEW r \in Request, RowsFree(r) PROVE BlameInv'
  BY Zenon, <1>9 DEF RowsFree
<1>10. ASSUME NEW r \in Request, RowsTimeout(r) PROVE BlameInv'
  BY Zenon, <1>10 DEF RowsTimeout
<1>11. ASSUME NEW r \in Request, MarkRows(r) PROVE BlameInv'
  BY Zenon, <1>11 DEF MarkRows
<1>12. ASSUME NEW r \in Request, RemoveFile(r) PROVE BlameInv'
  <2>1. CASE GoTo(r, "remove", "view")
    BY Zenon, <1>12, <2>1 DEF RemoveFile
  <2>2. CASE GoTo(r, "removeErr", "refused")
    <3>1. ~Holds(r) /\ pc[r] # "dead"
      BY Zenon, <2>2
    <3>2. \A q \in Request : Holds(q) \/ pc[q] = "dead" => Holds(q)' \/ pc'[q] = "dead"
      BY Zenon, <2>2, <3>1
    <3> QED
      BY Zenon, <1>12, <3>2 DEF RemoveFile
  <2> QED
    BY Zenon, <1>12, <2>1, <2>2 DEF RemoveFile
<1>13. ASSUME NEW r \in Request, ViewReturns(r) PROVE BlameInv'
  BY Zenon, <1>13 DEF ViewReturns
<1>14. ASSUME NEW r \in Request, ViewFails(r) PROVE BlameInv'
  BY Zenon, <1>14 DEF ViewFails
<1>15. ASSUME NEW r \in Request, Crash(r) PROVE BlameInv'
  BY Zenon, <1>15 DEF Crash
<1>16. CASE ManualUnlock
  BY Zenon, <1>16 DEF ManualUnlock
<1>17. CASE ManualUnlockFile
  BY Zenon, <1>17 DEF ManualUnlockFile
<1>18. CASE UNCHANGED vars
  BY Zenon, <1>18 DEF vars
<1> QED
  BY Zenon, <1>1, <1>2, <1>3, <1>4, <1>5, <1>6, <1>7, <1>8, <1>9, <1>10, <1>11,
     <1>12, <1>13, <1>14, <1>15, <1>16, <1>17, <1>18 DEF Next, Step

-----------------------------------------------------------------------------
(* Until a lock is broken by a timeout or by hand, no two views that share *)
(* a name run at the same time, whatever requests are killed or fail.      *)
THEOREM MutualExclusionHolds == Spec => []MutualExclusion
<1>1. LockInv => MutualExclusion
  BY Zenon DEF LockInv, HoldersInv, Holds, MutualExclusion
<1> QED
  BY <1>1, TypeInit, TypeStep, LockInit, LockStep, PTL DEF Spec

(* Until a lock is broken, a request never tries to create a row of        *)
(* LockTable that another request has created since it read the table.     *)
THEOREM NoDuplicateRowHolds == Spec => []NoDuplicateRow
<1>1. LockInv => NoDuplicateRow
  BY Zenon DEF LockInv, ViewOfRows, NoDuplicateRow
<1> QED
  BY <1>1, TypeInit, TypeStep, LockInit, LockStep, PTL DEF Spec

(* In production the names of a failed request stay locked: no view of     *)
(* one of these names runs until somebody unlocks Bridge by hand.          *)
THEOREM FailedKeepsLocksHolds == Spec => []FailedKeepsLocks
<1>1. LockInv => FailedKeepsLocks
  BY Zenon DEF LockInv, HoldersInv, Holds, FailedKeepsLocks
<1> QED
  BY <1>1, TypeInit, TypeStep, LockInit, LockStep, PTL DEF Spec

(* Once all requests have returned, only killed processes have left the    *)
(* lock file behind, and only they or, in production, failed views have    *)
(* left rows locked, however often a lock was broken.                      *)
THEOREM QuiescentCleanHolds == Spec => []QuiescentClean
<1>1. BlameInv => QuiescentClean
  BY Zenon DEF BlameInv, Holds, QuiescentClean, Locking, Final
<1> QED
  BY <1>1, TypeInit, TypeStep, BlameInit, BlameStep, PTL DEF Spec
=============================================================================
