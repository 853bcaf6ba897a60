----------------------------- MODULE UndoManager -----------------------------
(***************************************************************************)
(* mxUndoManager and mxUndoableEdit of the graph library Bridge shows      *)
(* report graphs with: a bounded history of edits and an index into it.    *)
(* An edit is abstracted to the version of the document it was made on and *)
(* the version it produced.  Undoing it executes its changes backwards,    *)
(* which yields the former version only when the document is at the        *)
(* latter; otherwise the changes meet a document they were not made for,   *)
(* and the outcome is Broken.                                              *)
(*                                                                         *)
(* An undo goes back to the nearest significant edit (edits of the         *)
(* selection are insignificant).  The listeners that each undone edit      *)
(* notifies may edit the document themselves, so the iterations of the     *)
(* loop are steps of their own.                                            *)
(***************************************************************************)
EXTENDS Integers, Sequences

CONSTANTS Version,   \* versions of the document
          Broken,    \* the outcome of undoing an edit out of order
          Size       \* maximum length of the history, 0 when unlimited

ASSUME UndoConstants == Broken \notin Version /\ Size \in Nat

VARIABLES version,         \* the document
          history,         \* the edits
          indexOfNextAdd,  \* number of edits that are done and not undone
          loop             \* "idle", or the loop that is running

undoVars == <<version, history, indexOfNextAdd, loop>>

Edit == [from : Version, to : Version, significant : BOOLEAN, undone : BOOLEAN, redone : BOOLEAN]

NewEdit(from, to, significant) ==
    [from |-> from, to |-> to, significant |-> significant, undone |-> FALSE, redone |-> FALSE]

UndoInit == /\ version \in Version
            /\ history = <<>>
            /\ indexOfNextAdd = 0
            /\ loop = "idle"

(* mxUndoableEdit.undo and redo: the changes are executed once. *)
UndoneVersion(e, v) == IF e.undone THEN v ELSE IF v = e.to THEN e.from ELSE Broken

RedoneVersion(e, v) == IF e.redone THEN v ELSE IF v = e.from THEN e.to ELSE Broken

Trimmed_Bug == history

(* trim: the edits behind the index are dropped. *)
Trimmed == IF Len(history) > indexOfNextAdd THEN SubSeq(history, 1, indexOfNextAdd) ELSE history

(* undoableEditHappened: also a listener of an undone edit may come here,  *)
(* which cuts off the edit that is just undone.  Edits by listeners during *)
(* a redo are left out: the loop of redo keeps the length of the history   *)
(* it started with.                                                        *)
UndoableEditHappened(to, significant) ==
    /\ loop # "redo"
    /\ LET kept == IF Size > 0 /\ Size = Len(Trimmed) THEN Tail(Trimmed) ELSE Trimmed
       IN  /\ history' = Append(kept, NewEdit(version, to, significant))
           /\ indexOfNextAdd' = Len(kept) + 1
    /\ version' = to
    /\ UNCHANGED loop

UndoOne_Bug ==
    LET i == indexOfNextAdd
        e == history[i]
    IN  /\ indexOfNextAdd' = i - 1
        /\ version' = UndoneVersion(e, version)
        /\ history' = [history EXCEPT ![i].undone = TRUE]
        /\ loop' = IF e.significant \/ i = 1 THEN "idle" ELSE "undo"

(* One iteration of the loop of undo. *)
UndoOne ==
    LET i == indexOfNextAdd
        e == history[i]
    IN  /\ indexOfNextAdd' = i - 1
        /\ version' = UndoneVersion(e, version)
        /\ history' = [history EXCEPT ![i] = [@ EXCEPT !.undone = TRUE, !.redone = FALSE]]
        /\ loop' = IF e.significant \/ i = 1 THEN "idle" ELSE "undo"

(* One iteration of the loop of redo. *)
RedoOne ==
    LET i == indexOfNextAdd + 1
        e == history[i]
    IN  /\ indexOfNextAdd' = i
        /\ version' = RedoneVersion(e, version)
        /\ history' = [history EXCEPT ![i] = [@ EXCEPT !.undone = FALSE, !.redone = TRUE]]
        /\ loop' = IF e.significant \/ i = Len(history) THEN "idle" ELSE "redo"

Undo == /\ loop \in {"idle", "undo"}
        /\ indexOfNextAdd > 0
        /\ UndoOne

Redo == /\ loop \in {"idle", "redo"}
        /\ indexOfNextAdd < Len(history)
        /\ RedoOne

(* clear: the editor opens another document. *)
Clear == /\ loop = "idle"
         /\ version' \in Version
         /\ history' = <<>>
         /\ indexOfNextAdd' = 0
         /\ UNCHANGED loop

UndoNext == \/ \E to \in Version, significant \in BOOLEAN : UndoableEditHappened(to, significant)
            \/ Undo
            \/ Redo
            \/ Clear

UndoSpec == UndoInit /\ [][UndoNext]_undoVars

-----------------------------------------------------------------------------
(* The types of the variables. *)
UndoTypeOK ==
    /\ version \in Version \cup {Broken}
    /\ history \in Seq(Edit)
    /\ indexOfNextAdd \in Int
    /\ loop \in {"idle", "undo", "redo"}

(* Undo and redo never execute changes on a document they were not made    *)
(* for, in whatever order edits, undos, redos and edits by listeners come. *)
NeverBroken == version # Broken

(* The index is a position of the history, and the history is within its   *)
(* size: undo and redo find an edit where they look for it.                *)
IndexInHistory ==
    /\ indexOfNextAdd \in 0 .. Len(history)
    /\ Size > 0 => Len(history) <= Size
    /\ loop = "redo" => indexOfNextAdd < Len(history)

(* The edits of the history follow on each other, the document is at the   *)
(* index, and exactly the edits behind it are undone.                      *)
Chained ==
    /\ \A i \in 1 .. Len(history) - 1 : history[i].to = history[i + 1].from
    /\ \A i \in 1 .. Len(history) :
          /\ i = indexOfNextAdd => version = history[i].to
          /\ i = indexOfNextAdd + 1 => version = history[i].from
          /\ i <= indexOfNextAdd => ~history[i].undone
          /\ i > indexOfNextAdd => ~history[i].redone
=============================================================================
