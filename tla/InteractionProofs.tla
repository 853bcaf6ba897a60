-------------------------- MODULE InteractionProofs --------------------------
(***************************************************************************)
(* Proofs about the machinery under the editor of graphs: the undo history *)
(* of UndoManager never breaks the document, for every set of versions and *)
(* every size of the history, and the filter of MouseDispatch keeps the    *)
(* events of a gesture in order, for any positions and number of presses.  *)
(***************************************************************************)
EXTENDS UndoManager, MouseDispatch, TLAPS

-----------------------------------------------------------------------------
(* The undo history.                                                       *)

(* The inductive invariant: an intact document with a chained history.     *)
UndoInv == UndoTypeOK /\ NeverBroken /\ IndexInHistory /\ Chained

(* What undoableEditHappened keeps of the history ends at the version that *)
(* the new edit starts from.                                               *)
Kept == IF Size > 0 /\ Size = Len(Trimmed) THEN Tail(Trimmed) ELSE Trimmed

(* trim leaves the edits before the index, all of them done. *)
LEMMA TrimmedChain ==
    ASSUME UndoInv
    PROVE  /\ Trimmed \in Seq(Edit)
           /\ Len(Trimmed) = indexOfNextAdd
           /\ \A i \in 1 .. Len(Trimmed) : Trimmed[i] = history[i]
  BY DEF UndoInv, UndoTypeOK, IndexInHistory, Trimmed

(* Dropping the oldest edit leaves a chain of done edits that is short     *)
(* enough to be extended.                                                  *)
LEMMA KeptChain ==
    ASSUME UndoInv
    PROVE  /\ Kept \in Seq(Edit)
           /\ Size > 0 => Len(Kept) + 1 <= Size
           /\ \A i \in 1 .. Len(Kept) : ~Kept[i].undone
           /\ \A i \in 1 .. Len(Kept) - 1 : Kept[i].to = Kept[i + 1].from
           /\ Len(Kept) > 0 => Kept[Len(Kept)].to = version
<1> USE TrimmedChain, UndoConstants
<1>1. /\ indexOfNextAdd \in 0 .. Len(history)
      /\ Len(history) \in Nat
      /\ Size > 0 => Len(history) <= Size
  BY DEF UndoInv, UndoTypeOK, IndexInHistory
<1>2. /\ \A i \in 1 .. Len(Trimmed) : ~Trimmed[i].undone
      /\ \A i \in 1 .. Len(Trimmed) - 1 : Trimmed[i].to = Trimmed[i + 1].from
      /\ Len(Trimmed) > 0 => Trimmed[Len(Trimmed)].to = version
  <2>1. ASSUME NEW i \in 1 .. Len(Trimmed)
        PROVE  /\ Trimmed[i] = history[i] /\ ~Trimmed[i].undone
               /\ i < Len(Trimmed) => Trimmed[i].to = history[i + 1].from
               /\ i = Len(Trimmed) => Trimmed[i].to = version
    <3>1. i \in 1 .. Len(history) /\ i <= indexOfNextAdd /\ Trimmed[i] = history[i]
      BY <1>1
    <3>2. i < indexOfNextAdd => i \in 1 .. Len(history) - 1
      BY <1>1
    <3> QED
      BY Zenon, <3>1, <3>2 DEF UndoInv, Chained
  <2>2. ASSUME NEW i \in 1 .. Len(Trimmed) - 1
        PROVE  Trimmed[i].to = Trimmed[i + 1].from
    <3>1. i \in 1 .. Len(Trimmed) /\ i < Len(Trimmed) /\ i + 1 \in 1 .. Len(Trimmed)
      BY <1>1
    <3> QED
      BY Zenon, <2>1, <3>1
  <2>3. Len(Trimmed) > 0 => Len(Trimmed) \in 1 .. Len(Trimmed)
    BY <1>1
  <2> QED
    BY Zenon, <2>1, <2>2, <2>3
<1>3. CASE Size > 0 /\ Size = Len(Trimmed)
  <2>1. /\ Kept = Tail(Trimmed)
        /\ Trimmed # <<>>
        /\ Len(Kept) = Len(Trimmed) - 1
        /\ Kept \in Seq(Edit)
        /\ \A i \in 1 .. Len(Kept) : Kept[i] = Trimmed[i + 1]
    BY <1>3 DEF Kept
  <2> QED
    BY <1>2, <1>3, <2>1
<1>4. CASE ~(Size > 0 /\ Size = Len(Trimmed))
  BY <1>1, <1>2, <1>4 DEF Kept
<1> QED
  BY Zenon, <1>3, <1>4

(* The history starts empty on an intact document. *)
LEMMA UndoInvInit == UndoInit => UndoInv
  BY UndoConstants DEF UndoInit, UndoInv, UndoTypeOK, NeverBroken, IndexInHistory, Chained

(* An edit, by the user or by a listener during an undo, extends the chain. *)
LEMMA UndoInvEdit ==
    ASSUME UndoInv, NEW to \in Version, NEW significant \in BOOLEAN,
           UndoableEditHappened(to, significant)
    PROVE  UndoInv'
<1> USE KeptChain, UndoConstants
<1> DEFINE e == NewEdit(version, to, significant)
<1>1. /\ e \in Edit
      /\ e.from = version /\ e.to = to /\ ~e.undone /\ ~e.redone
  BY Zenon DEF UndoInv, UndoTypeOK, NeverBroken, NewEdit, Edit
<1>2. /\ history' = Append(Kept, e)
      /\ indexOfNextAdd' = Len(Kept) + 1
      /\ version' = to
      /\ loop' = loop /\ loop # "redo"
  BY Zenon DEF UndoableEditHappened, Kept
<1> HIDE DEF e
<1>3. /\ history' \in Seq(Edit)
      /\ Len(history') = Len(Kept) + 1
      /\ Len(Kept) \in Nat
      /\ \A i \in 1 .. Len(Kept) : history'[i] = Kept[i]
      /\ history'[Len(Kept) + 1] = e
  BY <1>1, <1>2
<1>4. UndoTypeOK' /\ NeverBroken'
  BY <1>2, <1>3 DEF UndoInv, UndoTypeOK, NeverBroken
<1>5. IndexInHistory'
  BY <1>2, <1>3 DEF IndexInHistory
<1>6. Chained'
  BY <1>1, <1>2, <1>3 DEF Chained
<1> QED
  BY Zenon, <1>4, <1>5, <1>6 DEF UndoInv

(* Undoing the edit before the index leads back to where it was made. *)
LEMMA UndoInvUndo == ASSUME UndoInv, Undo PROVE UndoInv'
<1> USE UndoConstants
<1> DEFINE i == indexOfNextAdd
<1>1. /\ i \in 1 .. Len(history)
      /\ history[i] \in Edit
      /\ Len(history) \in Nat
      /\ version = history[i].to
      /\ ~history[i].undone
  BY DEF UndoInv, UndoTypeOK, IndexInHistory, Chained, Undo
<1>2. /\ version' = history[i].from
      /\ version' \in Version
  BY Zenon, <1>1 DEF Undo, UndoOne, UndoneVersion, Edit
<1>3. /\ history' \in Seq(Edit)
      /\ Len(history') = Len(history)
      /\ \A j \in 1 .. Len(history) : /\ history'[j].from = history[j].from
                                      /\ history'[j].to = history[j].to
                                      /\ j # i => history'[j] = history[j]
      /\ history'[i].undone /\ ~history'[i].redone
  <2> DEFINE e == [history[i] EXCEPT !.undone = TRUE, !.redone = FALSE]
  <2>1. /\ e \in Edit
        /\ e.from = history[i].from /\ e.to = history[i].to /\ e.undone = TRUE /\ e.redone = FALSE
    BY Zenon, <1>1 DEF Edit
  <2>2. history' = [history EXCEPT ![i] = e]
    BY Zenon DEF Undo, UndoOne
  <2> HIDE DEF e
  <2>3. history \in Seq(Edit)
    BY Zenon DEF UndoInv, UndoTypeOK
  <2>4. /\ history' \in Seq(Edit)
        /\ Len(history') = Len(history)
        /\ history'[i] = e
        /\ \A j \in 1 .. Len(history) : j # i => history'[j] = history[j]
    BY <1>1, <2>1, <2>2, <2>3
  <2> QED
    BY Zenon, <1>1, <2>1, <2>4
<1>4. /\ indexOfNextAdd' = i - 1
      /\ loop' \in {"idle", "undo"}
  BY Zenon DEF Undo, UndoOne
<1>5. UndoTypeOK' /\ NeverBroken'
  BY <1>1, <1>2, <1>3, <1>4 DEF UndoTypeOK, NeverBroken
<1>6. IndexInHistory'
  BY <1>1, <1>3, <1>4 DEF UndoInv, IndexInHistory
<1>7. Chained'
  BY <1>1, <1>2, <1>3, <1>4 DEF UndoInv, Chained
<1> QED
  BY Zenon, <1>5, <1>6, <1>7 DEF UndoInv

(* Redoing the edit behind the index leads on to what it produced. *)
LEMMA UndoInvRedo == ASSUME UndoInv, Redo PROVE UndoInv'
<1> USE UndoConstants
<1> DEFINE i == indexOfNextAdd + 1
<1>1. /\ i \in 1 .. Len(history)
      /\ i = indexOfNextAdd + 1
      /\ history[i] \in Edit
      /\ Len(history) \in Nat
      /\ version = history[i].from
      /\ ~history[i].redone
      /\ i > indexOfNextAdd
  <2>1. i \in 1 .. Len(history) /\ Len(history) \in Nat /\ i = indexOfNextAdd + 1 /\ i > indexOfNextAdd
    BY DEF UndoInv, UndoTypeOK, IndexInHistory, Redo
  <2>2. history[i] \in Edit
    BY <2>1 DEF UndoInv, UndoTypeOK
  <2> HIDE DEF i
  <2>3. version = history[i].from /\ ~history[i].redone
    BY Zenon, <2>1 DEF UndoInv, Chained
  <2> QED
    BY Zenon, <2>1, <2>2, <2>3
<1>2. /\ version' = history[i].to
      /\ version' \in Version
  BY Zenon, <1>1 DEF Redo, RedoOne, RedoneVersion, Edit
<1>3. /\ history' \in Seq(Edit)
      /\ Len(history') = Len(history)
      /\ \A j \in 1 .. Len(history) : /\ history'[j].from = history[j].from
                                      /\ history'[j].to = history[j].to
                                      /\ j # i => history'[j] = history[j]
      /\ ~history'[i].undone /\ history'[i].redone
  <2> DEFINE e == [history[i] EXCEPT !.undone = FALSE, !.redone = TRUE]
  <2>1. /\ e \in Edit
        /\ e.from = history[i].from /\ e.to = history[i].to /\ e.undone = FALSE /\ e.redone = TRUE
    BY Zenon, <1>1 DEF Edit
  <2>2. history' = [history EXCEPT ![i] = e]
    BY Zenon DEF Redo, RedoOne
  <2> HIDE DEF e
  <2>3. history \in Seq(Edit)
    BY Zenon DEF UndoInv, UndoTypeOK
  <2>4. /\ history' \in Seq(Edit)
        /\ Len(history') = Len(history)
        /\ history'[i] = e
        /\ \A j \in 1 .. Len(history) : j # i => history'[j] = history[j]
    BY <1>1, <2>1, <2>2, <2>3
  <2> QED
    BY Zenon, <1>1, <2>1, <2>4
<1>4. /\ indexOfNextAdd' = i
      /\ loop' \in {"idle", "redo"}
      /\ loop' = "redo" => i # Len(history)
  BY Zenon DEF Redo, RedoOne
<1>5. UndoTypeOK' /\ NeverBroken'
  BY <1>1, <1>2, <1>3, <1>4 DEF UndoTypeOK, NeverBroken
<1>6. IndexInHistory'
  BY <1>1, <1>3, <1>4 DEF UndoInv, IndexInHistory
<1>7. Chained'
  <2> HIDE DEF i
  <2>1. /\ \A j \in 1 .. Len(history) - 1 : history[j].to = history[j + 1].from
        /\ \A j \in 1 .. Len(history) : /\ j <= indexOfNextAdd => ~history[j].undone
                                        /\ j > indexOfNextAdd => ~history[j].redone
    BY Zenon DEF UndoInv, Chained
  <2>2. \A j \in 1 .. Len(history) - 1 : history'[j].to = history'[j + 1].from
    <3>1. \A j \in 1 .. Len(history) - 1 : j \in 1 .. Len(history) /\ j + 1 \in 1 .. Len(history)
      BY <1>1
    <3> QED
      BY Zenon, <1>3, <2>1, <3>1
  <2>3. \A j \in 1 .. Len(history) : /\ j <= i => ~history'[j].undone
                                     /\ j > i => ~history'[j].redone
    <3>1. \A j \in 1 .. Len(history) : j <= i /\ j # i => j <= indexOfNextAdd
      BY <1>1 DEF UndoInv, UndoTypeOK
    <3>2. \A j \in 1 .. Len(history) : j > i => j > indexOfNextAdd /\ j # i
      BY <1>1 DEF UndoInv, UndoTypeOK
    <3> QED
      BY Zenon, <1>3, <2>1, <3>1, <3>2
  <2>4. ASSUME NEW j \in 1 .. Len(history), j = i + 1
        PROVE  version' = history'[j].from
    <3>1. i \in 1 .. Len(history) - 1
      BY <1>1, <2>4
    <3> QED
      BY Zenon, <1>2, <1>3, <2>1, <2>4, <3>1
  <2>5. version' = history'[i].to
    BY Zenon, <1>1, <1>2, <1>3
  <2> QED
    BY Zenon, <1>1, <1>3, <1>4, <2>2, <2>3, <2>4, <2>5 DEF Chained
<1> QED
  BY Zenon, <1>5, <1>6, <1>7 DEF UndoInv

(* Every edit, undo, redo and clearing keeps the history chained. *)
LEMMA UndoInvStep == UndoInv /\ [UndoNext]_undoVars => UndoInv'
<1> SUFFICES ASSUME UndoInv, [UndoNext]_undoVars PROVE UndoInv'
  BY Zenon
<1>1. ASSUME NEW to \in Version, NEW significant \in BOOLEAN, UndoableEditHappened(to, significant)
      PROVE  UndoInv'
  BY Zenon, <1>1, UndoInvEdit
<1>2. CASE Undo
  BY Zenon, <1>2, UndoInvUndo
<1>3. CASE Redo
  BY Zenon, <1>3, UndoInvRedo
<1>4. CASE Clear
  BY <1>4, UndoConstants
     DEF Clear, UndoInv, UndoTypeOK, NeverBroken, IndexInHistory, Chained
<1>5. CASE UNCHANGED undoVars
  BY Zenon, <1>5 DEF undoVars, UndoInv, UndoTypeOK, NeverBroken, IndexInHistory, Chained
<1> QED
  BY Zenon, <1>1, <1>2, <1>3, <1>4, <1>5 DEF UndoNext

(* Undo and redo never meet a document their changes were not made for,    *)
(* also when the listeners of an undone edit edit the document.            *)
THEOREM UndoNeverBreaks == UndoSpec => []NeverBroken
<1>1. UndoInv => NeverBroken
  BY Zenon DEF UndoInv
<1> QED
  BY <1>1, UndoInvInit, UndoInvStep, PTL DEF UndoSpec

(* undo and redo always find an edit at the index, and the history never   *)
(* outgrows its size.                                                      *)
THEOREM IndexStaysInHistory == UndoSpec => []IndexInHistory
<1>1. UndoInv => IndexInHistory
  BY Zenon DEF UndoInv
<1> QED
  BY <1>1, UndoInvInit, UndoInvStep, PTL DEF UndoSpec

(* The edits of the history follow on each other, and exactly those behind *)
(* the index are undone.                                                   *)
THEOREM HistoryStaysChained == UndoSpec => []Chained
<1>1. UndoInv => Chained
  BY Zenon DEF UndoInv
<1> QED
  BY <1>1, UndoInvInit, UndoInvStep, PTL DEF UndoSpec

-----------------------------------------------------------------------------
(* The filter of mouse events.                                             *)

Devices == {"left", "right", "touch"}
Events == [name : {"down", "move", "up"}, mouse : BOOLEAN, popup : BOOLEAN, count : {1, 2}, x : Position, id : Int]
FilterType ==
    [isMouseDown : BOOLEAN, isMouseTrigger : BOOLEAN, lastEvent : Int, eventSource : BOOLEAN,
     ignoreMouseEvents : BOOLEAN, lastTouch : [x : Position \cup {None}, timed : BOOLEAN, id : Int],
     fireDoubleClick : BOOLEAN, doubleClickCounter : Nat]
HoldType == [thread : BOOLEAN, inProgress : BOOLEAN, valid : BOOLEAN, x : Position \cup {None}]

DispatchType ==
    /\ firefox \in BOOLEAN
    /\ pointer \in [kind : Devices \cup {None}, count : {1, 2}, x : Position \cup {None}, at : Position \cup {None},
                    synthetic : 0 .. 2, presses : Nat, device : Devices \cup {None}, moved : BOOLEAN,
                    last : Events \cup {None}]
    /\ filter \in FilterType
    /\ hold \in HoldType
    /\ seen \in {"up", "down"}
PointerInv ==
    /\ pointer.kind # None => pointer.synthetic = 0 /\ pointer.x # None /\ pointer.device = pointer.kind
    /\ pointer.kind = "touch" => pointer.count = 1
    /\ pointer.synthetic # 0 => firefox /\ pointer.x # None
    /\ pointer.x = None => pointer.presses = 0
FreshInv ==
    /\ filter.lastEvent <= 4 * pointer.presses + 3 - pointer.synthetic
    /\ pointer.kind # None => filter.lastEvent <= 4 * pointer.presses
    /\ filter.lastTouch.id <= 4 * pointer.presses + 3
ButtonInv ==
    /\ MouseDownAsSeen
    /\ pointer.synthetic = 2 => ~filter.isMouseDown
    /\ pointer.synthetic = 1 => (seen = "up" <=> filter.ignoreMouseEvents)
    /\ filter.ignoreMouseEvents => pointer.synthetic # 0
    /\ filter.isMouseDown /\ pointer.kind = None /\ pointer.synthetic = 0 => pointer.at = None /\ pointer.device # "touch"
    /\ pointer.kind = "left" /\ pointer.count = 2 => ~filter.isMouseDown
    /\ filter.fireDoubleClick => pointer.kind = "touch" /\ ~filter.isMouseDown
LastInv ==
    pointer.last # None =>
        LET me == pointer.last IN
        /\ ~me.mouse => me.count = 1 /\ ~me.popup
        /\ me.name = "down" => /\ filter.lastEvent = me.id
                               /\ isDoubleClick(me) \/ filter.isMouseDown
                               /\ me.mouse \/ filter.lastTouch.id = me.id
                               /\ pointer.kind # None \/ pointer.synthetic = 1
                               /\ pointer.synthetic = 1 => me.mouse /\ ~isDoubleClick(me)
        /\ me.name = "move" => filter.lastEvent = me.id /\ pointer.synthetic = 0
        /\ me.name = "up" => ~filter.isMouseDown /\ pointer.kind = None /\ pointer.synthetic # 1
                             /\ (pointer.synthetic = 2 <=> ~me.mouse /\ firefox)
                             /\ me.id <= 4 * pointer.presses + 3 - pointer.synthetic
HoldInv ==
    hold.valid => /\ pointer.kind = "touch" /\ ~pointer.moved /\ pointer.x = hold.x
                  /\ filter.isMouseDown /\ ~filter.isMouseTrigger
DispatchInv == DispatchType /\ PointerInv /\ FreshInv /\ ButtonInv /\ LastInv /\ HoldInv

-----------------------------------------------------------------------------
(* An event has the fields that it was made with. *)
LEMMA EventFields ==
    ASSUME NEW name \in {"down", "move", "up"}, NEW device \in Devices, NEW count \in {1, 2}, NEW x \in Position,
           NEW id \in Int
    PROVE  LET me == Event(name, device, count, x, id) IN
           /\ me \in Events
           /\ me.name = name /\ (me.mouse <=> device # "touch") /\ (me.popup <=> device = "right")
           /\ me.count = count /\ me.x = x /\ me.id = id
<1> DEFINE me == Event(name, device, count, x, id)
<1>1. me \in Events
  BY Zenon DEF Event, Events
<1>2. me.name = name /\ me.count = count /\ me.x = x /\ me.id = id
  BY Zenon DEF Event
<1>3. me.mouse <=> device # "touch"
  BY Zenon DEF Event
<1>4. me.popup <=> device = "right"
  BY Zenon DEF Event
<1> QED
  BY Zenon, <1>1, <1>2, <1>3, <1>4

(* What the filter remembers of an event that reaches isEventIgnored,      *)
(* field by field.                                                         *)
LEMMA FilterFields ==
    ASSUME NEW f \in FilterType, NEW me \in Events, firefox \in BOOLEAN
    PROVE  LET g == AfterFilter(f, me) IN
           /\ g \in FilterType
           /\ isDoubleClick(me) => g.isMouseDown = f.isMouseDown /\ g.isMouseTrigger = f.isMouseTrigger
           /\ ~isDoubleClick(me) =>
                 /\ g.isMouseDown <=> (me.name = "down" \/ (f.isMouseDown /\ me.name # "up"))
                 /\ g.isMouseTrigger <=> (IF me.name = "down" /\ ~f.isMouseDown THEN me.mouse ELSE f.isMouseTrigger)
           /\ g.lastEvent = me.id
           /\ g.ignoreMouseEvents <=> (IF IgnoredAsSynthetic(f, me) THEN me.name # "up"
                                       ELSE f.ignoreMouseEvents \/ (firefox /\ ~me.mouse /\ me.name = "up"))
           /\ g.lastTouch = f.lastTouch
           /\ g.fireDoubleClick = f.fireDoubleClick
<1> DEFINE s == AfterSource(f, me)
           y == AfterSynthetic(s, me)
           q == AfterSequence(y, me)
<1>1. s \in FilterType
  BY Zenon DEF AfterSource, FilterType, Events
<1>2. /\ s.isMouseDown = f.isMouseDown /\ s.isMouseTrigger = f.isMouseTrigger /\ s.lastEvent = me.id
      /\ s.ignoreMouseEvents = f.ignoreMouseEvents /\ s.lastTouch = f.lastTouch
      /\ s.fireDoubleClick = f.fireDoubleClick
  BY Zenon DEF AfterSource, FilterType
<1> HIDE DEF s
<1>3. y \in FilterType
  BY ZenonT(30), <1>1 DEF AfterSynthetic, FilterType, Events, IgnoredAsSynthetic
<1>4. /\ y.isMouseDown = s.isMouseDown /\ y.isMouseTrigger = s.isMouseTrigger /\ y.lastEvent = s.lastEvent
      /\ y.lastTouch = s.lastTouch /\ y.fireDoubleClick = s.fireDoubleClick
  BY Zenon, <1>1 DEF AfterSynthetic, FilterType
<1>5. y.ignoreMouseEvents = (IF IgnoredAsSynthetic(s, me) THEN me.name # "up"
                               ELSE s.ignoreMouseEvents \/ (firefox /\ ~me.mouse /\ me.name = "up"))
  BY Zenon, <1>1 DEF AfterSynthetic, FilterType
<1>6. IgnoredAsSynthetic(s, me) = IgnoredAsSynthetic(f, me)
  BY Zenon, <1>2 DEF IgnoredAsSynthetic
<1> HIDE DEF y
<1>7. q \in FilterType
  BY ZenonT(30), <1>3 DEF AfterSequence, FilterType, Events
<1>8. /\ q.ignoreMouseEvents = y.ignoreMouseEvents /\ q.lastEvent = y.lastEvent
      /\ q.lastTouch = y.lastTouch /\ q.fireDoubleClick = y.fireDoubleClick
  BY Zenon, <1>3 DEF AfterSequence, FilterType
<1>9. /\ q.isMouseDown = ((me.name = "down") \/ (y.isMouseDown /\ me.name # "up"))
      /\ q.isMouseTrigger = (IF me.name = "down" /\ ~y.isMouseDown THEN me.mouse ELSE y.isMouseTrigger)
  BY Zenon, <1>3 DEF AfterSequence, FilterType
<1> HIDE DEF q
<1>10. AfterFilter(f, me) = IF isDoubleClick(me) THEN y ELSE q
  BY Zenon DEF AfterFilter, s, y, q
<1>11. CASE isDoubleClick(me)
  BY Zenon, <1>11, <1>10, <1>2, <1>3, <1>4, <1>5, <1>6
<1>12. CASE ~isDoubleClick(me)
  BY Zenon, <1>12, <1>10, <1>2, <1>4, <1>5, <1>6, <1>7, <1>8, <1>9
<1> QED
  BY Zenon, <1>11, <1>12

(* Recording a touch for the double tap detection changes nothing else. *)
LEMMA TouchFields ==
    ASSUME NEW f \in FilterType, NEW me \in Events
    PROVE  LET g == AfterTouch(f, me) IN
           /\ g \in FilterType
           /\ g.isMouseDown = f.isMouseDown /\ g.isMouseTrigger = f.isMouseTrigger /\ g.lastEvent = f.lastEvent
           /\ g.ignoreMouseEvents = f.ignoreMouseEvents /\ g.fireDoubleClick = f.fireDoubleClick
           /\ g.lastTouch.id = IF ~me.mouse /\ me.name = "down" THEN me.id ELSE f.lastTouch.id
<1> DEFINE t == [x |-> me.x, timed |-> TRUE, id |-> me.id]
           g == [f EXCEPT !.lastTouch = t, !.doubleClickCounter = 0]
<1>1. t \in [x : Position \cup {None}, timed : BOOLEAN, id : Int] /\ t.id = me.id
  BY Zenon DEF Events
<1>2. AfterTouch(f, me) = IF ~me.mouse /\ me.name = "down" /\ f.lastTouch.id # me.id THEN g ELSE f
  BY Zenon DEF AfterTouch
<1> HIDE DEF t
<1>3. g \in FilterType
  BY Zenon, <1>1 DEF FilterType
<1>4. /\ g.isMouseDown = f.isMouseDown /\ g.isMouseTrigger = f.isMouseTrigger /\ g.lastEvent = f.lastEvent
      /\ g.ignoreMouseEvents = f.ignoreMouseEvents /\ g.fireDoubleClick = f.fireDoubleClick
      /\ g.lastTouch = t
  BY Zenon DEF FilterType
<1> HIDE DEF g
<1> QED
  BY Zenon, <1>1, <1>2, <1>3, <1>4

-----------------------------------------------------------------------------
(* The three ways through fireMouseEvent: the second press of a double     *)
(* tap, what follows it, and the rest.                                     *)

Tapped(me, recent) ==
    /\ isDoubleTap(filter, me, recent)
    /\ filter'.fireDoubleClick /\ filter'.isMouseDown = filter.isMouseDown
    /\ filter'.isMouseTrigger = filter.isMouseTrigger /\ filter'.lastEvent = filter.lastEvent
    /\ filter'.ignoreMouseEvents = filter.ignoreMouseEvents /\ filter'.lastTouch.id = filter.lastTouch.id
    /\ out' = "nothing" /\ hold' = hold /\ seen' = seen

TapOver(me) ==
    /\ isSecondTapOver(filter, me)
    /\ ~filter'.fireDoubleClick /\ ~filter'.isMouseDown
    /\ filter'.isMouseTrigger = filter.isMouseTrigger /\ filter'.lastEvent = filter.lastEvent
    /\ filter'.ignoreMouseEvents = filter.ignoreMouseEvents /\ filter'.lastTouch.id = filter.lastTouch.id
    /\ out' \in {"dblClick", "nothing"} /\ hold' = hold /\ seen' = seen

Filtered(me) ==
    /\ isDoubleClick(me) => filter'.isMouseDown = filter.isMouseDown /\ filter'.isMouseTrigger = filter.isMouseTrigger
    /\ ~isDoubleClick(me) =>
          /\ filter'.isMouseDown <=> (me.name = "down" \/ (filter.isMouseDown /\ me.name # "up"))
          /\ filter'.isMouseTrigger <=>
                (IF me.name = "down" /\ ~filter.isMouseDown THEN me.mouse ELSE filter.isMouseTrigger)
    /\ filter'.lastEvent = me.id
    /\ filter'.ignoreMouseEvents <=>
          (IF IgnoredAsSynthetic(filter, me) THEN me.name # "up"
           ELSE filter.ignoreMouseEvents \/ (firefox /\ ~me.mouse /\ me.name = "up"))
    /\ filter'.fireDoubleClick = filter.fireDoubleClick
    /\ filter'.lastTouch.id = IF ~me.mouse /\ me.name = "down" THEN me.id ELSE filter.lastTouch.id

Passed(me) ==
    /\ ~isSecondTapOver(filter, me)
    /\ Filtered(me)
    /\ \/ isEventIgnored(filter, me) /\ out' = "nothing" /\ hold' = hold /\ seen' = seen
       \/ /\ ~isEventIgnored(filter, me)
          /\ out' = me.name
          /\ seen' = IF me.name = "move" THEN seen ELSE me.name
          /\ hold' = AfterHold(hold, me)

(* Whatever fireMouseEvent decides, its results have their types. *)
LEMMA Outcome ==
    ASSUME DispatchType, NEW me \in Events, NEW recent \in BOOLEAN, fireMouseEvent(me, recent)
    PROVE  /\ filter' \in FilterType /\ hold' \in HoldType /\ seen' \in {"up", "down"}
           /\ Tapped(me, recent) \/ TapOver(me) \/ (~isDoubleTap(filter, me, recent) /\ Passed(me))
<1>0. filter \in FilterType /\ firefox \in BOOLEAN /\ hold \in HoldType /\ seen \in {"up", "down"}
  BY Zenon DEF DispatchType
<1>1. CASE isDoubleTap(filter, me, recent)
  <2> DEFINE t == [filter.lastTouch EXCEPT !.timed = FALSE]
             n == filter.doubleClickCounter + 1
  <2>1. filter' = [filter EXCEPT !.doubleClickCounter = n, !.fireDoubleClick = TRUE, !.lastTouch = t]
    BY Zenon, <1>0, <1>1 DEF fireMouseEvent, FilterType
  <2>2. t \in [x : Position \cup {None}, timed : BOOLEAN, id : Int] /\ t.id = filter.lastTouch.id
    BY Zenon, <1>0 DEF FilterType
  <2>2n. n \in Nat
    BY <1>0 DEF FilterType
  <2> HIDE DEF t, n
  <2>3. filter' \in FilterType
    BY Zenon, <1>0, <2>1, <2>2, <2>2n DEF FilterType
  <2>4. Tapped(me, recent)
    BY Zenon, <1>0, <1>1, <2>1, <2>2 DEF fireMouseEvent, Tapped, FilterType
  <2> QED
    BY Zenon, <1>0, <2>3, <2>4 DEF Tapped
<1>2. CASE ~isDoubleTap(filter, me, recent) /\ isSecondTapOver(filter, me)
  <2>1. filter' = [filter EXCEPT !.fireDoubleClick = FALSE, !.isMouseDown = FALSE] /\ hold' = hold /\ seen' = seen
        /\ out' \in {"dblClick", "nothing"}
    BY Zenon, <1>2 DEF fireMouseEvent
  <2>3. filter' \in FilterType
    BY Zenon, <1>0, <2>1 DEF FilterType
  <2>4. TapOver(me)
    BY Zenon, <1>0, <1>2, <2>1 DEF TapOver, FilterType
  <2> QED
    BY Zenon, <1>0, <2>1, <2>3, <2>4
<1>3. CASE ~isDoubleTap(filter, me, recent) /\ ~isSecondTapOver(filter, me)
  <2> DEFINE f == AfterTouch(filter, me)
  <2>1. Deliver(f, me)
    BY Zenon, <1>3 DEF fireMouseEvent
  <2>2. /\ f \in FilterType
        /\ f.isMouseDown = filter.isMouseDown /\ f.isMouseTrigger = filter.isMouseTrigger
        /\ f.lastEvent = filter.lastEvent
        /\ f.ignoreMouseEvents = filter.ignoreMouseEvents /\ f.fireDoubleClick = filter.fireDoubleClick
        /\ f.lastTouch.id = IF ~me.mouse /\ me.name = "down" THEN me.id ELSE filter.lastTouch.id
    BY Zenon, <1>0, TouchFields
  <2> HIDE DEF f
  <2>3. IgnoredAsSynthetic(f, me) = IgnoredAsSynthetic(filter, me)
    BY Zenon, <2>2 DEF IgnoredAsSynthetic
  <2>4. isEventIgnored(f, me) = isEventIgnored(filter, me)
    BY Zenon, <2>2, <2>3 DEF isEventIgnored, OutOfSequence
  <2>5. filter' = AfterFilter(f, me)
    BY Zenon, <2>1 DEF Deliver
  <2>6. filter' \in FilterType /\ Filtered(me)
    BY <1>0, <2>2, <2>3, <2>5, FilterFields DEF Filtered
  <2>7. AfterHold(hold, me) \in HoldType /\ me.name \in {"down", "up", "move"}
    BY Zenon, <1>0 DEF AfterHold, HoldType, Events
  <2> QED
    BY Zenon, <1>0, <1>3, <2>1, <2>4, <2>6, <2>7 DEF Deliver, Passed
<1> QED
  BY Zenon, <1>1, <1>2, <1>3

-----------------------------------------------------------------------------
(* One lemma for each thing that the browser does. *)

(* A button is pressed or a finger put on the container. *)
LEMMA PressStep ==
    ASSUME DispatchInv, NEW device \in Devices, NEW x \in Position, NEW recent \in BOOLEAN,
           BrowserPress(device, x, recent)
    PROVE  DispatchInv' /\ InOrder
<1> DEFINE again == recent /\ x = pointer.at
           count == IF device # "touch" /\ again THEN 3 - pointer.count ELSE 1
           me == Event("down", device, count, x, 4 * (pointer.presses + 1))
           n == pointer.presses + 1
           last == IF isDoubleTap(filter, me, recent) THEN None ELSE me
<1>0. DispatchType /\ PointerInv /\ FreshInv /\ ButtonInv /\ LastInv /\ HoldInv
  BY Zenon DEF DispatchInv
<1>1. /\ pointer.kind = None /\ pointer.synthetic = 0
      /\ recent => pointer.device = device
      /\ firefox' = firefox
  BY Zenon DEF BrowserPress
<1>2. pointer' = [pointer EXCEPT !.kind = device, !.device = device, !.count = count, !.x = x, !.at = x, !.presses = n,
                                 !.moved = FALSE, !.last = last]
  BY Zenon DEF BrowserPress
<1>3. fireMouseEvent(me, recent)
  BY Zenon DEF BrowserPress
<1>4. count \in {1, 2} /\ (device = "touch" => count = 1) /\ (count = 2 => again) /\ n \in Nat
  BY <1>0 DEF DispatchType
<1>5. /\ me \in Events
      /\ me.name = "down" /\ (me.mouse <=> device # "touch") /\ (me.popup <=> device = "right")
      /\ me.count = count /\ me.x = x /\ me.id = 4 * n
  <2>1. 4 * (pointer.presses + 1) \in Int /\ 4 * (pointer.presses + 1) = 4 * n
    BY <1>0 DEF DispatchType
  <2> QED
    BY <1>4, <2>1, EventFields
<1>6. last \in Events \cup {None} /\ (last # None => last = me /\ ~isDoubleTap(filter, me, recent))
  BY Zenon, <1>5
<1> HIDE DEF count, me, n, last
<1>7. /\ filter' \in FilterType /\ hold' \in HoldType /\ seen' \in {"up", "down"}
      /\ Tapped(me, recent) \/ (~isDoubleTap(filter, me, recent) /\ Passed(me))
  BY Zenon, <1>0, <1>3, <1>5, Outcome DEF TapOver, isSecondTapOver
<1>8. /\ pointer'.kind = device /\ pointer'.device = device /\ pointer'.count = count /\ pointer'.x = x /\ pointer'.at = x
      /\ pointer'.presses = n /\ pointer'.moved = FALSE /\ pointer'.last = last
      /\ pointer'.synthetic = 0
  BY Zenon, <1>0, <1>1, <1>2 DEF DispatchType
<1>9. DispatchType'
  <2>1. pointer' \in [kind : Devices \cup {None}, count : {1, 2}, x : Position \cup {None}, at : Position \cup {None},
                      synthetic : 0 .. 2, presses : Nat, device : Devices \cup {None}, moved : BOOLEAN,
                      last : Events \cup {None}]
    BY Zenon, <1>0, <1>2, <1>4, <1>6 DEF DispatchType
  <2> QED
    BY Zenon, <1>0, <1>1, <1>7, <2>1 DEF DispatchType
<1>10. PointerInv'
  BY Zenon, <1>4, <1>8, DispatchConstants DEF PointerInv, Devices
<1>11. /\ filter.isMouseDown => pointer.at = None /\ pointer.device # "touch"
       /\ filter.isMouseDown <=> seen = "down"
       /\ ~filter.ignoreMouseEvents /\ ~filter.fireDoubleClick /\ ~hold.valid
       /\ filter.lastEvent <= 4 * pointer.presses + 3 /\ filter.lastTouch.id <= 4 * pointer.presses + 3
  BY <1>0, <1>1, DispatchConstants DEF ButtonInv, FreshInv, HoldInv, MouseDownAsSeen, DispatchType, FilterType, HoldType
<1>12. isDoubleClick(me) <=> (device # "right" /\ count = 2)
  BY Zenon, <1>5 DEF isDoubleClick
<1>13. count = 2 => ~filter.isMouseDown
  BY Zenon, <1>4, <1>11, DispatchConstants
<1>14. FreshInv'
  <2>1. n = pointer.presses + 1 /\ pointer.presses \in Nat
    BY Zenon, <1>0 DEF n, DispatchType
  <2>2. filter'.lastEvent <= 4 * n /\ filter'.lastTouch.id <= 4 * n
    <3>1. filter.lastEvent \in Int /\ filter.lastTouch.id \in Int
      BY Zenon, <1>0 DEF DispatchType, FilterType
    <3>2. CASE Tapped(me, recent)
      BY <3>1, <3>2, <2>1, <1>11 DEF Tapped
    <3>3. CASE Passed(me)
      BY <3>1, <3>3, <2>1, <1>5, <1>11 DEF Passed, Filtered
    <3> QED
      BY Zenon, <3>2, <3>3, <1>7
  <2>3. filter'.lastEvent \in Int /\ filter'.lastTouch.id \in Int
    BY Zenon, <1>7 DEF FilterType
  <2> QED
    BY <2>1, <2>2, <2>3, <1>8 DEF FreshInv
<1>15. CASE Tapped(me, recent)
  <2>1. recent /\ device = "touch"
    BY Zenon, <1>5, <1>15 DEF Tapped, isDoubleTap
  <2>2. ~filter.isMouseDown /\ last = None
    BY Zenon, <2>1, <1>1, <1>11, <1>15 DEF Tapped, last
  <2>3. ButtonInv'
    BY <2>1, <2>2, <1>8, <1>11, <1>15, DispatchConstants DEF ButtonInv, MouseDownAsSeen, Tapped
  <2>4. LastInv' /\ HoldInv'
    BY Zenon, <2>2, <1>8, <1>11, <1>15 DEF LastInv, HoldInv, Tapped
  <2>5. InOrder
    BY Zenon, <1>15 DEF InOrder, Tapped
  <2> QED
    BY Zenon, <1>9, <1>10, <1>14, <2>3, <2>4, <2>5 DEF DispatchInv
<1>16. CASE ~isDoubleTap(filter, me, recent) /\ Passed(me)
  <2>1. last = me
    BY Zenon, <1>16 DEF last
  <2>2. ~IgnoredAsSynthetic(filter, me) /\ me.id # filter.lastEvent
    BY <1>5, <1>11, <1>0 DEF IgnoredAsSynthetic, n, DispatchType, FilterType
  <2>3. OutOfSequence(filter, me) <=> filter.isMouseDown
    BY Zenon, <1>5 DEF OutOfSequence
  <2>4. isEventIgnored(filter, me) <=> isDoubleClick(me) \/ filter.isMouseDown
    BY Zenon, <2>2, <2>3 DEF isEventIgnored
  <2>5. /\ isDoubleClick(me) => ~filter'.isMouseDown
        /\ ~isDoubleClick(me) => filter'.isMouseDown
        /\ ~filter'.ignoreMouseEvents /\ ~filter'.fireDoubleClick
    BY Zenon, <2>2, <1>5, <1>11, <1>12, <1>13, <1>16 DEF Passed, Filtered
  <2>6. filter'.isMouseDown <=> seen' = "down"
    BY Zenon, <2>4, <2>5, <1>5, <1>7, <1>11, <1>12, <1>13, <1>16 DEF Passed
  <2>7. ButtonInv'
    BY SMTT(30), <2>5, <2>6, <1>4, <1>8, <1>12, DispatchConstants DEF ButtonInv, MouseDownAsSeen, Devices
  <2>8. LastInv'
    BY <2>1, <2>5, <1>4, <1>5, <1>8, <1>16, DispatchConstants
    DEF LastInv, Passed, Filtered, Devices, isDoubleClick
  <2>9. HoldInv'
    <3>1. CASE isEventIgnored(filter, me)
      BY Zenon, <3>1, <1>11, <1>16 DEF HoldInv, Passed
    <3>2. CASE ~isEventIgnored(filter, me)
      <4>1. hold' = AfterHold(hold, me) /\ ~filter.isMouseDown /\ ~isDoubleClick(me)
        BY Zenon, <3>2, <2>4, <1>16 DEF Passed
      <4>2. hold'.valid => device = "touch" /\ hold'.x = x
        BY Zenon, <4>1, <1>0, <1>5, <1>11 DEF AfterHold, HoldType, DispatchType, Devices
      <4>3. filter'.isMouseDown /\ (device = "touch" => ~filter'.isMouseTrigger)
        BY Zenon, <4>1, <2>5, <1>5, <1>16 DEF Passed, Filtered
      <4> QED
        BY Zenon, <4>2, <4>3, <1>8 DEF HoldInv
    <3> QED
      BY Zenon, <3>1, <3>2
  <2>10. InOrder
    BY Zenon, <2>4, <1>0, <1>5, <1>11, <1>16 DEF InOrder, Passed, DispatchType
  <2> QED
    BY Zenon, <1>9, <1>10, <1>14, <2>7, <2>8, <2>9, <2>10 DEF DispatchInv
<1> QED
  BY Zenon, <1>7, <1>15, <1>16

(* The pointer is moved. *)
LEMMA MoveStep ==
    ASSUME DispatchInv, NEW x \in Position, BrowserMove(x)
    PROVE  DispatchInv' /\ InOrder
<1> DEFINE device == IF pointer.kind = None THEN "left" ELSE pointer.kind
           id == IF filter.lastEvent = -1 THEN -2 ELSE -1
           me == Event("move", device, 1, x, id)
<1>0. DispatchType /\ PointerInv /\ FreshInv /\ ButtonInv /\ LastInv /\ HoldInv
  BY Zenon DEF DispatchInv
<1>1. pointer.synthetic = 0 /\ pointer.x \notin {x, None} /\ firefox' = firefox
  BY Zenon DEF BrowserMove
<1>2. pointer' = [pointer EXCEPT !.x = x, !.moved = TRUE, !.last = me]
  BY Zenon DEF BrowserMove
<1>3. fireMouseEvent(me, FALSE)
  BY Zenon DEF BrowserMove
<1>4. id \in {-2, -1} /\ id # filter.lastEvent
  OBVIOUS
<1>5. /\ me \in Events
      /\ me.name = "move" /\ (me.mouse <=> device # "touch") /\ (me.popup <=> device = "right")
      /\ me.count = 1 /\ me.x = x /\ me.id = id
  <2>1. device \in Devices /\ id \in Int
    BY <1>0, <1>4 DEF DispatchType, Devices
  <2> QED
    BY <2>1, EventFields
<1> HIDE DEF me, id
<1>6. ~(filter.isMouseDown /\ filter.fireDoubleClick)
  BY Zenon, <1>0 DEF ButtonInv
<1>7. /\ filter' \in FilterType /\ hold' \in HoldType /\ seen' \in {"up", "down"}
      /\ Passed(me)
  BY Zenon, <1>0, <1>3, <1>5, <1>6, Outcome DEF Tapped, TapOver, isSecondTapOver, isDoubleTap
<1>8. /\ pointer'.kind = pointer.kind /\ pointer'.device = pointer.device /\ pointer'.count = pointer.count
      /\ pointer'.x = x /\ pointer'.at = pointer.at
      /\ pointer'.presses = pointer.presses /\ pointer'.moved /\ pointer'.last = me
      /\ pointer'.synthetic = 0
  BY Zenon, <1>0, <1>1, <1>2 DEF DispatchType
<1>9. DispatchType'
  <2>1. pointer' \in [kind : Devices \cup {None}, count : {1, 2}, x : Position \cup {None}, at : Position \cup {None},
                      synthetic : 0 .. 2, presses : Nat, device : Devices \cup {None}, moved : BOOLEAN,
                      last : Events \cup {None}]
    BY ZenonT(30), <1>0, <1>2, <1>5 DEF DispatchType
  <2> QED
    BY Zenon, <1>0, <1>1, <1>7, <2>1 DEF DispatchType
<1>10. PointerInv'
  BY Zenon, <1>0, <1>1, <1>8, DispatchConstants DEF PointerInv
<1>11. FreshInv'
  <2>1. pointer.presses \in Nat /\ filter.lastTouch.id \in Int
    BY Zenon, <1>0 DEF DispatchType, FilterType
  <2>2. filter'.lastEvent = id /\ filter'.lastTouch.id = filter.lastTouch.id
    BY Zenon, <1>5, <1>7 DEF Passed, Filtered
  <2> QED
    BY <2>1, <2>2, <1>0, <1>4, <1>8 DEF FreshInv
<1>12. ~isDoubleClick(me) /\ ~IgnoredAsSynthetic(filter, me)
  BY Zenon, <1>5 DEF isDoubleClick, IgnoredAsSynthetic
<1>13. /\ filter'.isMouseDown = filter.isMouseDown /\ filter'.isMouseTrigger = filter.isMouseTrigger
       /\ filter'.ignoreMouseEvents = filter.ignoreMouseEvents
       /\ filter'.fireDoubleClick = filter.fireDoubleClick /\ filter'.lastEvent = me.id /\ seen' = seen
  BY Zenon, <1>0, <1>5, <1>7, <1>12 DEF Passed, Filtered, DispatchType, FilterType
<1>14. ButtonInv'
  BY Zenon, <1>0, <1>1, <1>8, <1>13 DEF ButtonInv, MouseDownAsSeen
<1>15. LastInv'
  BY Zenon, <1>5, <1>8, <1>13 DEF LastInv, isDoubleClick
<1>16. HoldInv'
  <2>1. CASE ~hold.valid
    <3>1. ~hold'.valid
      BY Zenon, <2>1, <1>0, <1>5, <1>7 DEF Passed, AfterHold, DispatchType, HoldType
    <3> QED
      BY Zenon, <3>1 DEF HoldInv
  <2>2. CASE hold.valid
    <3>1. /\ device = "touch" /\ pointer.x = hold.x
          /\ filter.isMouseDown /\ ~filter.isMouseTrigger
      BY Zenon, <2>2, <1>0, DispatchConstants DEF HoldInv
    <3>2. filter.isMouseTrigger = me.mouse
      BY Zenon, <3>1, <1>0, <1>5 DEF DispatchType, FilterType, Events
    <3>2a. ~OutOfSequence(filter, me)
      BY Zenon, <3>1, <3>2, <1>5 DEF OutOfSequence
    <3>3. ~isEventIgnored(filter, me)
      BY Zenon, <3>2a, <1>4, <1>5, <1>12 DEF isEventIgnored
    <3>4. ~hold'.valid
      BY Zenon, <3>1, <3>3, <1>0, <1>1, <1>5, <1>7 DEF Passed, AfterHold, DispatchType, HoldType
    <3> QED
      BY Zenon, <3>4 DEF HoldInv
  <2> QED
    BY Zenon, <2>1, <2>2
<1>17. InOrder
  BY Zenon, <1>5, <1>7 DEF InOrder, Passed
<1> QED
  BY Zenon, <1>9, <1>10, <1>11, <1>14, <1>15, <1>16, <1>17 DEF DispatchInv

(* The button or finger is released over the container. *)
LEMMA ReleaseStep ==
    ASSUME DispatchInv, BrowserRelease
    PROVE  DispatchInv' /\ InOrder
<1> DEFINE device == pointer.kind
           id == 4 * pointer.presses + 1
           s == IF firefox /\ pointer.kind = "touch" THEN 2 ELSE 0
           me == Event("up", device, pointer.count, pointer.x, id)
<1>0. DispatchType /\ PointerInv /\ FreshInv /\ ButtonInv /\ LastInv /\ HoldInv
  BY Zenon DEF DispatchInv
<1>1. device \in Devices /\ device # None /\ firefox' = firefox /\ pointer.synthetic = 0 /\ pointer.x \in Position
      /\ pointer.device = device
  BY Zenon, <1>0 DEF BrowserRelease, DispatchType, PointerInv
<1>2. pointer' = [pointer EXCEPT !.kind = None, !.last = me, !.synthetic = s]
  BY Zenon DEF BrowserRelease
<1>3. fireMouseEvent(me, FALSE)
  BY Zenon DEF BrowserRelease
<1>4. id \in Int /\ id > filter.lastEvent /\ s \in 0 .. 2
  BY <1>0, <1>1 DEF FreshInv, DispatchType, FilterType
<1>5. /\ me \in Events
      /\ me.name = "up" /\ (me.mouse <=> device # "touch") /\ (me.popup <=> device = "right")
      /\ me.count = pointer.count /\ me.x = pointer.x /\ me.id = id
  BY <1>0, <1>1, <1>4, EventFields DEF DispatchType
<1> HIDE DEF me, id, s
<1>7. /\ filter' \in FilterType /\ hold' \in HoldType /\ seen' \in {"up", "down"}
      /\ TapOver(me) \/ Passed(me)
  BY Zenon, <1>0, <1>3, <1>5, Outcome DEF Tapped, isDoubleTap
<1>8. /\ pointer'.kind = None /\ pointer'.device = pointer.device /\ pointer'.count = pointer.count
      /\ pointer'.x = pointer.x /\ pointer'.at = pointer.at
      /\ pointer'.presses = pointer.presses /\ pointer'.moved = pointer.moved /\ pointer'.last = me
      /\ pointer'.synthetic = s
  BY Zenon, <1>0, <1>1, <1>2 DEF DispatchType
<1>9. DispatchType'
  <2>1. pointer' \in [kind : Devices \cup {None}, count : {1, 2}, x : Position \cup {None}, at : Position \cup {None},
                      synthetic : 0 .. 2, presses : Nat, device : Devices \cup {None}, moved : BOOLEAN,
                      last : Events \cup {None}]
    BY Zenon, <1>0, <1>2, <1>4, <1>5 DEF DispatchType
  <2> QED
    BY Zenon, <1>0, <1>1, <1>7, <2>1 DEF DispatchType
<1>10. PointerInv'
  BY Zenon, <1>0, <1>1, <1>8, DispatchConstants DEF PointerInv, s
<1>11. FreshInv'
  <2>1. pointer.presses \in Nat /\ filter.lastTouch.id \in Int /\ filter.lastEvent \in Int
    BY Zenon, <1>0 DEF DispatchType, FilterType
  <2>2. filter'.lastEvent \in {id, filter.lastEvent} /\ filter'.lastTouch.id = filter.lastTouch.id
    BY Zenon, <1>5, <1>7 DEF Passed, Filtered, TapOver
  <2>3. filter'.lastEvent <= 4 * pointer.presses + 1 /\ filter'.lastEvent \in Int
    BY <2>1, <2>2, <1>4 DEF id
  <2> QED
    BY <2>1, <2>2, <2>3, <1>0, <1>4, <1>8 DEF FreshInv
<1>12. ~filter'.isMouseDown /\ ~filter'.fireDoubleClick
  <2>1. CASE TapOver(me)
    BY Zenon, <2>1 DEF TapOver
  <2>2. CASE Passed(me)
    <3>1. isDoubleClick(me) => ~filter.isMouseDown
      BY <1>0, <1>1, <1>5 DEF isDoubleClick, ButtonInv, PointerInv, Devices
    <3>2. ~filter.fireDoubleClick
      BY Zenon, <2>2, <1>0, <1>5 DEF Passed, isSecondTapOver, ButtonInv
    <3> QED
      BY Zenon, <3>1, <3>2, <2>2, <1>5 DEF Passed, Filtered
  <2> QED
    BY Zenon, <2>1, <2>2, <1>7
<1>13. seen' = "up"
  <2>1. filter.isMouseDown <=> seen = "down"
    BY Zenon, <1>0, <1>1 DEF ButtonInv, MouseDownAsSeen
  <2>2. CASE TapOver(me)
    BY Zenon, <2>1, <2>2, <1>0 DEF TapOver, isSecondTapOver, ButtonInv, DispatchType
  <2>3. CASE Passed(me)
    <3>1. CASE ~isEventIgnored(filter, me)
      BY Zenon, <2>3, <3>1, <1>5 DEF Passed
    <3>2. CASE isEventIgnored(filter, me)
      <4>1. ~IgnoredAsSynthetic(filter, me)
        BY Zenon, <1>0, <1>1 DEF IgnoredAsSynthetic, ButtonInv
      <4>2. me.id # filter.lastEvent
        BY <1>0, <1>4, <1>5 DEF DispatchType, FilterType
      <4>3. ~filter.isMouseDown
        BY SMTT(30), <3>2, <4>1, <4>2, <1>0, <1>1, <1>5
        DEF isEventIgnored, OutOfSequence, isDoubleClick, ButtonInv, PointerInv, Devices
      <4> QED
        BY Zenon, <2>1, <2>3, <3>2, <4>3, <1>0 DEF Passed, DispatchType
    <3> QED
      BY Zenon, <3>1, <3>2
  <2> QED
    BY Zenon, <2>2, <2>3, <1>7
<1>14. filter'.ignoreMouseEvents => s = 2
  <2>1. ~filter.ignoreMouseEvents
    BY Zenon, <1>0, <1>1 DEF ButtonInv
  <2> QED
    BY Zenon, <2>1, <1>5, <1>7 DEF TapOver, Passed, Filtered, IgnoredAsSynthetic, s
<1>15. ButtonInv'
  BY <1>8, <1>12, <1>13, <1>14, DispatchConstants DEF ButtonInv, MouseDownAsSeen, s
<1>16. LastInv'
  <2>1. me.id <= 4 * pointer'.presses + 3 - pointer'.synthetic
    BY <1>0, <1>5, <1>8 DEF id, s, DispatchType
  <2> QED
    BY <2>1, <1>0, <1>1, <1>5, <1>8, <1>12 DEF LastInv, isDoubleClick, s, PointerInv, Devices
<1>17. HoldInv'
  <2>1. CASE ~hold.valid
    <3>1. ~hold'.valid
      BY Zenon, <2>1, <1>0, <1>5, <1>7 DEF TapOver, Passed, AfterHold, DispatchType, HoldType
    <3> QED
      BY Zenon, <3>1 DEF HoldInv
  <2>2. CASE hold.valid
    <3>1. device = "touch" /\ filter.isMouseDown
      BY Zenon, <2>2, <1>0 DEF HoldInv
    <3>2. Passed(me)
      BY Zenon, <3>1, <1>0, <1>7 DEF TapOver, isSecondTapOver, ButtonInv
    <3>3. ~isEventIgnored(filter, me)
      <4>1. me.id # filter.lastEvent
        BY <1>0, <1>4, <1>5 DEF DispatchType, FilterType
      <4>2. ~isDoubleClick(me) /\ ~IgnoredAsSynthetic(filter, me) /\ ~OutOfSequence(filter, me)
        BY <3>1, <1>0, <1>5 DEF isDoubleClick, IgnoredAsSynthetic, OutOfSequence, PointerInv
      <4> QED
        BY Zenon, <4>1, <4>2 DEF isEventIgnored
    <3>4. ~hold'.valid
      BY Zenon, <3>2, <3>3, <1>0, <1>5 DEF Passed, AfterHold, DispatchType, HoldType
    <3> QED
      BY Zenon, <3>4 DEF HoldInv
  <2> QED
    BY Zenon, <2>1, <2>2
<1>18. InOrder
  <2>1. filter.isMouseDown <=> seen = "down"
    BY Zenon, <1>0, <1>1 DEF ButtonInv, MouseDownAsSeen
  <2>2. CASE TapOver(me)
    BY Zenon, <2>1, <2>2, <1>0 DEF TapOver, isSecondTapOver, ButtonInv, DispatchType, InOrder
  <2>3. CASE Passed(me)
    <3>1. ~isEventIgnored(filter, me) => filter.isMouseDown
      BY Zenon, <1>5 DEF isEventIgnored, OutOfSequence
    <3> QED
      BY Zenon, <2>1, <2>3, <3>1, <1>5 DEF Passed, InOrder
  <2> QED
    BY Zenon, <2>2, <2>3, <1>7
<1> QED
  BY Zenon, <1>9, <1>10, <1>11, <1>15, <1>16, <1>17, <1>18 DEF DispatchInv

(* The button is released where the graph does not hear of it. *)
LEMMA OutsideStep ==
    ASSUME DispatchInv, ReleaseOutside
    PROVE  DispatchInv' /\ InOrder
<1>0. DispatchType /\ PointerInv /\ FreshInv /\ ButtonInv /\ LastInv /\ HoldInv
  BY Zenon DEF DispatchInv
<1>1. /\ pointer.kind \in {"left", "right"} /\ out' = "nothing"
      /\ firefox' = firefox /\ filter' = filter /\ hold' = hold /\ seen' = seen
      /\ pointer' = [pointer EXCEPT !.kind = None, !.at = None, !.last = None]
  BY Zenon DEF ReleaseOutside
<1>2. pointer.kind # None /\ pointer.synthetic = 0 /\ pointer.device = pointer.kind
  BY Zenon, <1>0, <1>1, DispatchConstants DEF PointerInv
<1>3. /\ pointer'.kind = None /\ pointer'.device = pointer.device /\ pointer'.count = pointer.count
      /\ pointer'.x = pointer.x /\ pointer'.at = None
      /\ pointer'.presses = pointer.presses /\ pointer'.moved = pointer.moved /\ pointer'.last = None
      /\ pointer'.synthetic = 0
  BY Zenon, <1>0, <1>1, <1>2 DEF DispatchType
<1>4. DispatchType'
  <2>1. pointer' \in [kind : Devices \cup {None}, count : {1, 2}, x : Position \cup {None}, at : Position \cup {None},
                      synthetic : 0 .. 2, presses : Nat, device : Devices \cup {None}, moved : BOOLEAN,
                      last : Events \cup {None}]
    BY Zenon, <1>0, <1>1 DEF DispatchType
  <2> QED
    BY Zenon, <1>0, <1>1, <2>1 DEF DispatchType
<1>5. PointerInv'
  BY Zenon, <1>0, <1>1, <1>2, <1>3, DispatchConstants DEF PointerInv
<1>6. FreshInv'
  BY Zenon, <1>0, <1>1, <1>2, <1>3 DEF FreshInv
<1>7. ButtonInv'
  BY Zenon, <1>0, <1>1, <1>2, <1>3, DispatchConstants DEF ButtonInv, MouseDownAsSeen
<1>8. LastInv'
  BY Zenon, <1>3 DEF LastInv
<1>9. HoldInv'
  BY Zenon, <1>0, <1>1 DEF HoldInv
<1>10. InOrder
  BY Zenon, <1>1 DEF InOrder
<1> QED
  BY Zenon, <1>4, <1>5, <1>6, <1>7, <1>8, <1>9, <1>10 DEF DispatchInv

(* The browser delivers the last event a second time. *)
LEMMA AgainStep ==
    ASSUME DispatchInv, FireAgain
    PROVE  DispatchInv' /\ InOrder
<1> DEFINE me == pointer.last
<1>0. DispatchType /\ PointerInv /\ FreshInv /\ ButtonInv /\ LastInv /\ HoldInv
  BY Zenon DEF DispatchInv
<1>1. /\ me # None /\ firefox' = firefox /\ fireMouseEvent(me, TRUE)
      /\ pointer' = [pointer EXCEPT !.last = None]
  BY Zenon DEF FireAgain
<1>2. me \in Events
  BY Zenon, <1>0, <1>1 DEF DispatchType
<1>3. /\ pointer'.kind = pointer.kind /\ pointer'.device = pointer.device /\ pointer'.count = pointer.count
      /\ pointer'.x = pointer.x /\ pointer'.at = pointer.at
      /\ pointer'.presses = pointer.presses /\ pointer'.moved = pointer.moved /\ pointer'.last = None
      /\ pointer'.synthetic = pointer.synthetic
  BY Zenon, <1>0, <1>1 DEF DispatchType
<1>4. /\ ~me.mouse => me.count = 1 /\ ~me.popup
      /\ me.name = "down" => /\ filter.lastEvent = me.id
                             /\ isDoubleClick(me) \/ filter.isMouseDown
                             /\ me.mouse \/ filter.lastTouch.id = me.id
                             /\ pointer.kind # None \/ pointer.synthetic = 1
                             /\ pointer.synthetic = 1 => me.mouse /\ ~isDoubleClick(me)
      /\ me.name = "move" => filter.lastEvent = me.id /\ pointer.synthetic = 0
      /\ me.name = "up" => ~filter.isMouseDown /\ pointer.kind = None /\ pointer.synthetic # 1
                           /\ (pointer.synthetic = 2 <=> ~me.mouse /\ firefox)
                           /\ me.id <= 4 * pointer.presses + 3 - pointer.synthetic
  BY Zenon, <1>0, <1>1 DEF LastInv
<1>5. me.name \in {"down", "move", "up"} /\ me.mouse \in BOOLEAN /\ me.id \in Int
  BY Zenon, <1>2 DEF Events
<1> HIDE DEF me
<1>6. ~isDoubleTap(filter, me, TRUE) /\ ~isSecondTapOver(filter, me)
  BY Zenon, <1>0, <1>4, DispatchConstants DEF isDoubleTap, isSecondTapOver, ButtonInv
<1>7. isEventIgnored(filter, me)
  BY Zenon, <1>4, <1>5 DEF isEventIgnored, OutOfSequence
<1>8. /\ filter' \in FilterType /\ hold' \in HoldType /\ seen' \in {"up", "down"}
      /\ Filtered(me) /\ out' = "nothing" /\ hold' = hold /\ seen' = seen
  BY Zenon, <1>0, <1>1, <1>2, <1>6, <1>7, Outcome DEF Tapped, TapOver, Passed
<1>9. /\ filter'.isMouseDown = filter.isMouseDown /\ filter'.isMouseTrigger = filter.isMouseTrigger
      /\ filter'.fireDoubleClick = filter.fireDoubleClick /\ filter'.lastTouch.id = filter.lastTouch.id
      /\ filter'.lastEvent = me.id
  <2>1. /\ filter.isMouseDown \in BOOLEAN /\ filter'.isMouseDown \in BOOLEAN
        /\ filter.isMouseTrigger \in BOOLEAN /\ filter'.isMouseTrigger \in BOOLEAN
    BY Zenon, <1>0, <1>8 DEF DispatchType, FilterType
  <2>2. filter'.fireDoubleClick = filter.fireDoubleClick /\ filter'.lastTouch.id = filter.lastTouch.id
        /\ filter'.lastEvent = me.id
    BY Zenon, <1>4, <1>5, <1>8 DEF Filtered
  <2>3. CASE isDoubleClick(me)
    BY Zenon, <2>2, <2>3, <1>8 DEF Filtered
  <2>4. CASE ~isDoubleClick(me)
    <3>1. filter'.isMouseDown <=> filter.isMouseDown
      BY Zenon, <2>4, <1>4, <1>5, <1>8 DEF Filtered
    <3>2. filter'.isMouseTrigger <=> filter.isMouseTrigger
      BY Zenon, <2>4, <1>4, <1>5, <1>8 DEF Filtered
    <3> QED
      BY Zenon, <2>1, <2>2, <3>1, <3>2
  <2> QED
    BY Zenon, <2>3, <2>4
<1>10. filter'.ignoreMouseEvents => pointer.synthetic # 0
  BY SMTT(30), <1>0, <1>4, <1>8 DEF Filtered, ButtonInv, IgnoredAsSynthetic
<1>11. pointer.synthetic = 1 => (filter'.ignoreMouseEvents <=> filter.ignoreMouseEvents)
  BY Zenon, <1>4, <1>5, <1>8 DEF Filtered, IgnoredAsSynthetic
<1>12. DispatchType'
  <2>1. pointer' \in [kind : Devices \cup {None}, count : {1, 2}, x : Position \cup {None}, at : Position \cup {None},
                      synthetic : 0 .. 2, presses : Nat, device : Devices \cup {None}, moved : BOOLEAN,
                      last : Events \cup {None}]
    BY Zenon, <1>0, <1>1 DEF DispatchType
  <2> QED
    BY Zenon, <1>0, <1>1, <1>8, <2>1 DEF DispatchType
<1>13. PointerInv'
  BY Zenon, <1>0, <1>1, <1>3 DEF PointerInv
<1>14. FreshInv'
  <2>1. CASE filter.lastEvent = me.id
    BY Zenon, <2>1, <1>0, <1>3, <1>9 DEF FreshInv
  <2>2. CASE me.name = "up" /\ filter.lastEvent # me.id
    <3>1. pointer.kind = None /\ me.id <= 4 * pointer.presses + 3 - pointer.synthetic
      BY Zenon, <2>2, <1>4
    <3> QED
      BY Zenon, <3>1, <1>0, <1>3, <1>9 DEF FreshInv
  <2> QED
    BY Zenon, <2>1, <2>2, <1>4, <1>5
<1>15. ButtonInv'
  BY Zenon, <1>0, <1>3, <1>8, <1>9, <1>10, <1>11 DEF ButtonInv, MouseDownAsSeen
<1>16. LastInv'
  BY Zenon, <1>3 DEF LastInv
<1>17. HoldInv'
  BY Zenon, <1>0, <1>3, <1>8, <1>9 DEF HoldInv
<1>18. InOrder
  BY Zenon, <1>8 DEF InOrder
<1> QED
  BY Zenon, <1>12, <1>13, <1>14, <1>15, <1>16, <1>17, <1>18 DEF DispatchInv

(* A mouse event that the browser makes out of a touch arrives. *)
LEMMA SyntheticStep ==
    ASSUME DispatchInv, Synthesize
    PROVE  DispatchInv' /\ InOrder
<1> DEFINE name == IF pointer.synthetic = 2 THEN "down" ELSE "up"
           id == 4 * pointer.presses + 4 - pointer.synthetic
           n == pointer.synthetic - 1
           me == Event(name, "left", 1, pointer.x, id)
<1>0. DispatchType /\ PointerInv /\ FreshInv /\ ButtonInv /\ LastInv /\ HoldInv
  BY Zenon DEF DispatchInv
<1>1. firefox' = firefox /\ pointer.synthetic \in {1, 2} /\ pointer.x \in Position /\ pointer.kind = None
  BY <1>0 DEF Synthesize, DispatchType, PointerInv
<1>2. pointer' = [pointer EXCEPT !.synthetic = n, !.last = me]
  BY Zenon DEF Synthesize
<1>3. fireMouseEvent(me, FALSE)
  BY Zenon DEF Synthesize
<1>4. id \in Int /\ id > filter.lastEvent /\ n \in {0, 1} /\ (n = 1 <=> pointer.synthetic = 2)
  BY <1>0, <1>1 DEF FreshInv, DispatchType, FilterType
<1>5. /\ me \in Events
      /\ me.name = name /\ me.mouse /\ ~me.popup /\ me.count = 1 /\ me.x = pointer.x /\ me.id = id
  BY <1>1, <1>4, EventFields DEF Devices
<1>6. name \in {"down", "up"} /\ (name = "down" <=> n = 1)
  BY Zenon, <1>4
<1> HIDE DEF me, id, n, name
<1>7. /\ filter' \in FilterType /\ hold' \in HoldType /\ seen' \in {"up", "down"} /\ Passed(me)
  BY Zenon, <1>0, <1>3, <1>5, Outcome DEF Tapped, isDoubleTap, TapOver, isSecondTapOver
<1>8. /\ pointer'.kind = None /\ pointer'.device = pointer.device /\ pointer'.count = pointer.count
      /\ pointer'.x = pointer.x /\ pointer'.at = pointer.at
      /\ pointer'.presses = pointer.presses /\ pointer'.moved = pointer.moved /\ pointer'.last = me
      /\ pointer'.synthetic = n
  BY Zenon, <1>0, <1>1, <1>2 DEF DispatchType
<1>9. DispatchType'
  <2>1. pointer' \in [kind : Devices \cup {None}, count : {1, 2}, x : Position \cup {None}, at : Position \cup {None},
                      synthetic : 0 .. 2, presses : Nat, device : Devices \cup {None}, moved : BOOLEAN,
                      last : Events \cup {None}]
    <3>1. n \in 0 .. 2
      BY <1>4
    <3> QED
      BY Zenon, <3>1, <1>0, <1>2, <1>5 DEF DispatchType
  <2> QED
    BY Zenon, <1>0, <1>1, <1>7, <2>1 DEF DispatchType
<1>10. PointerInv'
  BY <1>0, <1>1, <1>8, DispatchConstants DEF PointerInv
<1>11. FreshInv'
  <2>1. pointer.presses \in Nat /\ filter.lastTouch.id \in Int
    BY Zenon, <1>0 DEF DispatchType, FilterType
  <2>2. filter'.lastEvent = id /\ filter'.lastTouch.id = filter.lastTouch.id
    BY Zenon, <1>5, <1>7 DEF Passed, Filtered
  <2>3. id = 4 * pointer.presses + 3 - n
    BY <1>0, <1>1 DEF id, n, DispatchType
  <2> QED
    BY <2>1, <2>2, <2>3, <1>0, <1>4, <1>8 DEF FreshInv
<1>12. ~isDoubleClick(me) /\ me.id # filter.lastEvent /\ (IgnoredAsSynthetic(filter, me) <=> filter.ignoreMouseEvents)
  <2>1. ~isDoubleClick(me)
    BY <1>5 DEF isDoubleClick
  <2>2. me.id # filter.lastEvent
    BY <1>0, <1>4, <1>5 DEF DispatchType, FilterType
  <2>3. IgnoredAsSynthetic(filter, me) <=> filter.ignoreMouseEvents
    BY Zenon, <1>5, <1>6 DEF IgnoredAsSynthetic
  <2> QED
    BY Zenon, <2>1, <2>2, <2>3
<1>13. /\ ~filter.fireDoubleClick /\ ~hold.valid
       /\ filter.isMouseDown <=> name = "up"
       /\ name = "down" => seen = "up"
       /\ name = "up" => (seen = "up" <=> filter.ignoreMouseEvents)
  BY Zenon, <1>0, <1>1, <1>4, <1>6, DispatchConstants DEF ButtonInv, MouseDownAsSeen, HoldInv, DispatchType
<1>14. isEventIgnored(filter, me) <=> filter.ignoreMouseEvents
  BY ZenonT(30), <1>5, <1>6, <1>12, <1>13 DEF isEventIgnored, OutOfSequence
<1>15. /\ filter'.isMouseDown <=> name = "down"
       /\ filter'.ignoreMouseEvents <=> (filter.ignoreMouseEvents /\ name = "down")
       /\ ~filter'.fireDoubleClick /\ filter'.lastEvent = me.id
  BY Zenon, <1>5, <1>6, <1>7, <1>12, <1>13 DEF Passed, Filtered
<1>16. /\ name = "up" => seen' = "up"
       /\ name = "down" => (seen' = "up" <=> filter.ignoreMouseEvents)
  BY Zenon, <1>5, <1>6, <1>7, <1>13, <1>14 DEF Passed
<1>17. ButtonInv'
  <2>1. filter'.ignoreMouseEvents => n = 1
    BY Zenon, <1>15, <1>6
  <2>2. n = 1 => (seen' = "up" <=> filter'.ignoreMouseEvents)
    BY Zenon, <1>15, <1>16, <1>6
  <2>3. filter'.isMouseDown <=> n = 1
    BY Zenon, <1>15, <1>6
  <2>4. n = 0 => seen' = "up"
    BY SMTT(30), <1>16, <1>6
  <2> QED
    BY <2>1, <2>2, <2>3, <2>4, <1>4, <1>8, <1>15, DispatchConstants DEF ButtonInv, MouseDownAsSeen
<1>18. LastInv'
  <2>1. me.id <= 4 * pointer'.presses + 3 - pointer'.synthetic
    BY <1>0, <1>1, <1>5, <1>8 DEF id, n, DispatchType
  <2> QED
    BY <2>1, <1>4, <1>5, <1>6, <1>8, <1>15 DEF LastInv, isDoubleClick
<1>19. HoldInv'
  <2>1. ~hold'.valid
    BY Zenon, <1>0, <1>5, <1>7, <1>13 DEF Passed, AfterHold, DispatchType, HoldType
  <2> QED
    BY Zenon, <2>1 DEF HoldInv
<1>20. InOrder
  BY Zenon, <1>0, <1>5, <1>6, <1>7, <1>13, <1>14 DEF InOrder, Passed, DispatchType
<1> QED
  BY Zenon, <1>9, <1>10, <1>11, <1>17, <1>18, <1>19, <1>20 DEF DispatchInv

(* The timer of tap and hold runs out. *)
LEMMA TimerStep ==
    ASSUME DispatchInv, HoldTimer
    PROVE  DispatchInv' /\ InOrder
<1>0. DispatchType /\ PointerInv /\ FreshInv /\ ButtonInv /\ LastInv /\ HoldInv
  BY Zenon DEF DispatchInv
<1>1. /\ hold' = [hold EXCEPT !.thread = FALSE, !.inProgress = FALSE, !.valid = FALSE]
      /\ out' = IF hold.valid THEN "tapAndHold" ELSE "nothing"
      /\ firefox' = firefox /\ pointer' = pointer /\ filter' = filter /\ seen' = seen
  BY Zenon DEF HoldTimer
<1>2. hold' \in HoldType /\ ~hold'.valid
  BY ZenonT(30), <1>0, <1>1 DEF DispatchType, HoldType
<1>3. DispatchType' /\ HoldInv'
  BY Zenon, <1>0, <1>1, <1>2 DEF DispatchType, HoldInv
<1>4. PointerInv' /\ FreshInv' /\ ButtonInv'
  BY Zenon, <1>0, <1>1 DEF PointerInv, FreshInv, ButtonInv, MouseDownAsSeen
<1>5. LastInv'
  BY Zenon, <1>0, <1>1 DEF LastInv, isDoubleClick
<1>6. InOrder
  BY Zenon, <1>0, <1>1 DEF InOrder, HoldInv
<1> QED
  BY Zenon, <1>3, <1>4, <1>5, <1>6 DEF DispatchInv

-----------------------------------------------------------------------------
(* A page that was just opened is in order. *)
LEMMA DispatchInitial == DispatchInit => DispatchInv
<1> SUFFICES ASSUME DispatchInit PROVE DispatchInv
  BY Zenon
<1>1. DispatchType
  <2>1. filter \in FilterType
    BY SMTT(30) DEF DispatchInit, FilterType
  <2>2. pointer \in [kind : Devices \cup {None}, count : {1, 2}, x : Position \cup {None}, at : Position \cup {None},
                      synthetic : 0 .. 2, presses : Nat, device : Devices \cup {None}, moved : BOOLEAN,
                      last : Events \cup {None}]
    BY SMTT(30) DEF DispatchInit
  <2> QED
    BY Zenon, <2>1, <2>2 DEF DispatchInit, DispatchType, HoldType
<1>2. PointerInv /\ FreshInv /\ LastInv /\ HoldInv
  BY SMTT(30), DispatchConstants DEF DispatchInit, PointerInv, FreshInv, LastInv, HoldInv
<1>3. ButtonInv
  BY DispatchConstants DEF DispatchInit, ButtonInv, MouseDownAsSeen
<1> QED
  BY Zenon, <1>1, <1>2, <1>3 DEF DispatchInv

(* Every step keeps the invariant and respects the order of events. *)
LEMMA DispatchStep == DispatchInv /\ [DispatchNext]_dispatchVars => DispatchInv' /\ [InOrder]_dispatchVars
<1> SUFFICES ASSUME DispatchInv, [DispatchNext]_dispatchVars
             PROVE  DispatchInv' /\ [InOrder]_dispatchVars
  BY Zenon
<1>1. CASE UNCHANGED dispatchVars
  <2>1. DispatchType' /\ PointerInv' /\ FreshInv' /\ ButtonInv' /\ HoldInv'
    BY SMTT(30), <1>1 DEF DispatchInv, DispatchType, PointerInv, FreshInv, ButtonInv, HoldInv, MouseDownAsSeen, dispatchVars
  <2>2. LastInv'
    BY Zenon, <1>1 DEF DispatchInv, LastInv, isDoubleClick, dispatchVars
  <2> QED
    BY Zenon, <1>1, <2>1, <2>2 DEF DispatchInv
<1>2. CASE \E device \in {"left", "right", "touch"}, x \in Position, recent \in BOOLEAN : BrowserPress(device, x, recent)
  BY Zenon, <1>2, PressStep DEF Devices
<1>3. CASE \E x \in Position : BrowserMove(x)
  BY Zenon, <1>3, MoveStep
<1>4. CASE BrowserRelease
  BY Zenon, <1>4, ReleaseStep
<1>5. CASE ReleaseOutside
  BY Zenon, <1>5, OutsideStep
<1>6. CASE FireAgain
  BY Zenon, <1>6, AgainStep
<1>7. CASE Synthesize
  BY Zenon, <1>7, SyntheticStep
<1>8. CASE HoldTimer
  BY Zenon, <1>8, TimerStep
<1> QED
  BY Zenon, <1>1, <1>2, <1>3, <1>4, <1>5, <1>6, <1>7, <1>8 DEF DispatchNext

(* isMouseDown, which the handlers of a gesture read, agrees with the       *)
(* presses and releases that they were told of, however many presses are    *)
(* made, lost, fired twice or synthesized.                                  *)
THEOREM MouseDownAsSeenHolds == DispatchSpec => []MouseDownAsSeen
<1>1. DispatchInv => MouseDownAsSeen
  BY Zenon DEF DispatchInv, ButtonInv
<1>2. DispatchInv /\ [DispatchNext]_dispatchVars => DispatchInv'
  BY Zenon, DispatchStep
<1> QED
  BY <1>1, <1>2, DispatchInitial, PTL DEF DispatchSpec

(* The listeners see presses and releases in turn, a double click only      *)
(* while no press is pending, and tap and hold only for a touch that is     *)
(* still down and was not moved.                                            *)
THEOREM EventsInOrderHolds == DispatchSpec => EventsInOrder
<1>1. DispatchInv /\ [DispatchNext]_dispatchVars => DispatchInv'
  BY Zenon, DispatchStep
<1>2. DispatchInv /\ [DispatchNext]_dispatchVars => [InOrder]_dispatchVars
  BY Zenon, DispatchStep
<1> QED
  BY <1>1, <1>2, DispatchInitial, PTL DEF DispatchSpec, EventsInOrder
=============================================================================
