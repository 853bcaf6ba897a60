----------------------------- MODULE GraphEditor -----------------------------
(***************************************************************************)
(* The graph editor: one document, its view, the selection and the undo    *)
(* history, kept in step by events.  Operations change the document in     *)
(* transactions; at the end of the outermost one the graph processes the   *)
(* changes (graphModelChanged) and the editor records the edit.            *)
(*                                                                         *)
(* A recorded edit carries, besides its changes, what the document (or the *)
(* root of the view) was before and after it, for the properties.          *)
(***************************************************************************)
EXTENDS GraphOps, TLC

CONSTANTS Ops,        \* the operations that happen
          MaxOps,     \* bound of the number of operations
          Picks,      \* sets of cells operated on together
          Drop,       \* vertices that cells and ends of edges are dropped on
          Shift,      \* distances cells are moved by
          Width,      \* widths of new and resized vertices
          GivenId     \* identifiers the caller gives new vertices, or Null

VARIABLES doc, view, selection,
          changes,           \* of the current edit of the model
          updateLevel,
          history, indexOfNextAdd,
          ops,               \* operations so far
          replaced           \* history: a document was set while a group was shown

vars == <<doc, view, selection, changes, updateLevel, history, indexOfNextAdd, ops, replaced>>

-----------------------------------------------------------------------------
(* What undo has to restore: the cells of the document with all that they  *)
(* have.  The order of the edges at a terminal and the next identifier are *)
(* not restored.                                                           *)
Contained(d) == ToSet(getDescendants(d, d.root))

Snapshot(d) ==
    [c \in Contained(d) |->
        [parent |-> d.parent[c], children |-> d.children[c], terminal |-> d.terminal[c],
         edges |-> ToSet(d.edges[c]), id |-> d.id[c], geometry |-> d.geometry[c],
         value |-> d.value[c], style |-> d.style[c], collapsed |-> d.collapsed[c],
         visible |-> d.visible[c]]]

(* The state of the program between two calls. *)
Graph == [doc |-> doc, view |-> view, selection |-> selection,
          history |-> history, index |-> indexOfNextAdd]

undoableEditHappened(g, edit) ==
    [g EXCEPT !.history = Append(SubSeq(@, 1, g.index), edit), !.index = @ + 1]

RecordRoot(g, root, r) ==
    undoableEditHappened([g EXCEPT !.view = r.view],
                         [source |-> "view", changes |-> <<r.change>>,
                          from |-> g.view.currentRoot, to |-> root])

ViewSetCurrentRoot(g, root) ==
    IF root = g.view.currentRoot THEN g ELSE RecordRoot(g, root, setCurrentRoot(g.doc, g.view, root))

SelectShown(g, c) == IF HasState(g.view, c) THEN [g EXCEPT !.selection = {c}] ELSE g

(* home: the whole document is shown, with the previous root selected. *)
home(g) ==
    LET current == g.view.currentRoot
    IN  IF current = Null THEN g ELSE SelectShown(ViewSetCurrentRoot(g, Null), current)

-----------------------------------------------------------------------------
(* graphModelChanged: what the graph does with the changes of an edit *)

RECURSIVE removeStateForCell(_, _, _)
removeStateForCell(d, v, c) ==
    IF c = Null THEN v
    ELSE LET Below == Fold(LAMBDA w, k : removeStateForCell(d, w, k), v, d.children[c])
         IN  removeState(invalidate(d, Below, c, FALSE, TRUE), c)

ProcessRoot(g, ch) ==
    [g EXCEPT !.selection = {}, !.view = removeStateForCell(g.doc, @, ch.previous)]

(* Removing the root of the view brings back the whole document. *)
LeaveRemoved(g, c) == IF g.view.currentRoot = c THEN home(g) ELSE g

Touch(d, v, c) == IF c = Null THEN v ELSE invalidate(d, v, c, FALSE, FALSE)

TouchParents(g, p, previous) ==
    IF p = previous THEN g
    ELSE [g EXCEPT !.view = Fold(LAMBDA v, c : Touch(g.doc, v, c), @, <<p, previous>>)]

InvalidateBelow_Bug(g, c) == [g EXCEPT !.view = invalidate(g.doc, @, c, TRUE, FALSE)]

InvalidateBelow(g, c) == [g EXCEPT !.view = invalidate(g.doc, @, c, TRUE, TRUE)]

RemoveStates(g, c) == [g EXCEPT !.view = removeStateForCell(g.doc, @, c)]

(* A moved cell is invalidated, a removed one or one that is moved into a  *)
(* collapsed cell loses its states.                                        *)
ProcessChild(g, ch) ==
    LET p == g.doc.parent[ch.child]
    IN  TouchParents(IF contains(g.doc, p) /\ ~g.doc.collapsed[p] THEN InvalidateBelow(g, ch.child)
                     ELSE LeaveRemoved(RemoveStates(InvalidateBelow(g, ch.child), ch.child), ch.child),
                     p, ch.previous)

ProcessGeometry(g, ch) ==
    IF ch.previous = ch.now THEN g
    ELSE InvalidateBelow(g, ch.cell)

InvalidStyle(v, c) == IF HasState(v, c) THEN [v EXCEPT !.states[c].invalidStyle = TRUE] ELSE v

ProcessStyle(g, ch) == [InvalidateBelow(g, ch.cell) EXCEPT !.view = InvalidStyle(@, ch.cell)]

processChange(g, ch) ==
    CASE ch.type = "root"     -> ProcessRoot(g, ch)
      [] ch.type = "child"    -> ProcessChild(g, ch)
      [] ch.type = "terminal" -> InvalidateBelow(g, ch.cell)
      [] ch.type = "geometry" -> ProcessGeometry(g, ch)
      [] ch.type = "value"    -> [g EXCEPT !.view = Touch(g.doc, @, ch.cell)]
      [] ch.type = "style"    -> ProcessStyle(g, ch)
      [] OTHER                -> RemoveStates(g, ch.cell)

(* A cell is shown unless it or an ancestor below the root of the view is  *)
(* hidden or an ancestor is collapsed.                                     *)
RECURSIVE Unfolded(_, _, _)
Unfolded(d, v, p) ==
    p = Null \/ p = v.currentRoot \/ (~d.collapsed[p] /\ d.visible[p] /\ Unfolded(d, v, d.parent[p]))

updateSelection_Bug(g) ==
    [g EXCEPT !.selection = {c \in @ : g.doc.visible[c] /\ Unfolded(g.doc, g.view, g.doc.parent[c])}]

updateSelection(g) ==
    [g EXCEPT !.selection = {c \in @ : /\ contains(g.doc, c) /\ g.doc.visible[c]
                                       /\ Unfolded(g.doc, g.view, g.doc.parent[c])}]

graphModelChanged(g, chs) ==
    [updateSelection(Fold(processChange, g, chs)) EXCEPT !.view = validate(g.doc, @)]

-----------------------------------------------------------------------------
(* Transactions *)

(* endUpdate of the outermost transaction: the graph is brought up to date *)
(* before the editor records the edit.                                     *)
endUpdate(g, from, chs) ==
    IF chs = <<>> THEN g
    ELSE undoableEditHappened(graphModelChanged(g, chs),
                              [source |-> "model", changes |-> chs, from |-> from, to |-> Snapshot(g.doc)])

(* What the changes of an open transaction started from. *)
Before == Snapshot(UndoChanges([doc |-> doc, changes |-> changes]).doc)

Become(g) ==
    /\ doc' = g.doc
    /\ view' = g.view
    /\ selection' = g.selection
    /\ history' = g.history
    /\ indexOfNextAdd' = g.index

Enabled(op) == op \in Ops

Counted == ops < MaxOps /\ ops' = ops + 1

Session == [doc |-> doc, changes |-> changes]

(* An operation of the graph is a transaction of its own, unless one is    *)
(* open already.                                                           *)
Operation(op, s) ==
    /\ Enabled(op)
    /\ Counted
    /\ Len(s.changes) > Len(changes)
    /\ IF updateLevel = 0
       THEN /\ Become(endUpdate([Graph EXCEPT !.doc = s.doc], Snapshot(doc), s.changes))
            /\ UNCHANGED changes
       ELSE /\ doc' = s.doc
            /\ changes' = s.changes
            /\ UNCHANGED <<view, selection, history, indexOfNextAdd>>
    /\ replaced' = (replaced \/ (op = "clear" /\ view.currentRoot # Null))
    /\ UNCHANGED updateLevel

BeginUpdate ==
    /\ Enabled("update")
    /\ ops + 1 < MaxOps
    /\ updateLevel = 0
    /\ updateLevel' = 1
    /\ UNCHANGED <<doc, view, selection, changes, history, indexOfNextAdd, ops, replaced>>

EndUpdate ==
    /\ updateLevel = 1
    /\ updateLevel' = 0
    /\ Become(endUpdate(Graph, Before, changes))
    /\ changes' = <<>>
    /\ UNCHANGED <<ops, replaced>>

-----------------------------------------------------------------------------
(* The operations, on cells that are shown *)

Shown == {c \in Vertex \cup Edge : HasState(view, c) /\ contains(doc, c) /\ c # view.currentRoot}

ShownVertices == Shown \cap Vertex

ShownEdges == Shown \cap Edge

Targets == Shown \cap Drop

Chosen == {S \in Picks : S \subseteq Shown}

Picked == {c \in Shown : {c} \in Picks}

DefaultParent == getDefaultParent(doc, view)

InsertVertex ==
    \E p \in {DefaultParent} \cup Targets, id \in GivenId, w \in Width :
        /\ Unborn(doc, Vertex) > 0
        /\ Operation("insertVertex", insertVertexCell(Session, view, p, id, 1, w))

InsertEdge ==
    \E source \in ShownVertices, target \in Targets :
        /\ Unborn(doc, Edge) > 0
        /\ ValidEdge(doc, source, target)
        /\ Operation("insertEdge", insertEdgeCell(Session, view, DefaultParent, source, target))

RemoveCells ==
    \E S \in Chosen, includeEdges \in BOOLEAN :
        Operation("removeCells", removeCells(Session, view, sortCells(doc, S), includeEdges))

MoveCells ==
    \E S \in Chosen, dx \in Shift, clone \in BOOLEAN, target \in Targets \cup {Null} :
        /\ clone => CanClone(doc, S)
        /\ ~clone => \A c \in S : ~isAncestor(doc, c, target)
        /\ Operation("moveCells", moveCells(Session, view, sortCells(doc, S), dx, clone, target))

GroupCells ==
    \E S \in Chosen :
        /\ Unborn(doc, Vertex) > 0
        /\ Operation("groupCells", groupCells(Session, view, sortCells(doc, S)))

UngroupCells ==
    \E c \in ShownVertices :
        /\ doc.children[c] # <<>>
        /\ Operation("ungroupCells", ungroupCells(Session, view, <<c>>))

RemoveCellsFromParent ==
    \E c \in Picked : Operation("removeCellsFromParent", removeCellsFromParent(Session, view, <<c>>))

UpdateGroupBounds ==
    \E c \in ShownVertices, moveGroup \in BOOLEAN :
        Operation("updateGroupBounds", updateGroupBounds(Session, view, <<c>>, moveGroup))

SplitEdge ==
    \E e \in ShownEdges, c \in ShownVertices, dx \in Shift :
        /\ CanClone(doc, {e})
        /\ isSplitTarget(doc, e, c)
        /\ ~isAncestor(doc, c, e)
        /\ Operation("splitEdge", splitEdge(Session, view, e, c, dx))

FoldCells ==
    \E c \in ShownVertices, collapse \in BOOLEAN, recurse \in BOOLEAN :
        /\ isCellFoldable(doc, c)
        /\ Operation("foldCells", foldCells(Session, view, <<c>>, collapse, recurse))

ToggleCells ==
    \E c \in {k \in Vertex \cup Edge : {k} \in Picks /\ contains(doc, k)}, show \in BOOLEAN, includeEdges \in BOOLEAN :
        Operation("toggleCells", toggleCells(Session, <<c>>, show, includeEdges))

ConnectCell ==
    \E e \in ShownEdges, t \in Targets, isSource \in BOOLEAN :
        /\ t # doc.terminal[e][isSource]
        /\ ValidEdge(doc, t, doc.terminal[e][~isSource])
        /\ Operation("connectCell", connectCell(Session, e, t, isSource))

OrderCells ==
    \E S \in Chosen, back \in BOOLEAN :
        Operation("orderCells", cellsOrdered(Session, sortCells(doc, S), back))

ResizeCells ==
    \E c \in Picked \cap Vertex, w \in Width :
        Operation("resizeCells", cellsResized(Session, view, c, [doc.geometry[c] EXCEPT !.w = w]))

SetAttribute ==
    \E c \in Picked :
        \/ Operation("setValue", setValue(Session, c, 1 - doc.value[c]))
        \/ Operation("setStyle", setStyle(Session, c, 1 - doc.style[c]))

(* mxGraphModel.clear with createRoot: a new root with one layer. *)
createRoot(d) ==
    LET r == NewCell(d, Plain)
        e == [d EXCEPT !.born = @ \cup {r}]
        l == NewCell(e, Plain)
    IN  [doc |-> insert([e EXCEPT !.born = @ \cup {l}], r, l, 0), root |-> r]

ClearModel ==
    /\ Unborn(doc, Plain) > 1
    /\ LET n == createRoot(doc)
       IN  Operation("clear", setRoot([Session EXCEPT !.doc = n.doc], n.root))

-----------------------------------------------------------------------------
(* Selection and navigation, between transactions *)

Navigation(op, g) ==
    /\ Enabled(op)
    /\ updateLevel = 0
    /\ Become(g)
    /\ UNCHANGED <<changes, updateLevel, replaced>>

setSelectionCells ==
    \E S \in Chosen \ {selection} : Counted /\ Navigation("select", [Graph EXCEPT !.selection = S])

EnterGroup ==
    \E c \in ShownVertices :
        Counted /\ Navigation("enterGroup", [ViewSetCurrentRoot(Graph, c) EXCEPT !.selection = {}])

(* exitGroup: the parent of the root of the view is shown.  The root of a  *)
(* document that has been replaced has no parent: the loop that looks for  *)
(* one does not end.                                                       *)
ExitGroup ==
    LET current == view.currentRoot
        next    == getParent(doc, current)
    IN  /\ Counted
        /\ next # Null
        /\ Navigation("enterGroup",
                SelectShown(ViewSetCurrentRoot(Graph, IF next = doc.root \/ isLayer(doc, next)
                                                      THEN Null ELSE next), current))

Home == Counted /\ view.currentRoot # Null /\ Navigation("enterGroup", home(Graph))

-----------------------------------------------------------------------------
(* Undo and redo of one edit; every edit is significant *)

RECURSIVE CellsIn(_, _)
CellsIn(d, c) ==
    IF ~contains(d, c) THEN {}
    ELSE IF c \in Vertex \cup Edge THEN {c}
    ELSE UNION {CellsIn(d, k) : k \in ToSet(d.children[c])}

getSelectionCellsForChanges(d, chs) ==
    UNION {CASE chs[i].type \in {"root", "currentRoot"} -> {}
             [] chs[i].type = "child" -> CellsIn(d, chs[i].child)
             [] OTHER -> CellsIn(d, chs[i].cell) : i \in DOMAIN chs}

(* The edit at position i is executed again; the changes are swapped. *)
AfterModel(g, i, s) ==
    [graph   |-> graphModelChanged([g EXCEPT !.doc = s.doc, !.history[i].changes = s.changes], s.changes),
     changes |-> s.changes]

ReplayModel(g, i, Replay(_)) == AfterModel(g, i, Replay([doc |-> g.doc, changes |-> g.history[i].changes]))

AfterView(g, i, r) ==
    [graph   |-> [g EXCEPT !.view = r.view, !.history[i].changes = <<r.change>>],
     changes |-> <<r.change>>]

ReplayView(g, i) == AfterView(g, i, ExecuteCurrentRoot(g.doc, g.view, g.history[i].changes[1]))

(* The editor selects the cells of the changes. *)
Replayed(r) == [r.graph EXCEPT !.selection = getSelectionCellsForChanges(r.graph.doc, r.changes)]

Undo ==
    /\ indexOfNextAdd > 0
    /\ UNCHANGED ops
    /\ LET g == [Graph EXCEPT !.index = @ - 1]
           i == indexOfNextAdd
       IN  Navigation("undo", Replayed(IF history[i].source = "model"
                                       THEN ReplayModel(g, i, UndoChanges) ELSE ReplayView(g, i)))

Redo ==
    /\ indexOfNextAdd < Len(history)
    /\ UNCHANGED ops
    /\ LET g == [Graph EXCEPT !.index = @ + 1]
           i == indexOfNextAdd + 1
       IN  Navigation("undo", Replayed(IF history[i].source = "model"
                                       THEN ReplayModel(g, i, RedoChanges) ELSE ReplayView(g, i)))

Next ==
    \/ BeginUpdate \/ EndUpdate
    \/ InsertVertex \/ InsertEdge \/ RemoveCells \/ MoveCells \/ GroupCells \/ UngroupCells
    \/ RemoveCellsFromParent \/ UpdateGroupBounds \/ SplitEdge \/ FoldCells \/ ToggleCells
    \/ ConnectCell \/ OrderCells \/ ResizeCells \/ SetAttribute \/ ClearModel
    \/ setSelectionCells \/ EnterGroup \/ ExitGroup \/ Home
    \/ Undo \/ Redo

(* The editor opens with a document. *)
InitWith(d) ==
    /\ doc = d
    /\ view = FreshView(d, Null)
    /\ selection = {}
    /\ changes = <<>>
    /\ updateLevel = 0
    /\ history = <<>>
    /\ indexOfNextAdd = 0
    /\ ops = 0
    /\ replaced = FALSE

-----------------------------------------------------------------------------
(* Properties *)

(* The document is well-formed, whatever operations are combined (cellAdded,*)
(* cellRemoved, mxCell.insert and remove under every operation of mxGraph).*)
(* The cells are a tree: parent pointers and lists of children mirror each *)
(* other, no cell is listed twice and none is its own descendant.          *)
TreeOK ==
    /\ doc.parent \in [Cell -> Cell \cup {Null}]
    /\ \A p, c \in Cell : doc.parent[c] = p <=> Contains(doc.children[p], c)
    /\ \A p \in Cell : Len(doc.children[p]) = Cardinality(ToSet(doc.children[p]))
    /\ \A c \in Cell : doc.parent[c] # Null => ~isAncestor(doc, c, doc.parent[c])

(* The edges of the document and their terminals know each other, each     *)
(* edge once, and at most one end of an edge hangs on a removed cell.      *)
EdgesOK ==
    LET in == Contained(doc)
        Hangs(e, isSource) == doc.terminal[e][isSource] \notin in \cup {Null}
    IN  /\ \A t \in in \cap Vertex : /\ Len(doc.edges[t]) = Cardinality(ToSet(doc.edges[t]))
                                     /\ \A e \in ToSet(doc.edges[t]) :
                                            e \in in /\ \E isSource \in BOOLEAN : doc.terminal[e][isSource] = t
        /\ \A e \in in \cap Edge : /\ \A isSource \in BOOLEAN :
                                          LET t == doc.terminal[e][isSource]
                                          IN  t # Null => Contains(doc.edges[t], e)
                                   /\ ~(Hangs(e, TRUE) /\ Hangs(e, FALSE))

(* The dictionary has exactly the cells of the document, each under its    *)
(* identifier.                                                             *)
DictionaryOK ==
    /\ doc.nextId \in 0 .. MaxId
    /\ \A c \in Contained(doc) : doc.id[c] # Null /\ doc.cells[doc.id[c]] = c
    /\ \A i \in 0 .. MaxId : doc.cells[i] # Null => doc.cells[i] \in Contained(doc) /\ doc.id[doc.cells[i]] = i

(* All three together: the document is well-formed after every operation.  *)
DocumentOK == TreeOK /\ EdgesOK /\ DictionaryOK

(* No edge of the document hangs on a removed cell: cellsRemoved           *)
(* "Disconnects edges which are not being removed".                        *)
NoEdgeOnRemoved ==
    \A e \in Contained(doc) \cap Edge, isSource \in BOOLEAN :
        doc.terminal[e][isSource] \in Contained(doc) \cup {Null}

(* The document is what the last edit before the position in the history   *)
(* left, and what the next edit started from; so is the root of the view.  *)
(* Undoing any number of edits therefore restores an earlier document      *)
(* exactly, and redoing them the later one.                                *)
UndoExact ==
    updateLevel = 0 =>
        LET Now(source) == IF source = "model" THEN Snapshot(doc) ELSE view.currentRoot
            Edits(source, S) == {i \in S : history[i].source = source}
        IN  \A source \in {"model", "view"} :
               LET done == Edits(source, 1 .. indexOfNextAdd)
                   todo == Edits(source, indexOfNextAdd + 1 .. Len(history))
               IN  /\ \A i \in done : (\A j \in done : j <= i) => history[i].to = Now(source)
                   /\ \A i \in todo : (\A j \in todo : i <= j) => history[i].from = Now(source)

(* Between transactions the screen shows the document: the cached states   *)
(* are those of a view built from nothing, as long as no other document is *)
(* set (clear) while a group is shown, which leaves the group on screen.   *)
ViewInSync ==
    updateLevel = 0 /\ ~replaced => view = FreshView(doc, view.currentRoot)

(* The step makes, undoes or redoes an edit of the document. *)
ModelEdit ==
    /\ indexOfNextAdd' # indexOfNextAdd
    /\ history'[Larger(indexOfNextAdd, indexOfNextAdd')].source = "model"

(* No edit of the document leaves a cell selected that it removed, hid or  *)
(* folded away (updateSelection), and neither undoing nor redoing an edit  *)
(* selects a cell that is not in the document, so that an operation on the *)
(* selection never works on removed cells.  (Leaving a group of a document *)
(* that has been replaced does select a removed cell.)                     *)
SelectionFollows ==
    [][ModelEdit =>
          /\ selection' \subseteq Contained(doc')
          /\ ops' # ops \/ updateLevel' # updateLevel =>
                 \A c \in selection' \cap Vertex :
                     isAncestor(doc', ViewRoot(doc', view'), c) => HasState(view', c)]_vars
=============================================================================
