----------------------------- MODULE GraphModel -----------------------------
(***************************************************************************)
(* mxGraphModel and mxCell of the graph library Bridge shows report graphs *)
(* with: a tree of cells in which edges connect cells.  A document is a    *)
(* record of functions on cells; every operation of the library is an      *)
(* operator on it.  What mxGraphModel changes goes through execute, which  *)
(* logs the atomic change for the undo history.                            *)
(*                                                                         *)
(* Geometries have one dimension, since the library treats both alike.     *)
(* Values and styles are small numbers.  Cells are allocated once: those   *)
(* in "born" have been created, the others are fresh.                      *)
(***************************************************************************)
EXTENDS Integers, Sequences, SequencesExt, FiniteSets

CONSTANTS Cell,      \* all cells that ever exist
          Vertex,    \* those with vertex = 1
          Edge,      \* those with edge = 1; the others are roots and layers
          MaxId,     \* bound of the identifiers
          Null

(* A geometry: x and width, relative to the parent unless "relative"; the  *)
(* way points and the points of unconnected ends of an edge; the width of  *)
(* alternateBounds, whose x is never used.                                 *)
Geometry(x, w) ==
    [x |-> x, w |-> w, relative |-> FALSE, points |-> <<>>,
     ends |-> [isSource \in BOOLEAN |-> Null], alt |-> Null]

EdgeGeometry == [Geometry(0, 0) EXCEPT !.relative = TRUE]

(* A cell as the constructors leave it, in all the functions of a document. *)
EmptyDoc ==
    [parent    |-> [c \in Cell |-> Null],
     children  |-> [c \in Cell |-> <<>>],
     terminal  |-> [c \in Cell |-> [isSource \in BOOLEAN |-> Null]],
     edges     |-> [c \in Cell |-> <<>>],
     id        |-> [c \in Cell |-> Null],
     geometry  |-> [c \in Cell |-> Null],
     value     |-> [c \in Cell |-> 0],
     style     |-> [c \in Cell |-> 0],
     collapsed |-> [c \in Cell |-> FALSE],
     visible   |-> [c \in Cell |-> TRUE],
     connectable |-> [c \in Cell |-> TRUE],
     cells     |-> [i \in 0 .. MaxId |-> Null],
     nextId    |-> 0,
     root      |-> Null,
     born      |-> {}]

isVertex(c) == c \in Vertex

isEdge(c) == c \in Edge

Plain == Cell \ (Vertex \cup Edge)

(* The first cell of a kind that was not created yet, and how many are left. *)
NewCell(d, kind) == CHOOSE c \in kind : c \notin d.born

Unborn(d, kind) == Cardinality(kind \ d.born)

(* The loops of the library: op is applied to an accumulator and each      *)
(* element in turn.  The accumulator is evaluated before op is: TLC would  *)
(* nest the iterations otherwise.                                          *)
Fold(op(_, _), base, seq) ==
    LET acc[i \in 0 .. Len(seq)] ==
            IF i = 0 THEN base
            ELSE CHOOSE next \in {op(previous, seq[i]) : previous \in {acc[i - 1]}} : TRUE
    IN  acc[Len(seq)]

-----------------------------------------------------------------------------
(* Queries of the tree *)

getParent(d, c) == IF c = Null THEN Null ELSE d.parent[c]

getIndex(d, p, c) == SelectInSeq(d.children[p], LAMBDA k : k = c) - 1

RECURSIVE isAncestor(_, _, _)
isAncestor(d, p, c) == c = p \/ (c # Null /\ isAncestor(d, p, d.parent[c]))

contains(d, c) == isAncestor(d, d.root, c)

RECURSIVE getRoot(_, _)
getRoot(d, c) == IF d.parent[c] = Null THEN c ELSE getRoot(d, d.parent[c])

isLayer(d, c) == getParent(d, c) = d.root

RECURSIVE getDescendants(_, _)
getDescendants(d, c) ==
    <<c>> \o Fold(LAMBDA acc, k : acc \o getDescendants(d, k), <<>>, d.children[c])

(* Absolute position of the origin of a cell. *)
RECURSIVE getOrigin(_, _)
getOrigin(d, c) ==
    IF c = Null THEN 0
    ELSE getOrigin(d, d.parent[c])
            + (IF isEdge(c) \/ d.geometry[c] = Null THEN 0 ELSE d.geometry[c].x)

(* mxCellPath.create: the indices that lead from the root to the cell. *)
RECURSIVE CellPath(_, _)
CellPath(d, c) ==
    IF getParent(d, c) = Null THEN <<>>
    ELSE Append(CellPath(d, d.parent[c]), getIndex(d, d.parent[c], c))

(* mxCellPath.compare: p1 is before p2. *)
PathBefore(p1, p2) ==
    \/ \E i \in 1 .. Len(p1) : /\ i <= Len(p2)
                               /\ p1[i] < p2[i]
                               /\ \A j \in 1 .. i - 1 : p1[j] = p2[j]
    \/ IsStrictPrefix(p1, p2)

(* mxUtils.sortCells in ascending order. *)
sortCells(d, S) == SetToSortSeq(S, LAMBDA a, b : PathBefore(CellPath(d, a), CellPath(d, b)))

(* The walk up from the cell with the shorter path until its path is a     *)
(* proper prefix of the other path; the root itself never qualifies.       *)
RECURSIVE CommonAncestor(_, _, _)
CommonAncestor(d, c, path) ==
    IF c = Null THEN Null
    ELSE IF IsStrictPrefix(CellPath(d, c), path) /\ d.parent[c] # Null THEN c
    ELSE CommonAncestor(d, d.parent[c], path)

AncestorByPath(d, c1, p1, c2, p2) ==
    IF p2 = <<>> THEN Null
    ELSE IF Len(p2) < Len(p1) THEN CommonAncestor(d, c2, p1)
    ELSE CommonAncestor(d, c1, p2)

getNearestCommonAncestor(d, c1, c2) ==
    IF c1 = Null \/ c2 = Null THEN Null
    ELSE AncestorByPath(d, c1, CellPath(d, c1), c2, CellPath(d, c2))

(* The cells none of whose ancestors is in the given ones. *)
getTopmostCells(d, s) ==
    SelectSeq(s, LAMBDA c : \A p \in ToSet(s) : p = c \/ ~isAncestor(d, p, c))

-----------------------------------------------------------------------------
(* mxCell: the pointers between cells *)

removeFromParent(d, c) ==
    IF d.parent[c] = Null THEN d
    ELSE [d EXCEPT !.children[d.parent[c]] = RemoveFirst(@, c), !.parent[c] = Null]

(* splice puts an index behind the end at the end. *)
Spliced(d, p, c, index) ==
    [d EXCEPT !.parent[c] = p,
              !.children[p] = InsertAt(@, (IF index < Len(@) THEN index ELSE Len(@)) + 1, c)]

insert(d, p, c, index) == Spliced(removeFromParent(d, c), p, c, index)

(* An edge that is a loop stays listed for its other end. *)
removeEdge(d, t, e, isOutgoing) ==
    [d EXCEPT !.edges[t] = IF d.terminal[e][~isOutgoing] # t THEN RemoveFirst(@, e) ELSE @,
              !.terminal[e][isOutgoing] = Null]

removeFromTerminal(d, e, isSource) ==
    IF d.terminal[e][isSource] = Null THEN d
    ELSE removeEdge(d, d.terminal[e][isSource], e, isSource)

Linked(d, t, e, isOutgoing) ==
    [d EXCEPT !.terminal[e][isOutgoing] = t,
              !.edges[t] = IF d.terminal[e][~isOutgoing] = t /\ Contains(@, e)
                           THEN @ ELSE Append(@, e)]

insertEdge(d, t, e, isOutgoing) == Linked(removeFromTerminal(d, e, isOutgoing), t, e, isOutgoing)

-----------------------------------------------------------------------------
(* mxGraphModel: the dictionary of the cells by identifier *)

(* The identifiers createId tries until one does not collide. *)
RECURSIVE FreeId(_)
FreeId(d) == IF d.cells[d.nextId] = Null THEN d ELSE FreeId([d EXCEPT !.nextId = @ + 1])

(* A cell gets an identifier if it has none, and another one if a          *)
(* different cell has it.                                                  *)
WithId(d, c) ==
    LET Given(e) == [e EXCEPT !.id[c] = e.nextId, !.cells[e.nextId] = c, !.nextId = @ + 1]
    IN  IF d.id[c] # Null /\ d.cells[d.id[c]] \in {Null, c}
        THEN [d EXCEPT !.cells[d.id[c]] = c,
                       !.nextId = IF @ < d.id[c] THEN d.id[c] ELSE @]
        ELSE Given(FreeId(d))

RECURSIVE cellAdded(_, _)
cellAdded(d, c) == Fold(cellAdded, WithId(d, c), d.children[c])

RECURSIVE cellRemoved(_, _)
cellRemoved(d, c) ==
    LET Dropped(e) == IF e.id[c] = Null THEN e ELSE [e EXCEPT !.cells[e.id[c]] = Null]
    IN  Dropped(Fold(cellRemoved, d, Reverse(d.children[c])))

-----------------------------------------------------------------------------
(* mxGraphModel: the effects of the atomic changes *)

rootChanged(d, r) ==
    LET e == [d EXCEPT !.root = r, !.nextId = 0, !.cells = [i \in 0 .. MaxId |-> Null]]
    IN  IF r = Null THEN e ELSE cellAdded(e, r)

(* The dictionary follows a cell that moves into the model or out of it. *)
Registered(d, c, par, pre) ==
    CASE par /\ ~pre -> cellAdded(d, c)
      [] pre /\ ~par -> cellRemoved(d, c)
      [] OTHER       -> d

RegisteredUnder(d, c, p, previous) == Registered(d, c, contains(d, p), contains(d, previous))

parentForCellChanged(d, c, p, index) ==
    RegisteredUnder(IF p = Null THEN removeFromParent(d, c)
                    ELSE IF p # d.parent[c] \/ getIndex(d, p, c) # index THEN insert(d, p, c, index)
                    ELSE d,
                    c, p, d.parent[c])

terminalForCellChanged(d, e, t, isSource) ==
    IF t # Null THEN insertEdge(d, t, e, isSource) ELSE removeFromTerminal(d, e, isSource)

(* mxChildChange.connect: the edges below a cell are listed at their       *)
(* terminals or no longer are; they point to their terminals all the same. *)
ConnectEnds(d, c, isConnect) ==
    Fold(LAMBDA e, isSource :
             IF d.terminal[c][isSource] = Null THEN e
             ELSE terminalForCellChanged(e, c, IF isConnect THEN d.terminal[c][isSource] ELSE Null, isSource),
         d, <<TRUE, FALSE>>)

RECURSIVE connect(_, _, _)
connect(d, c, isConnect) ==
    Fold(LAMBDA e, k : connect(e, k, isConnect),
         [ConnectEnds(d, c, isConnect) EXCEPT !.terminal[c] = d.terminal[c]], d.children[c])

-----------------------------------------------------------------------------
(* The atomic changes.  Executing one swaps what the document has with the *)
(* "previous" of the change, so that executing it again undoes it.         *)

ExecuteRoot(d, ch) == [doc |-> rootChanged(d, ch.previous),
                       change |-> [ch EXCEPT !.previous = d.root]]

MoveChild(d, ch) == parentForCellChanged(d, ch.child, ch.previous, ch.previousIndex)

ExecuteChild_Bug(d, ch) ==
    [doc    |-> IF ch.previous = Null THEN MoveChild(connect(d, ch.child, FALSE), ch)
                ELSE connect(MoveChild(d, ch), ch.child, TRUE),
     change |-> [ch EXCEPT !.parent = ch.previous, !.previous = d.parent[ch.child]]]

ExecuteChild(d, ch) ==
    [doc    |-> IF ch.previous = Null THEN MoveChild(connect(d, ch.child, FALSE), ch)
                ELSE connect(MoveChild(d, ch), ch.child, TRUE),
     change |-> [ch EXCEPT !.parent = ch.previous,
                           !.previous = d.parent[ch.child],
                           !.previousIndex = IF d.parent[ch.child] = Null THEN 0
                                             ELSE getIndex(d, d.parent[ch.child], ch.child)]]

ExecuteTerminal(d, ch) ==
    [doc    |-> terminalForCellChanged(d, ch.cell, ch.previous, ch.source),
     change |-> [ch EXCEPT !.previous = d.terminal[ch.cell][ch.source]]]

(* mxValueChange, mxStyleChange, mxGeometryChange, mxCollapseChange and    *)
(* mxVisibleChange.                                                        *)
ExecuteAttribute(d, ch) ==
    [doc    |-> CASE ch.type = "value"     -> [d EXCEPT !.value[ch.cell] = ch.previous]
                  [] ch.type = "style"     -> [d EXCEPT !.style[ch.cell] = ch.previous]
                  [] ch.type = "geometry"  -> [d EXCEPT !.geometry[ch.cell] = ch.previous]
                  [] ch.type = "collapsed" -> [d EXCEPT !.collapsed[ch.cell] = ch.previous]
                  [] ch.type = "visible"   -> [d EXCEPT !.visible[ch.cell] = ch.previous],
     change |-> [ch EXCEPT !.now = ch.previous, !.previous = d[ch.type][ch.cell]]]

ExecuteChange(d, ch) ==
    CASE ch.type = "root"     -> ExecuteRoot(d, ch)
      [] ch.type = "child"    -> ExecuteChild(d, ch)
      [] ch.type = "terminal" -> ExecuteTerminal(d, ch)
      [] OTHER                -> ExecuteAttribute(d, ch)

(* A session is a document with the changes of the current edit, to which  *)
(* execute appends.  r is what executing a change gave.                    *)
execute(s, r) == [doc |-> r.doc, changes |-> Append(s.changes, r.change)]

(* mxUndoableEdit.undo and redo: all changes, backwards or forwards. *)
Reexecuted(s, i, r) == [doc |-> r.doc, changes |-> [s.changes EXCEPT ![i] = r.change]]

ReExecute(s, i) == Reexecuted(s, i, ExecuteChange(s.doc, s.changes[i]))

UndoChanges(s) == Fold(ReExecute, s, [i \in 1 .. Len(s.changes) |-> Len(s.changes) + 1 - i])

RedoChanges(s) == Fold(ReExecute, s, [i \in 1 .. Len(s.changes) |-> i])

-----------------------------------------------------------------------------
(* mxGraphModel: the operations *)

setRoot(s, r) == execute(s, ExecuteRoot(s.doc, [type |-> "root", previous |-> r]))

SetAttributeOf(s, type, c, v) ==
    execute(s, ExecuteAttribute(s.doc, [type |-> type, cell |-> c, now |-> v, previous |-> v]))

setValue(s, c, v) == SetAttributeOf(s, "value", c, v)

setStyle(s, c, v) == IF v = s.doc.style[c] THEN s ELSE SetAttributeOf(s, "style", c, v)

setGeometry(s, c, g) == SetAttributeOf(s, "geometry", c, g)

setCollapsed(s, c, b) == IF b = s.doc.collapsed[c] THEN s ELSE SetAttributeOf(s, "collapsed", c, b)

setVisible(s, c, b) == IF b = s.doc.visible[c] THEN s ELSE SetAttributeOf(s, "visible", c, b)

(* mxGeometry.translate *)
Translate(g, dx) ==
    [g EXCEPT !.x = IF g.relative THEN @ ELSE @ + dx,
              !.points = [i \in DOMAIN @ |-> @[i] + dx],
              !.ends = [isSource \in BOOLEAN |-> IF @[isSource] = Null THEN Null ELSE @[isSource] + dx]]

(* The first ancestor of a terminal that is not positioned relatively. *)
RECURSIVE NonRelative(_, _)
NonRelative(d, c) ==
    IF c # Null /\ ~isEdge(c) /\ d.geometry[c] # Null /\ d.geometry[c].relative
    THEN NonRelative(d, d.parent[c]) ELSE c

(* Where updateEdgeParent wants an edge, or Null if it stays.  The nearest *)
(* common ancestor of the terminals is left out when it is a layer other   *)
(* than the one the edge is in.                                            *)
NewParent(d, e, cell) ==
    IF /\ cell # Null
       /\ d.parent[cell] # d.root \/ isAncestor(d, cell, e)
       /\ d.parent[e] # cell
    THEN cell ELSE Null

ParentBetween(d, e, r, source, target) ==
    IF isAncestor(d, r, source) /\ isAncestor(d, r, target)
    THEN NewParent(d, e, IF source = target THEN getParent(d, source)
                         ELSE getNearestCommonAncestor(d, source, target))
    ELSE Null

EdgeParent(d, e, r) ==
    ParentBetween(d, e, r, NonRelative(d, d.terminal[e][TRUE]), NonRelative(d, d.terminal[e][FALSE]))

(* The points of an edge keep their place on the screen. *)
KeepInPlace(s, e, cell) ==
    IF s.doc.geometry[e] = Null THEN s
    ELSE setGeometry(s, e, Translate(s.doc.geometry[e],
                                     getOrigin(s.doc, s.doc.parent[e]) - getOrigin(s.doc, cell)))

(* add with updateEdgeParents and updateEdgeParent, which call it back: an *)
(* edge follows its terminals into their nearest common ancestor.          *)
RECURSIVE updateEdgeParents(_, _, _), updateEdgeParent(_, _, _)
ExecuteAdd(s, p, c, index) ==
    execute(s, ExecuteChild(s.doc, [type |-> "child", parent |-> p, child |-> c, previous |-> p,
                                    previousIndex |-> IF index = Null THEN Len(s.doc.children[p]) ELSE index]))

EdgesFollow(s, c, previous) ==
    IF s.doc.parent[c] = previous THEN s ELSE updateEdgeParents(s, c, getRoot(s.doc, c))

add(s, p, c, index) ==
    IF c = p \/ p = Null THEN s ELSE EdgesFollow(ExecuteAdd(s, p, c, index), c, s.doc.parent[c])

EdgesOf(s, c, r) ==
    Fold(LAMBDA u, e : IF isAncestor(u.doc, r, e) THEN updateEdgeParent(u, e, r) ELSE u, s, s.doc.edges[c])

updateEdgeParents(s, c, r) ==
    EdgesOf(Fold(LAMBDA u, k : updateEdgeParents(u, k, r), s, s.doc.children[c]), c, r)

MoveEdge(s, e, cell) == IF cell = Null THEN s ELSE add(KeepInPlace(s, e, cell), cell, e, Null)

updateEdgeParent(s, e, r) == MoveEdge(s, e, EdgeParent(s.doc, e, r))

(* remove: the root of the model is not removed by any caller. *)
removeCell(s, c) ==
    IF s.doc.parent[c] = Null THEN s
    ELSE execute(s, ExecuteChild(s.doc, [type |-> "child", parent |-> Null, child |-> c,
                                         previous |-> Null, previousIndex |-> 0]))

ExecuteSetTerminal(s, e, t, isSource) ==
    execute(s, ExecuteTerminal(s.doc, [type |-> "terminal", cell |-> e, previous |-> t, source |-> isSource]))

EdgeFollows(s, e, isSource, previous) ==
    IF s.doc.terminal[e][isSource] = previous THEN s ELSE updateEdgeParent(s, e, s.doc.root)

setTerminal(s, e, t, isSource) ==
    EdgeFollows(ExecuteSetTerminal(s, e, t, isSource), e, isSource, s.doc.terminal[e][isSource])

-----------------------------------------------------------------------------
(* mxGraphModel: cloning.  The mapping takes the originals to the clones.  *)

(* mxCell.clone: the copy has no identifier, no relatives and no terminals. *)
CellCloned(d, c, clone) ==
    [d EXCEPT !.born = @ \cup {clone},
              !.geometry[clone] = d.geometry[c], !.value[clone] = d.value[c],
              !.style[clone] = d.style[c], !.collapsed[clone] = d.collapsed[c],
              !.visible[clone] = d.visible[c], !.connectable[clone] = d.connectable[c]]

KindOf(c) == CHOOSE kind \in {Vertex, Edge, Plain} : c \in kind

RECURSIVE cloneCellImpl(_, _)
cloneCellImpl(m, c) ==
    IF m.mapping[c] # Null THEN m
    ELSE LET clone == NewCell(m.doc, KindOf(c))
             n == [doc |-> CellCloned(m.doc, c, clone), mapping |-> [m.mapping EXCEPT ![c] = clone]]
             In(q, k) == [q EXCEPT !.doc = insert(@, clone, q.mapping[k], Len(@.children[clone]))]
         IN  Fold(LAMBDA o, k : In(cloneCellImpl(o, k), k), n, m.doc.children[c])

(* The clone of an edge is connected to the clones of its terminals. *)
RECURSIVE restoreClone(_, _)
restoreClone(m, c) ==
    LET End(d, isSource) ==
            LET t == d.terminal[c][isSource]
            IN  IF t = Null \/ m.mapping[t] = Null THEN d
                ELSE insertEdge(d, m.mapping[t], m.mapping[c], isSource)
    IN  Fold(restoreClone, [m EXCEPT !.doc = Fold(End, @, <<TRUE, FALSE>>)], m.doc.children[c])

cloneCells(d, s) ==
    LET cloned == Fold(cloneCellImpl, [doc |-> d, mapping |-> [c \in Cell |-> Null]], s)
    IN  Fold(restoreClone, cloned, s)

(* There are fresh cells left to clone these. *)
CanClone(d, S) ==
    LET all == UNION {ToSet(getDescendants(d, c)) : c \in S}
    IN  \A kind \in {Vertex, Edge, Plain} : Cardinality(all \cap kind) <= Unborn(d, kind)
=============================================================================
