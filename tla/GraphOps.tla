------------------------------ MODULE GraphOps ------------------------------
(***************************************************************************)
(* The operations of mxGraph on cells, as operators on a session (document *)
(* and changes of the current edit).  They read the view, which is as old  *)
(* as the last transaction.                                                *)
(*                                                                         *)
(* The switches of the graph have their default values: parents are        *)
(* extended when a cell is added or resized but not when it is moved,      *)
(* children are constrained to their parents, negative coordinates and     *)
(* dangling edges are allowed, moved edges are disconnected, way points    *)
(* are reset on connect.  Vertices have absolute positions and no cell is  *)
(* a swimlane, a port or rotated.                                          *)
(***************************************************************************)
EXTENDS GraphView

CONSTANT PreferredWidth   \* what a cell is collapsed to

getDefaultParent(d, v) == IF v.currentRoot # Null THEN v.currentRoot ELSE d.children[d.root][1]

-----------------------------------------------------------------------------
(* Bounds *)

Smaller(a, b) == IF a < b THEN a ELSE b

Larger(a, b) == IF a > b THEN a ELSE b

Extent(box, x, w) ==
    IF box = Null THEN [x |-> x, w |-> w]
    ELSE [x |-> Smaller(x, box.x), w |-> Larger(x + w, box.x + box.w) - Smaller(x, box.x)]

PointsBox(box, pts) == Fold(LAMBDA b, p : IF p = Null THEN b ELSE Extent(b, p, 0), box, pts)

(* getBoundingBoxFromGeometry.  The variable "tmp" of the code lives as    *)
(* long as the function: an edge starts from the box that the cell before  *)
(* it left there, and its way points replace its terminal points.          *)
VertexBox(d, acc, c, p) ==
    IF p = Null THEN [acc EXCEPT !.box = Extent(@, d.geometry[c].x, d.geometry[c].w)]
    ELSE [box |-> Extent(acc.box, d.geometry[c].x + d.geometry[p].x, d.geometry[c].w),
          tmp |-> [x |-> d.geometry[p].x, w |-> d.geometry[p].w]]

LooseEnd(d, c, isSource) == IF d.terminal[c][isSource] = Null THEN d.geometry[c].ends[isSource] ELSE Null

EdgePointsBox(d, acc, c) ==
    IF d.geometry[c].points # <<>> THEN PointsBox(Null, d.geometry[c].points)
    ELSE PointsBox(acc.tmp, <<LooseEnd(d, c, TRUE), LooseEnd(d, c, FALSE)>>)

WithBox(acc, tmp) == [box |-> IF tmp = Null THEN acc.box ELSE Extent(acc.box, tmp.x, tmp.w), tmp |-> tmp]

(* The parent of a cell, if its position counts. *)
BoxParent(d, s, p) == IF isVertex(p) /\ Contains(s, p) /\ d.geometry[p] # Null THEN p ELSE Null

getBoundingBoxFromGeometry(d, s, includeEdges) ==
    Fold(LAMBDA acc, c : IF d.geometry[c] = Null THEN acc
                         ELSE IF isVertex(c) THEN VertexBox(d, acc, c, BoxParent(d, s, d.parent[c]))
                         ELSE IF isEdge(c) /\ includeEdges THEN WithBox(acc, EdgePointsBox(d, acc, c))
                         ELSE acc,
         [box |-> Null, tmp |-> Null], s).box

(* getCellContainmentArea: the width of the parent, if it has one and is   *)
(* not the default parent.                                                 *)
ContainmentWidth(d, v, c) ==
    LET p == d.parent[c]
    IN  IF isEdge(c) \/ p \in {Null, getDefaultParent(d, v)} THEN Null
        ELSE IF d.geometry[p] = Null THEN Null ELSE d.geometry[p].w

(* constrainChild: a cell and its visible descendants are shifted, and the *)
(* cell is narrowed, to fit into the parent.                               *)
ShiftInto(bbox, max, cut) ==
    (IF bbox.x + bbox.w > max THEN cut - (bbox.x + bbox.w - max - cut) ELSE cut)
      - (IF bbox.x < 0 THEN bbox.x ELSE 0)

FitInto(s, c, bbox, max, cut) ==
    setGeometry(s, c, [s.doc.geometry[c] EXCEPT !.w = @ - cut, !.x = @ + ShiftInto(bbox, max, cut)])

WithDescendants(d, c) ==
    <<c>> \o (IF d.collapsed[c] THEN <<>> ELSE SelectSeq(getDescendants(d, c), LAMBDA k : d.visible[k]))

ConstrainTo(s, c, max) ==
    IF max = Null THEN s
    ELSE FitInto(s, c, getBoundingBoxFromGeometry(s.doc, WithDescendants(s.doc, c), FALSE), max,
                 Larger(s.doc.geometry[c].w - max, 0))

constrainChild(s, v, c) ==
    IF s.doc.geometry[c] = Null THEN s
    ELSE IF s.doc.geometry[c].relative \/ isEdge(s.doc.parent[c]) THEN s
    ELSE ConstrainTo(s, c, ContainmentWidth(s.doc, v, c))

(* cellResized and constrainChildCells: a cell gets new bounds, and its    *)
(* children are constrained to them.                                       *)
constrainChildCells(s, v, c) == Fold(LAMBDA u, k : constrainChild(u, v, k), s, s.doc.children[c])

cellResized(s, v, c, bounds) ==
    LET geo == s.doc.geometry[c]
    IN  IF geo = Null THEN s
        ELSE IF geo.x = bounds.x /\ geo.w = bounds.w THEN s
        ELSE constrainChildCells(
                 setGeometry(s, c, [geo EXCEPT !.x = IF geo.relative THEN @ ELSE bounds.x, !.w = bounds.w]),
                 v, c)

(* extendParent: the parent grows until the cell fits, which may extend    *)
(* and constrain further cells.                                            *)
RECURSIVE cellsResized(_, _, _, _)
GrowTo(s, v, p, right) ==
    IF s.doc.geometry[p].w >= right THEN s
    ELSE cellsResized(s, v, p, [s.doc.geometry[p] EXCEPT !.w = right])

extendParent(s, v, c) ==
    LET d == s.doc
        p == d.parent[c]
    IN  IF isEdge(c) \/ p = Null \/ d.geometry[c] = Null THEN s
        ELSE IF d.geometry[p] = Null \/ d.collapsed[p] \/ d.geometry[c].relative THEN s
        ELSE GrowTo(s, v, p, d.geometry[c].x + d.geometry[c].w)

cellsResized(s, v, c, bounds) == constrainChild(extendParent(cellResized(s, v, c, bounds), v, c), v, c)

-----------------------------------------------------------------------------
(* Connecting and adding cells *)

(* getEdgeValidationError is null: no loop, and both ends connectable.     *)
ValidEdge(d, source, target) ==
    \/ source = Null /\ target = Null
    \/ /\ source # target
       /\ \A t \in {source, target} \ {Null} : ~isEdge(t) /\ d.connectable[t]

resetEdge(s, e) ==
    IF s.doc.geometry[e] = Null THEN s
    ELSE IF s.doc.geometry[e].points = <<>> THEN s
    ELSE setGeometry(s, e, [s.doc.geometry[e] EXCEPT !.points = <<>>])

cellConnected(s, e, t, isSource) == resetEdge(setTerminal(s, e, t, isSource), e)

ViewOrigin(v, c) == IF HasState(v, c) THEN v.states[c].origin ELSE 0

(* cellsAdded: each cell is moved to the parent.  If "absolute" it keeps   *)
(* its place on the screen, as far as the view knows it.  A cell that was  *)
(* not cloned is Null and shifts the index of those behind it.             *)
KeepAbsolute(s, v, c, p) ==
    LET previous == s.doc.parent[c]
    IN  IF HasState(v, p) /\ c # p /\ p # previous /\ s.doc.geometry[c] # Null
        THEN setGeometry(s, c, Translate(s.doc.geometry[c], ViewOrigin(v, previous) - ViewOrigin(v, p)))
        ELSE s

(* The index decreases "if the cell was in the list already". *)
NextIndex(d, c, p, i, index) ==
    IF p = d.parent[c] /\ index + i - 1 > Len(d.children[p]) THEN index - 1 ELSE index

ConnectNew(s, c, terminal) ==
    Fold(LAMBDA u, isSource : IF terminal[isSource] = Null THEN u
                              ELSE cellConnected(u, c, terminal[isSource], isSource),
         s, <<TRUE, FALSE>>)

AddOne(s, v, c, p, index, o) ==
    LET Extended(u) == IF o.extend THEN extendParent(u, v, c) ELSE u
        Constrained(u) == IF o.constrain THEN constrainChild(u, v, c) ELSE u
    IN  ConnectNew(Constrained(Extended(add(s, p, c, index))), c, o.terminal)

AddAt(s, v, c, p, i, index, o) == [s |-> AddOne(s, v, c, p, index + i - 1, o), index |-> index]

AddNext(s, v, c, p, i, index, o) == AddAt(s, v, c, p, i, NextIndex(s.doc, c, p, i, index), o)

cellsAdded(s, v, cells, p, index, o) ==
    Fold(LAMBDA acc, i :
             IF cells[i] = Null THEN [acc EXCEPT !.index = @ - 1]
             ELSE AddNext(IF o.absolute THEN KeepAbsolute(acc.s, v, cells[i], p) ELSE acc.s,
                          v, cells[i], p, i, acc.index, o),
         [s |-> s, index |-> index], [i \in 1 .. Len(cells) |-> i]).s

(* The options of cellsAdded. *)
NoTerminal == [isSource \in BOOLEAN |-> Null]

AsIs == [terminal |-> NoTerminal, absolute |-> FALSE, constrain |-> FALSE, extend |-> FALSE]

Fitted == [AsIs EXCEPT !.constrain = TRUE, !.extend = TRUE]

InPlace == [Fitted EXCEPT !.absolute = TRUE]

Between(source, target) == [Fitted EXCEPT !.terminal = [isSource \in BOOLEAN |-> IF isSource THEN source ELSE target]]

AddLast(s, v, cells, p, o) == cellsAdded(s, v, cells, p, Len(s.doc.children[p]), o)

createVertex(s, c, id, x, w) ==
    [s EXCEPT !.doc.born = @ \cup {c}, !.doc.id[c] = id, !.doc.geometry[c] = Geometry(x, w)]

createEdge(s, e) == [s EXCEPT !.doc.born = @ \cup {e}, !.doc.geometry[e] = EdgeGeometry]

insertVertexCell(s, v, p, id, x, w) ==
    LET c == NewCell(s.doc, Vertex)
    IN  AddLast(createVertex(s, c, id, x, w), v, <<c>>, p, Fitted)

insertEdgeCell(s, v, p, source, target) ==
    LET e == NewCell(s.doc, Edge)
    IN  AddLast(createEdge(s, e), v, <<e>>, p, Between(source, target))

connectCell(s, e, t, isSource) == cellConnected(s, e, t, isSource)

-----------------------------------------------------------------------------
(* Removing cells *)

RECURSIVE getAllEdges(_, _)
getAllEdges(d, s) ==
    Fold(LAMBDA acc, c : acc \o d.edges[c] \o getAllEdges(d, d.children[c]), <<>>, s)

removeDuplicates(s) ==
    Fold(LAMBDA acc, c : IF Contains(acc, c) THEN acc ELSE Append(acc, c), <<>>, s)

addAllEdges(d, s) == removeDuplicates(s \o getAllEdges(d, s))

(* disconnectTerminal: an end of an edge that stays gets the point where   *)
(* it is shown, or the centre of the terminal when the edge is not shown.  *)
disconnectTerminal_Bug(s, v, c, e, isSource) ==
    IF s.doc.geometry[e] = Null \/ ~isAncestor(s.doc, c, s.doc.terminal[e][isSource]) THEN s
    ELSE setGeometry(s, e, s.doc.geometry[e])

disconnectTerminal(s, v, c, e, isSource) ==
    LET geo == s.doc.geometry[e]
        t   == s.doc.terminal[e][isSource]
        Point(pts) == IF pts # <<>> THEN (IF isSource THEN Head(pts) ELSE Last(pts)) - v.states[e].origin
                      ELSE IF HasState(v, t) THEN v.states[t].origin + v.states[t].width \div 2
                      ELSE geo.ends[isSource]
        New == [geo EXCEPT !.ends[isSource] = Point(IF HasState(v, e) THEN v.states[e].points ELSE <<>>)]
    IN  IF geo = Null \/ ~isAncestor(s.doc, c, t) THEN s
        ELSE setTerminal(setGeometry(s, e, New), e, Null, isSource)

DisconnectEdge(s, v, c, e) ==
    Fold(LAMBDA u, isSource : disconnectTerminal(u, v, c, e, isSource), s, <<TRUE, FALSE>>)

(* Each edge that is not removed is disconnected once. *)
DisconnectOnce(acc, v, c, e) ==
    IF e \in acc.done THEN acc
    ELSE [s |-> DisconnectEdge(acc.s, v, c, e), done |-> acc.done \cup {e}]

DisconnectAll(acc, v, c) ==
    Fold(LAMBDA b, e : DisconnectOnce(b, v, c, e), acc, getAllEdges(acc.s.doc, <<c>>))

cellsRemoved(s, v, cells) ==
    Fold(LAMBDA acc, c : [DisconnectAll(acc, v, c) EXCEPT !.s = removeCell(@, c)],
         [s |-> s, done |-> ToSet(cells)], cells).s

(* removeCells: with the edges, or with those edges only that have no      *)
(* state, "as those cannot be updated".                                    *)
removeCells(s, v, cells, includeEdges) ==
    cellsRemoved(s, v, IF includeEdges THEN addAllEdges(s.doc, cells)
                       ELSE removeDuplicates(cells \o SelectSeq(getAllEdges(s.doc, cells),
                                                                LAMBDA e : ~HasState(v, e))))
-----------------------------------------------------------------------------
(* Moving and cloning cells *)

(* The given cell or one of its ancestors is among the cells. *)
InCells(d, cells, c) == \E k \in ToSet(cells) : isAncestor(d, k, c)

(* disconnectGraph: an edge that is moved without its terminals is         *)
(* disconnected from them.                                                 *)
MovedAlone(d, cells, e, isSource) ==
    d.terminal[e][isSource] # Null /\ ~InCells(d, cells, d.terminal[e][isSource])

ShownEnd(v, e, isSource) == IF isSource THEN Head(v.states[e].points) ELSE Last(v.states[e].points)

FreeEnd(acc, v, cells, e, isSource, dx) ==
    IF ~MovedAlone(acc.s.doc, cells, e, isSource) THEN acc
    ELSE [s   |-> setTerminal(acc.s, e, Null, isSource),
          geo |-> [acc.geo EXCEPT !.ends[isSource] = ShownEnd(v, e, isSource) + dx]]

FreeEnds(s, v, cells, e, dx) ==
    Fold(LAMBDA acc, isSource : FreeEnd(acc, v, cells, e, isSource, dx),
         [s |-> s, geo |-> s.doc.geometry[e]], <<TRUE, FALSE>>)

SetFreed(acc, e) == setGeometry(acc.s, e, acc.geo)

disconnectGraph(s, v, cells) ==
    Fold(LAMBDA u, e : IF \/ ~isEdge(e) \/ u.doc.geometry[e] = Null
                          \/ ~HasState(v, e) \/ ~HasState(v, u.doc.parent[e])
                       THEN u
                       ELSE SetFreed(FreeEnds(u, v, cells, e, -v.states[u.doc.parent[e]].origin), e),
         s, cells)

translateCell(s, c, dx) ==
    IF s.doc.geometry[c] = Null THEN s ELSE setGeometry(s, c, Translate(s.doc.geometry[c], dx))

cellsMoved(s, v, cells, dx, disconnect, constrain) ==
    IF dx = 0 THEN s
    ELSE Fold(LAMBDA u, c : IF c = Null THEN u
                            ELSE IF constrain THEN constrainChild(translateCell(u, c, dx), v, c)
                            ELSE translateCell(u, c, dx),
              IF disconnect THEN disconnectGraph(s, v, cells) ELSE s, cells)

(* What cloneCells makes of the geometry of a cloned cell: it is placed on *)
(* the screen where the cell is shown.                                     *)
CloneGeometry(d, v, cells, c, g) ==
    LET pts == v.states[c].points
        dx  == v.states[d.parent[c]].origin
        End(isSource) == IF InCells(d, cells, d.terminal[c][isSource]) THEN g.ends[isSource]
                         ELSE IF isSource THEN Head(pts) ELSE Last(pts)
    IN  IF g = Null \/ ~HasState(v, c) \/ ~HasState(v, d.parent[c]) THEN g
        ELSE IF ~isEdge(c) THEN Translate(g, dx)
        ELSE IF pts = <<>> THEN g
        ELSE [g EXCEPT !.ends = [isSource \in BOOLEAN |-> End(isSource)],
                       !.points = [i \in DOMAIN @ |-> @[i] + dx]]

(* mxGraph.cloneCells: the document with the clones, and the clones in the *)
(* order of the cells, Null where the clone of an edge is invalid.         *)
ValidClone(m, c) == ValidEdge(m.doc, m.doc.terminal[m.mapping[c]][TRUE], m.doc.terminal[m.mapping[c]][FALSE])

PlacedClones(d, v, cells, m, Valid) ==
    [doc    |-> Fold(LAMBDA e, c : IF c \notin Valid THEN e
                                   ELSE [e EXCEPT !.geometry[m.mapping[c]] = CloneGeometry(d, v, cells, c, @)],
                     m.doc, cells),
     clones |-> [i \in 1 .. Len(cells) |-> IF cells[i] \in Valid THEN m.mapping[cells[i]] ELSE Null]]

CheckedClones(d, v, cells, m, allowInvalidEdges) ==
    PlacedClones(d, v, cells, m, {c \in ToSet(cells) : allowInvalidEdges \/ ~isEdge(c) \/ ValidClone(m, c)})

cloneGraphCells(d, v, cells, allowInvalidEdges) ==
    CheckedClones(d, v, cells, cloneCells(d, cells), allowInvalidEdges)

(* moveCells: the topmost cells, or clones of them, are moved on the       *)
(* screen and into the target.                                             *)
AddTo(s, v, cells, target) == IF target = Null THEN s ELSE AddLast(s, v, cells, target, InPlace)

MoveInto(s, v, m, dx, clone, target) ==
    AddTo(cellsMoved([s EXCEPT !.doc = m.doc], v, m.clones, dx, ~clone, target = Null), v, m.clones, target)

moveCells(s, v, cells, dx, clone, target) ==
    LET top == getTopmostCells(s.doc, cells)
    IN  IF dx = 0 /\ ~clone /\ target = Null THEN s
        ELSE MoveInto(s, v, IF clone THEN cloneGraphCells(s.doc, v, top, FALSE) ELSE [doc |-> s.doc, clones |-> top],
                      dx, clone, IF clone /\ target = Null THEN getDefaultParent(s.doc, v) ELSE target)

-----------------------------------------------------------------------------
(* Groups *)

getCellsForGroup(d, s) == SelectSeq(s, LAMBDA c : d.parent[c] = d.parent[s[1]])

getBoundsForGroup(d, s) == getBoundingBoxFromGeometry(d, s, TRUE)

createGroupCell(s, c) ==
    [s EXCEPT !.doc.born = @ \cup {c}, !.doc.connectable[c] = FALSE]

(* groupCells: a new cell takes those of the cells that have the parent of *)
(* the first one.                                                          *)
FillGroup(s, v, group, cells, bounds) ==
    cellsResized(cellsMoved(cellsAdded(s, v, cells, group, 0, AsIs), v, cells, -bounds.x, FALSE, FALSE),
                 v, group, bounds)

AddGroup(s, v, group, cells, bounds) ==
    IF Len(cells) > 1 /\ bounds # Null
    THEN FillGroup(AddLast(setGeometry(createGroupCell(s, group), group, Geometry(0, 0)), v,
                           <<group>>, s.doc.parent[cells[1]], AsIs),
                   v, group, cells, bounds)
    ELSE s

GroupOf(s, v, cells) == AddGroup(s, v, NewCell(s.doc, Vertex), cells, getBoundsForGroup(s.doc, cells))

groupCells(s, v, cells) == GroupOf(s, v, getCellsForGroup(s.doc, cells))

removeCellsAfterUngroup(s, v, cells) == cellsRemoved(s, v, addAllEdges(s.doc, cells))

UngroupCell(s, v, c) ==
    IF s.doc.children[c] = <<>> THEN s ELSE AddLast(s, v, s.doc.children[c], s.doc.parent[c], InPlace)

ungroupCells(s, v, cells) ==
    IF cells = <<>> THEN s
    ELSE removeCellsAfterUngroup(Fold(LAMBDA u, c : UngroupCell(u, v, c), s, cells), v, cells)

removeCellsFromParent(s, v, cells) == AddLast(s, v, cells, getDefaultParent(s.doc, v), InPlace)

(* updateGroupBounds without borders: each group shrinks to its children,  *)
(* which are moved to its origin.                                          *)
ShrinkGroup(s, v, c, children, bounds, moveGroup) ==
    IF bounds = Null THEN s
    ELSE IF bounds.w <= 0 THEN s
    ELSE moveCells(setGeometry(s, c, [s.doc.geometry[c] EXCEPT !.x = IF moveGroup THEN @ + bounds.x ELSE @,
                                                               !.w = bounds.w]),
                   v, children, -bounds.x, FALSE, Null)

ShrinkAround(s, v, c, children, moveGroup) ==
    IF s.doc.geometry[c] = Null \/ children = <<>> THEN s
    ELSE ShrinkGroup(s, v, c, children, getBoundingBoxFromGeometry(s.doc, children, TRUE), moveGroup)

updateGroupBounds(s, v, cells, moveGroup) ==
    Fold(LAMBDA u, c : ShrinkAround(u, v, c, SelectSeq(u.doc.children[c], LAMBDA k : u.doc.visible[k]), moveGroup),
         s, Reverse(cells))

-----------------------------------------------------------------------------
(* Folding, hiding, ordering, splitting *)

(* swapBounds with updateAlternateBounds and mxGeometry.swap. *)
swapBounds(s, c) ==
    LET geo == s.doc.geometry[c]
        alt == IF geo.alt # Null THEN geo.alt ELSE IF isEdge(c) THEN geo.w ELSE PreferredWidth
    IN  IF geo = Null THEN s ELSE setGeometry(s, c, [geo EXCEPT !.w = alt, !.alt = geo.w])

RECURSIVE cellsFolded(_, _, _, _, _)
FoldBelow(s, v, c, collapse, recurse) ==
    IF recurse THEN cellsFolded(s, v, s.doc.children[c], collapse, TRUE) ELSE s

FoldOne(s, v, c, collapse, recurse) ==
    IF collapse = s.doc.collapsed[c] THEN s
    ELSE constrainChild(FoldBelow(extendParent(swapBounds(setCollapsed(s, c, collapse), c), v, c),
                                  v, c, collapse, recurse),
                        v, c)

cellsFolded(s, v, cells, collapse, recurse) ==
    Fold(LAMBDA u, c : FoldOne(u, v, c, collapse, recurse), s, cells)

isCellFoldable(d, c) == d.children[c] # <<>>

foldCells(s, v, cells, collapse, recurse) == cellsFolded(s, v, cells, collapse, recurse)

cellsToggled(s, cells, show) == Fold(LAMBDA u, c : setVisible(u, c, show), s, cells)

toggleCells(s, cells, show, includeEdges) ==
    cellsToggled(s, IF includeEdges THEN addAllEdges(s.doc, cells) ELSE cells, show)

(* cellsOrdered: each cell goes to the front, or the i-th cell to index i. *)
cellsOrdered(s, cells, back) ==
    Fold(LAMBDA u, i : LET p == u.doc.parent[cells[i]]
                           IN  add(u, p, cells[i], IF back THEN i - 1 ELSE Len(u.doc.children[p]) - 1),
             s, [i \in 1 .. Len(cells) |-> i])

(* findNearestSegment: the first of the segments closest to x. *)
findNearestSegment(pts, x) ==
    LET Dist(i) == LET lo == IF pts[i] < pts[i + 1] THEN pts[i] ELSE pts[i + 1]
                       hi == IF pts[i] < pts[i + 1] THEN pts[i + 1] ELSE pts[i]
                   IN  IF x < lo THEN lo - x ELSE IF x > hi THEN x - hi ELSE 0
        S == 1 .. Len(pts) - 1
    IN  (CHOOSE i \in S : /\ \A j \in S : Dist(i) <= Dist(j)
                          /\ \A j \in S : Dist(j) = Dist(i) => i <= j) - 1

isSplitTarget(d, e, c) ==
    LET source == d.terminal[e][TRUE]
        target == d.terminal[e][FALSE]
    IN  /\ isEdge(e) /\ d.connectable[c]
        /\ (source = Null /\ target = Null) \/ ValidEdge(d, source, c)
        /\ ~isAncestor(d, c, source) /\ ~isAncestor(d, c, target)

(* splitEdge: a cell is dropped onto an edge, and a clone of the edge      *)
(* leads from the source to the cell.  The way points are divided at the   *)
(* segment the cell is dropped on.                                         *)
DividePoints(s, d, e, new, idx) ==
    setGeometry([s EXCEPT !.doc = [d EXCEPT !.geometry[new].points = SubSeq(@, 1, idx)]],
                e, [s.doc.geometry[e] EXCEPT !.points = SubSeq(@, idx + 1, Len(@))])

SplitPoints(s, v, d, e, new, dx) ==
    IF d.geometry[new] # Null /\ d.geometry[new].points # <<>> /\ HasState(v, e)
    THEN DividePoints(s, d, e, new, findNearestSegment(v.states[e].points, dx))
    ELSE [s EXCEPT !.doc = d]

DropOn(s, v, c, p, dx) == AddLast(cellsMoved(s, v, <<c>>, dx, FALSE, FALSE), v, <<c>>, p, InPlace)

InsertClone(s, v, m, e, c, dx) ==
    AddLast(DropOn(SplitPoints(s, v, m.doc, e, m.clones[1], dx), v, c, s.doc.parent[e], dx),
            v, m.clones, s.doc.parent[e], Between(s.doc.terminal[e][TRUE], c))

splitEdge(s, v, e, c, dx) ==
    cellConnected(InsertClone(s, v, cloneGraphCells(s.doc, v, <<e>>, TRUE), e, c, dx), e, c, TRUE)
=============================================================================
