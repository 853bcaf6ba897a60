----------------------------- MODULE GraphView -----------------------------
(***************************************************************************)
(* mxGraphView: the cache of cell states that the graph is painted from.   *)
(* A change of the document invalidates some states or removes them, and   *)
(* validate brings the cache up to date.  The view shows the cells below   *)
(* currentRoot, which is Null for the whole document.                      *)
(*                                                                         *)
(* A state holds what was computed when it was last validated: its origin, *)
(* width, style and label, and for an edge its visible terminals and its   *)
(* absolute points.  Scale and translation are 1 and 0.                    *)
(***************************************************************************)
EXTENDS GraphModel

NoState == [c \in Cell |-> Null]

(* createState: a new state is invalid. *)
NewState(d, c) ==
    [invalid |-> TRUE, invalidStyle |-> FALSE, style |-> d.style[c], label |-> Null, origin |-> 0,
     width |-> 0, terminals |-> [isSource \in BOOLEAN |-> Null], points |-> <<>>]

ViewRoot(d, v) == IF v.currentRoot = Null THEN d.root ELSE v.currentRoot

HasState(v, c) == c # Null /\ v.states[c] # Null

removeState(v, c) == [v EXCEPT !.states[c] = Null]

(* The cells that invalidate reaches: their descendants if it recurses,    *)
(* and the edges connected to all of these.                                *)
RECURSIVE Reached(_, _, _, _)
Reached(d, S, recurse, includeEdges) ==
    LET T == S \cup (IF recurse THEN UNION {ToSet(d.children[c]) : c \in S} ELSE {})
               \cup (IF includeEdges THEN UNION {ToSet(d.edges[c]) : c \in S} ELSE {})
    IN  IF T = S THEN S ELSE Reached(d, T, recurse, includeEdges)

invalidate(d, v, c, recurse, includeEdges) ==
    LET Invalid(S) == [v EXCEPT !.states = [k \in Cell |-> IF k \in S /\ HasState(v, k)
                                                          THEN [@[k] EXCEPT !.invalid = TRUE] ELSE @[k]]]
    IN  Invalid(Reached(d, {c}, recurse, includeEdges))

(* clear: the states below a cell are removed; unless forced, those of the *)
(* descendants of the current root are kept and invalidated.               *)
RECURSIVE clear(_, _, _, _)
clear(d, v, c, force) ==
    LET u == removeState(v, c)
    IN  IF force \/ c # v.currentRoot
        THEN Fold(LAMBDA w, k : clear(d, w, k, force), u, d.children[c])
        ELSE invalidate(d, u, c, TRUE, TRUE)

(* validateCell: states are created for the visible cells and removed for  *)
(* the others.  Below a cell that had a state and is now invisible the     *)
(* walk stops.                                                             *)
RECURSIVE validateCell(_, _, _, _)
validateCell(d, v, c, visible) ==
    LET shown == visible /\ d.visible[c]
        below == shown /\ (~d.collapsed[c] \/ c = v.currentRoot)
        u     == IF shown /\ ~HasState(v, c) THEN [v EXCEPT !.states[c] = NewState(d, c)] ELSE v
    IN  IF ~shown /\ HasState(v, c) THEN removeState(v, c)
        ELSE Fold(LAMBDA w, k : validateCell(d, w, k, below), u, d.children[c])

(* getVisibleTerminal: the outermost collapsed ancestor of a terminal, or  *)
(* the ancestor above an invisible one.                                    *)
RECURSIVE BestTerminal(_, _, _, _)
BestTerminal(d, v, c, best) ==
    IF c = Null \/ c = v.currentRoot THEN best
    ELSE BestTerminal(d, v, d.parent[c], IF ~d.visible[best] \/ d.collapsed[c] THEN c ELSE best)

getVisibleTerminal(d, v, e, isSource) ==
    LET Valid(best) == IF best = Null \/ ~contains(d, best) \/ isLayer(d, best) \/ best = v.currentRoot
                       THEN Null ELSE best
    IN  Valid(BestTerminal(d, v, d.terminal[e][isSource], d.terminal[e][isSource]))

(* Where an edge that goes to "next" meets the perimeter of a terminal.    *)
PerimeterPoint(state, next) ==
    IF next <= state.origin THEN state.origin ELSE state.origin + state.width

(* The end points of an edge: the fixed point of an unconnected end, or    *)
(* the floating point on the perimeter that faces the next point.          *)
FixedPoint(v, geo, origin, terms, isSource) ==
    IF terms[isSource] = Null THEN geo.ends[isSource] + origin ELSE v.states[terms[isSource]].origin

EndPoint(v, geo, origin, terms, isSource, next) ==
    IF terms[isSource] = Null THEN FixedPoint(v, geo, origin, terms, isSource)
    ELSE PerimeterPoint(v.states[terms[isSource]], next)

WithEnds(v, geo, origin, terms, way) ==
    <<EndPoint(v, geo, origin, terms, TRUE,
               IF way = <<>> THEN FixedPoint(v, geo, origin, terms, FALSE) ELSE Head(way))>>
      \o way \o
    <<EndPoint(v, geo, origin, terms, FALSE,
               IF way = <<>> THEN FixedPoint(v, geo, origin, terms, TRUE) ELSE Last(way))>>

AbsolutePoints(v, geo, origin, terms) ==
    WithEnds(v, geo, origin, terms, [i \in DOMAIN geo.points |-> geo.points[i] + origin])

(* updateEdgeState: an edge that lacks a visible terminal or a terminal    *)
(* point loses its state.                                                  *)
updateEdgeState(d, v, c, terms) ==
    IF \E isSource \in BOOLEAN : /\ terms[isSource] = Null
                                 /\ \/ d.terminal[c][isSource] # Null
                                    \/ d.geometry[c].ends[isSource] = Null
    THEN clear(d, v, c, TRUE)
    ELSE [v EXCEPT !.states[c].points = AbsolutePoints(v, d.geometry[c], v.states[c].origin, terms)]

ParentOrigin(v, p) == IF HasState(v, p) /\ p # v.currentRoot THEN v.states[p].origin ELSE 0

updateCellState(d, v, c) ==
    LET geo == d.geometry[c]
    IN  IF c = v.currentRoot THEN [v EXCEPT !.states[c].origin = 0]
        ELSE IF geo = Null THEN [v EXCEPT !.states[c].origin = ParentOrigin(v, d.parent[c])]
        ELSE IF isEdge(c)
        THEN updateEdgeState(d, [v EXCEPT !.states[c].origin = ParentOrigin(v, d.parent[c]),
                                          !.states[c].width = geo.w],
                             c, v.states[c].terminals)
        ELSE [v EXCEPT !.states[c].origin = ParentOrigin(v, d.parent[c]) + geo.x,
                       !.states[c].width = geo.w]

(* validateCellState: an invalid state is computed after those of the      *)
(* parent and of the visible terminals.                                    *)
Validated(d, v, c) ==
    [v EXCEPT !.states[c].invalid = FALSE,
              !.states[c].style = IF v.states[c].invalidStyle THEN d.style[c] ELSE @,
              !.states[c].invalidStyle = FALSE]

Seen(v, c, t, isSource) ==
    [v EXCEPT !.states[c].terminals[isSource] = IF HasState(v, t) THEN t ELSE Null]

Labelled(d, v, c) ==
    IF HasState(v, c) /\ c # v.currentRoot THEN [v EXCEPT !.states[c].label = d.value[c]] ELSE v

RECURSIVE validateCellState(_, _, _, _)
AfterParent(d, v, c) == IF c = v.currentRoot THEN v ELSE validateCellState(d, v, d.parent[c], FALSE)

SeeTerminal(d, v, c, isSource, t) == Seen(validateCellState(d, v, t, FALSE), c, t, isSource)

AfterTerminals(d, v, c) ==
    Fold(LAMBDA w, isSource : SeeTerminal(d, w, c, isSource, getVisibleTerminal(d, w, c, isSource)),
         v, <<TRUE, FALSE>>)

ValidateChildren(d, v, c, recurse) ==
    IF recurse /\ HasState(v, c)
    THEN Fold(LAMBDA w, k : validateCellState(d, w, k, TRUE), v, d.children[c])
    ELSE v

validateCellState(d, v, c, recurse) ==
    IF ~HasState(v, c) THEN v
    ELSE ValidateChildren(d, IF ~v.states[c].invalid THEN v
                             ELSE Labelled(d, updateCellState(d, AfterTerminals(d,
                                      AfterParent(d, Validated(d, v, c), c), c), c), c),
                          c, recurse)

validate(d, v) ==
    validateCellState(d, validateCell(d, v, ViewRoot(d, v), TRUE), ViewRoot(d, v), TRUE)

(* refresh, up to its validate. *)
Refreshed(d, v) ==
    invalidate(d, IF v.currentRoot # Null THEN clear(d, v, d.root, FALSE) ELSE v, d.root, TRUE, TRUE)

(* What a view of the document that is built from nothing shows. *)
FreshView(d, root) == validate(d, [states |-> NoState, currentRoot |-> root])

-----------------------------------------------------------------------------
(* mxCurrentRootChange: the root of the view is exchanged; going up builds *)
(* the view anew, going down keeps what is below the new root.             *)

IsUp(d, v, root) == root = Null \/ (v.currentRoot # Null /\ isAncestor(d, root, v.currentRoot))

ShowRoot(d, v, isUp) == validate(d, IF isUp THEN clear(d, v, ViewRoot(d, v), TRUE) ELSE Refreshed(d, v))

ExecuteCurrentRoot(d, v, ch) ==
    [view   |-> ShowRoot(d, [v EXCEPT !.currentRoot = ch.previous], ch.isUp),
     change |-> [ch EXCEPT !.previous = v.currentRoot, !.isUp = ~@]]

setCurrentRoot(d, v, root) ==
    ExecuteCurrentRoot(d, v, [type |-> "currentRoot", previous |-> root, isUp |-> IsUp(d, v, root)])
=============================================================================
