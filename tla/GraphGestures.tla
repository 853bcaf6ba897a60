--------------------------- MODULE GraphGestures ---------------------------
(***************************************************************************)
(* The mouse listeners of a graph, called in turn for every event that     *)
(* mxGraph.fireMouseEvent (module MouseDispatch) lets through: tooltips,   *)
(* handles of the selected cells, connecting, moving, panning, the popup   *)
(* menu and the rubberband; then the click, and the editor of labels.  A   *)
(* listener that takes part in a gesture consumes the event, and most of   *)
(* the others then leave it alone.  Between the events of a gesture the    *)
(* document may change from elsewhere (a cell is removed), the Escape key  *)
(* may be pressed, and timers may fire.                                    *)
(*                                                                         *)
(* The whole page is one record, graph: the document (cells that are       *)
(* present, their parents, the ends of edges), the selection, and the      *)
(* state of each listener.  Every listener is a function from a record     *)
(* [g, me] of the page and the event to such a record, so that a handler   *)
(* of the library is one definition, and an event is their composition.    *)
(*                                                                         *)
(* Every cell is visible, movable, editable; the switches of the graph and *)
(* its handlers have their default values, except that connecting, panning,*)
(* tooltips, dropping into groups and the rubberband are enabled.          *)
(* Geometry: the pointer is within the tolerance of where it was pressed   *)
(* iff it is at the same position.                                         *)
(***************************************************************************)
EXTENDS Naturals, FiniteSets

CONSTANTS Vertex, Edge, Null, Layer,
          Copy,       \* the vertex that copies made while dragging stand for
          Home,       \* the parents of the vertices at first
          Ends,       \* the ends of the edges that are there at first
          Selections, \* what may be selected at first
          Editable,   \* the cells whose labels may be edited
          Tipped,     \* the cells that have a tooltip
          MaxGestures, \* bound: presses of a button
          MaxRemoved  \* bound: removals from elsewhere

Cell == Vertex \cup Edge

VARIABLE graph

Idle == [cell |-> Null, first |-> Null, cells |-> {}, delayed |-> FALSE, shape |-> FALSE, target |-> Null, clicked |-> FALSE]
NoConnection == [previous |-> Null, first |-> Null, shape |-> FALSE, error |-> FALSE]
NotPanning == [trigger |-> FALSE, active |-> FALSE, down |-> FALSE]

GestureInit == \E cells \in Selections, edited \in Editable \cup {Null} :
    graph = [down |-> FALSE,
             present |-> DOMAIN Home \cup DOMAIN Ends, parent |-> [c \in Cell |-> IF c \in DOMAIN Home THEN Home[c] ELSE Layer],
             ends |-> [e \in Edge |-> IF e \in DOMAIN Ends THEN Ends[e] ELSE [source |-> Null, target |-> Null]],
             selected |-> cells, grip |-> [c \in Cell |-> Null],
             mover |-> Idle, refresh |-> FALSE, connector |-> NoConnection, currentState |-> Null,
             pan |-> NotPanning, rubber |-> [first |-> Null, div |-> FALSE],
             menu |-> [trigger |-> FALSE, inTolerance |-> FALSE, showing |-> FALSE],
             tip |-> [thread |-> Null, shown |-> Null],
             editor |-> [cell |-> edited, typed |-> FALSE],
             press |-> [right |-> FALSE, touch |-> FALSE], pressed |-> FALSE, hold |-> FALSE,
             edits |-> {}, aborted |-> FALSE, presses |-> 0, removed |-> 0]

-----------------------------------------------------------------------------
(* The document and the selection. *)

Children(g, c) == {d \in g.present : g.parent[d] = c}

isAncestor(g, a, c) == a = c \/ (c \in Cell /\ (g.parent[c] = a \/ (g.parent[c] \in Cell /\ g.parent[g.parent[c]] = a)))

(* mxSelectionCellsHandler.refresh: a handler for each selected cell that  *)
(* has a state; what is no longer selected loses its handler, together     *)
(* with the gesture that it was in.                                        *)
refreshHandlers(g) == [g EXCEPT !.grip = [c \in Cell |-> IF c \in g.selected \cap g.present THEN @[c] ELSE Null]]

setSelection(g, cells) == refreshHandlers([g EXCEPT !.selected = cells])

isHandled(g, c) == c \in g.selected \cap g.present

(* mxGraph.selectCellForEvent: toggle with Control. *)
selectCellForEvent(g, c, ctrl) ==
    IF ctrl THEN setSelection(g, IF c \in g.selected THEN g.selected \ {c} ELSE g.selected \cup {c})
    ELSE IF g.selected # {c} THEN setSelection(g, {c}) ELSE g

ResetConnection(g) == [g EXCEPT !.connector = NoConnection]

SourceIsGone_Bug(g) == FALSE

(* The listeners of a change of the document, in their order: the          *)
(* selection and its handlers, the connection whose source is gone, the    *)
(* timer of the moved cells, the highlight of an end that is dragged, and  *)
(* the editor of a cell that is gone.                                      *)
SourceIsGone(g) == g.connector.previous \notin g.present \cup {Null}

AfterChange(g) ==
    LET s == [g EXCEPT !.selected = @ \cap g.present]
        h == refreshHandlers(s)
        c == IF SourceIsGone(h) THEN ResetConnection(h) ELSE h
        k == [c EXCEPT !.grip = [x \in Cell |-> IF @[x] = Null THEN Null
                                                ELSE [@[x] EXCEPT !.highlight = @ /\ c.grip[x].valid \in c.present]]]
    IN  [k EXCEPT !.refresh = TRUE,
                  !.editor = IF @.cell \notin g.present THEN [cell |-> Null, typed |-> FALSE] ELSE @]

Edited(g, by) == [AfterChange(g) EXCEPT !.edits = @ \cup {by}]

(* Removing a cell removes what is in it and the edges that end there. *)
Doomed(g, c) ==
    LET inside == {d \in g.present : isAncestor(g, c, d)}
    IN  inside \cup {e \in Edge \cap g.present : {g.ends[e].source, g.ends[e].target} \cap inside # {}}

-----------------------------------------------------------------------------
(* Events. *)

Hit(g, me) == [g |-> g, me |-> me]
Consumed(r) == [r EXCEPT !.me.consumed = TRUE]

-----------------------------------------------------------------------------
(* mxTooltipHandler. *)

RestartTip(r, restart) ==
    IF r.me.touch THEN r
    ELSE [r EXCEPT !.g.tip.thread = IF restart /\ r.g.tip.shown = Null /\ r.me.cell \in Tipped THEN r.me.cell ELSE Null]

TipDown(r) == [RestartTip(r, FALSE) EXCEPT !.g.tip.shown = Null]

TipMove(r) == [RestartTip(r, TRUE) EXCEPT !.g.tip.shown = IF @ = r.me.cell THEN @ ELSE Null]

TipUp(r) == [RestartTip(r, TRUE) EXCEPT !.g.tip.shown = Null]

(* The timer of the tooltip. *)
ShowTip(g) ==
    [g EXCEPT !.tip = [thread |-> Null,
                       shown |-> IF g.editor.cell = Null /\ ~g.menu.showing /\ ~g.down THEN @.thread ELSE @.shown]]

HideTip(g) == [g EXCEPT !.tip.thread = Null, !.tip.shown = Null]

-----------------------------------------------------------------------------
(* The handlers of the selected cells: mxVertexHandler and mxEdgeHandler.  *)
(* Handles of a vertex resize it or move its label; those of an edge are   *)
(* its ends, a bend and its label.                                         *)

Grip(me) == [handle |-> me.handle, x |-> me.x, inTolerance |-> TRUE, valid |-> Null, highlight |-> FALSE, error |-> FALSE,
             active |-> FALSE]

HandlerDown(r) ==
    IF r.me.handle # Null /\ isHandled(r.g, r.me.cell) /\ ~r.me.consumed
    THEN Consumed([r EXCEPT !.g.grip[r.me.cell] = Grip(r.me)])
    ELSE r

(* mxEdgeHandler.marker: a vertex other than the opposite end is valid. *)
EndMoved(g, e, me) ==
    LET other == IF g.grip[e].handle = "source" THEN g.ends[e].target ELSE g.ends[e].source
        over == IF me.cell \in Vertex THEN me.cell ELSE Null
        valid == IF over = other THEN Null ELSE over
    IN  [g.grip[e] EXCEPT !.valid = valid, !.highlight = over # Null, !.error = over # Null /\ over = other, !.active = TRUE]

VertexMove(r, v) ==
    LET inTolerance == r.g.grip[v].inTolerance /\ r.me.touch /\ r.me.x = r.g.grip[v].x
    IN  Consumed([r EXCEPT !.g.grip[v] = [@ EXCEPT !.inTolerance = inTolerance, !.active = @ \/ ~inTolerance]])

EdgeMove(r, e) ==
    Consumed([r EXCEPT !.g.grip[e] = CASE @.handle = "label" -> [@ EXCEPT !.error = FALSE]
                                       [] @.handle = "bend" -> [@ EXCEPT !.error = FALSE, !.active = TRUE]
                                       [] OTHER -> EndMoved(r.g, e, r.me)])

Gripped(g) == {c \in Cell : g.grip[c] # Null}

HandlerMove(r) ==
    IF Gripped(r.g) # {}
    THEN LET c == CHOOSE x \in Gripped(r.g) : TRUE
         IN  IF c \in Edge THEN EdgeMove(r, c) ELSE IF r.me.consumed THEN r ELSE VertexMove(r, c)
    ELSE IF ~r.g.down /\ r.me.handle # Null /\ r.me.cell \in Vertex /\ isHandled(r.g, r.me.cell) /\ ~r.me.consumed
    THEN Consumed(r) ELSE r

VertexUp(g, v) ==
    LET k == g.grip[v]
        free == [g EXCEPT !.grip[v] = Null]
    IN  IF k.handle = "label" \/ k.active THEN Edited(free, "handle") ELSE free

(* A connected or loose end; a copy of the edge takes the place of the     *)
(* edge with Control.                                                      *)
Spare(g) == Edge \ g.present

WithEnd(g, e, copy, end, terminal) ==
    LET ends == IF end = "source" THEN [g.ends[e] EXCEPT !.source = terminal] ELSE [g.ends[e] EXCEPT !.target = terminal]
    IN  [g EXCEPT !.ends[copy] = ends, !.present = @ \cup {copy}, !.parent[copy] = g.parent[e]]

EdgeUp(g, e, me) ==
    LET k == g.grip[e]
        free == [g EXCEPT !.grip[e] = Null]
        copy == IF me.ctrl THEN CHOOSE n \in Spare(g) : TRUE ELSE e
        terminal == IF k.highlight THEN k.valid ELSE Null
        changed == IF k.handle \in {"source", "target"} THEN WithEnd(free, e, copy, k.handle, terminal)
                   ELSE [free EXCEPT !.ends[copy] = g.ends[e], !.present = @ \cup {copy}, !.parent[copy] = g.parent[e]]
    IN  IF me.x = k.x THEN IF me.ctrl THEN selectCellForEvent(free, e, TRUE) ELSE free
        ELSE IF k.error THEN free
        ELSE IF k.handle = "label" THEN Edited(free, "handle")
        ELSE IF k.handle = "bend" /\ ~k.active THEN free
        ELSE IF copy = e THEN Edited(changed, "handle") ELSE setSelection(Edited(changed, "handle"), {copy})

HandlerUp(r) ==
    IF Gripped(r.g) = {} THEN r
    ELSE LET c == CHOOSE x \in Gripped(r.g) : TRUE
         IN  Consumed([r EXCEPT !.g = IF c \in Edge THEN EdgeUp(@, c, r.me) ELSE VertexUp(@, c)])

-----------------------------------------------------------------------------
(* mxConnectionHandler: hovering over the hot spot of a vertex makes it    *)
(* the source (previous) of a connection that a press then starts.         *)

isConnecting(g) == g.connector.first # Null /\ g.connector.shape

(* The marker: what the pointer is over, if it may be an end; a loop and   *)
(* an edge as the target are errors.                                       *)
updateCurrentState(g, me) ==
    IF isConnecting(g)
    THEN LET wrong == me.cell \in Edge \/ (me.cell # Null /\ me.cell = g.connector.previous)
         IN  [g EXCEPT !.currentState = IF wrong THEN Null ELSE me.cell, !.connector.error = wrong]
    ELSE [g EXCEPT !.currentState = IF me.cell \in Vertex /\ me.hot THEN me.cell ELSE Null, !.connector.error = FALSE]

Hover(r) ==
    LET c == r.g.currentState
    IN  IF r.g.connector.previous # c
        THEN LET s == [r EXCEPT !.g.connector.previous = c] IN IF c # Null THEN Consumed(s) ELSE s
        ELSE IF c # Null /\ ~r.g.down THEN Consumed(r) ELSE r

DragConnection(r) ==
    LET beyond == r.me.x # r.g.connector.first
        shaped == [r.g EXCEPT !.connector.shape = @ \/ beyond]
    IN  Consumed([r EXCEPT !.g = IF beyond \/ r.g.connector.shape THEN updateCurrentState(shaped, r.me) ELSE shaped])

ConnectionMove(r) ==
    IF r.me.consumed \/ (r.g.connector.first = Null /\ r.g.down) THEN r
    ELSE IF r.g.connector.first # Null THEN DragConnection([r EXCEPT !.g.connector.error = FALSE])
    ELSE Hover([r EXCEPT !.g = updateCurrentState(@, r.me)])

ConnectionDown(r) ==
    IF ~r.me.consumed /\ ~isConnecting(r.g) /\ r.g.connector.previous # Null /\ ~r.g.connector.error
    THEN Consumed([r EXCEPT !.g.connector.first = r.me.x]) ELSE r

(* mxConnectionHandler.connect: the new edge is selected. *)
connect(g, source, target) ==
    LET edge == CHOOSE n \in Spare(g) : TRUE
        inserted == [g EXCEPT !.present = @ \cup {edge}, !.ends[edge] = [source |-> source, target |-> target],
                              !.parent[edge] = IF source # Null /\ target # Null /\ g.parent[source] = g.parent[target]
                                                  /\ g.parent[source] \in Vertex
                                               THEN g.parent[source] ELSE Layer]
    IN  setSelection(Edited(inserted, "connect"), {edge})

ConnectionUp(r) ==
    LET c == r.g.connector
        connected == IF c.error \/ (c.previous # Null /\ c.previous = r.g.currentState) THEN r.g
                     ELSE connect(r.g, c.previous, r.g.currentState)
        s == IF ~r.me.consumed /\ isConnecting(r.g) THEN Consumed([r EXCEPT !.g = connected]) ELSE r
    IN  IF c.first # Null THEN [s EXCEPT !.g = ResetConnection(@)] ELSE s

-----------------------------------------------------------------------------
(* mxGraphHandler: selecting and moving cells. *)

SiblingSelected(g, c) == \E d \in g.selected \ {c} : g.parent[d] = g.parent[c]

(* The outermost group around a cell that is pressed, unless it or one of  *)
(* its siblings is selected.                                               *)
RECURSIVE Outermost(_, _)
Outermost(g, c) ==
    LET p == g.parent[c]
    IN  IF p \in Vertex /\ p \notin g.selected /\ ~SiblingSelected(g, c) THEN Outermost(g, p) ELSE c

getInitialCellForEvent(g, me) ==
    IF ~(me.ctrl /\ me.alt) /\ me.cell \notin g.selected THEN Outermost(g, me.cell) ELSE me.cell

RECURSIVE HandledAncestor(_, _)
HandledAncestor(g, c) == IF c \notin Cell THEN Null ELSE IF isHandled(g, c) THEN c ELSE HandledAncestor(g, g.parent[c])

isDelayedSelection(g, c, me) ==
    LET handled == HandledAncestor(g, c)
    IN  IF ~(me.ctrl /\ me.alt) /\ handled # Null THEN g.editor.cell # handled ELSE me.ctrl /\ ~me.alt

MoverDown(r) ==
    IF r.me.consumed \/ r.me.cell = Null \/ r.me.multi THEN r
    ELSE LET c == getInitialCellForEvent(r.g, r.me)
             delayed == isDelayedSelection(r.g, c, r.me)
             chosen == IF delayed THEN r.g ELSE selectCellForEvent(r.g, c, r.me.ctrl)
             drag == [cell |-> c, first |-> r.me.x, cells |-> IF delayed THEN chosen.selected ELSE {c}, delayed |-> delayed,
                      shape |-> FALSE, target |-> Null, clicked |-> TRUE]
         IN  Consumed([r EXCEPT !.g = [chosen EXCEPT !.mover = drag]])

(* mxGraph.getDropTarget: the innermost group under the pointer, unless    *)
(* the moved cells contain it.                                             *)
RECURSIVE GroupAt(_, _)
GroupAt(g, c) ==
    IF c \notin Cell THEN Null ELSE IF c \in Vertex /\ Children(g, c) # {} THEN c ELSE GroupAt(g, g.parent[c])

getDropTarget(g, me) ==
    LET group == GroupAt(g, me.cell)
        within == \E c \in g.mover.cells : group # Null /\ isAncestor(g, c, group)
    IN  IF group = Null \/ (within /\ ~me.ctrl) THEN Null
        ELSE IF me.ctrl \/ g.parent[g.mover.cell] # group THEN group ELSE Null

MoverMove_Bug(r) ==
    IF ~r.g.down \/ r.g.mover.first = Null THEN r
    ELSE IF r.me.multi THEN [r EXCEPT !.g.mover = Idle]
    ELSE IF r.g.mover.shape \/ r.me.x # r.g.mover.first
    THEN Consumed([r EXCEPT !.g.mover.shape = TRUE, !.g.mover.target = getDropTarget(r.g, r.me)])
    ELSE Consumed(r)

MoverMove(r) ==
    IF r.me.consumed \/ ~r.g.down \/ r.g.mover.first = Null THEN r
    ELSE IF r.me.multi THEN [r EXCEPT !.g.mover = Idle]
    ELSE IF r.g.mover.shape \/ r.me.x # r.g.mover.first
    THEN Consumed([r EXCEPT !.g.mover.shape = TRUE, !.g.mover.target = getDropTarget(r.g, r.me)])
    ELSE Consumed(r)

(* mxGraph.moveCells: moved edges let go of the ends that do not move; a   *)
(* cell that goes to a group is added there, a copy to the layer if there  *)
(* is no group.                                                            *)
Carried(g, t) == \E c \in g.mover.cells : isAncestor(g, c, t)

LetGo(g, e) ==
    IF e \notin g.mover.cells THEN g.ends[e]
    ELSE [source |-> IF Carried(g, g.ends[e].source) THEN g.ends[e].source ELSE Null,
          target |-> IF Carried(g, g.ends[e].target) THEN g.ends[e].target ELSE Null]

MovedTo(g, target) ==
    LET top == {c \in g.mover.cells : \A d \in g.mover.cells \ {c} : ~isAncestor(g, d, c)}
        loose == [g EXCEPT !.ends = [e \in Edge |-> LetGo(g, e)]]
        moved == {d \in Cell : \E c \in top : isAncestor(g, c, d)}
    IN  IF target = Null THEN loose
        ELSE [loose EXCEPT !.parent = [c \in Cell |-> IF c \in top \ {target} THEN target ELSE @[c]],
                           !.present = IF target \in @ \cup {Layer} THEN @ \cup moved ELSE @ \ moved]

moveCells(g, me) ==
    LET home == g.parent[g.mover.cell]
        leaves == home \in Vertex \cap g.present /\ ~isAncestor(g, home, me.cell)
        target == IF g.mover.target = Null /\ leaves THEN Layer ELSE g.mover.target
        copied == [g EXCEPT !.present = IF target \in @ \cup {Layer, Null} THEN @ \cup {Copy} ELSE @, !.parent[Copy] = IF target = Null THEN Layer ELSE target]
    IN  IF me.ctrl THEN setSelection(Edited(copied, "move"), {Copy}) ELSE Edited(MovedTo(g, target), "move")

(* A press on what was selected selects on release: the group around the   *)
(* cell first, then the cell.                                              *)
RECURSIVE Propagated(_, _, _)
Propagated(g, c, me) ==
    LET p == g.parent[c]
        up == IF me.ctrl THEN p \in g.selected \/ (~SiblingSelected(g, c) /\ c \notin g.selected) ELSE p \notin g.selected
    IN  IF p \in Vertex \cap g.present /\ up THEN Propagated(g, p, me) ELSE c

selectDelayed(g, me) ==
    LET c == IF me.cell = Null THEN g.mover.cell ELSE me.cell
    IN  IF g.press.right \/ c \notin g.present THEN g
        ELSE selectCellForEvent(g, IF me.ctrl /\ me.alt THEN c ELSE Propagated(g, c, me), me.ctrl)

MoverUp_Bug(r) ==
    LET m == r.g.mover
        acted == IF m.first = Null THEN r.g
                 ELSE IF m.shape THEN moveCells(r.g, r.me)
                 ELSE IF m.delayed THEN selectDelayed(r.g, r.me) ELSE r.g
    IN  IF r.me.consumed THEN r ELSE Consumed([r EXCEPT !.g = [acted EXCEPT !.mover = Idle]])

MoverUp_Bug2(r) ==
    LET m == r.g.mover
        acted == IF r.me.consumed \/ m.first = Null THEN r.g
                 ELSE IF m.shape THEN moveCells(r.g, r.me)
                 ELSE IF m.delayed THEN selectDelayed(r.g, r.me) ELSE r.g
    IN  [r EXCEPT !.g = [acted EXCEPT !.mover = Idle]]

MoverUp(r) ==
    LET m == r.g.mover
        acted == IF r.me.consumed \/ m.first = Null THEN r.g
                 ELSE IF m.shape THEN moveCells(r.g, r.me)
                 ELSE IF m.delayed THEN selectDelayed(r.g, r.me) ELSE r.g
        s == [r EXCEPT !.g = [acted EXCEPT !.mover = Idle]]
    IN  IF m.clicked THEN Consumed(s) ELSE s

(* The timer that a change of the document starts. *)
MoverRefresh(g) ==
    [g EXCEPT !.refresh = FALSE, !.mover = IF @.first # Null /\ @.cells \cap g.present = {} THEN Idle ELSE @]

-----------------------------------------------------------------------------
(* mxPanningHandler, mxPopupMenuHandler and mxRubberband. *)

StartPan(g) == [g EXCEPT !.pan.trigger = TRUE]

ForcePan(r) == IF r.me.multi THEN Consumed([r EXCEPT !.g = [StartPan(@) EXCEPT !.pan.active = TRUE]]) ELSE r

PanDown(r) ==
    LET s == [r EXCEPT !.g.pan.down = TRUE]
    IN  IF ~r.me.consumed /\ ~r.g.pan.active /\ r.g.press.right THEN Consumed([s EXCEPT !.g = StartPan(@)]) ELSE s

PanMove(r) ==
    IF ~r.g.pan.active /\ ~r.g.pan.trigger THEN r
    ELSE Consumed([r EXCEPT !.g.pan.active = @ \/ r.me.x # 0])

(* The translation of the view is a change for the connection handler. *)
PanUp(r) ==
    LET s == [r EXCEPT !.g.pan = NotPanning]
        moved == IF SourceIsGone(s.g) THEN ResetConnection(s.g) ELSE s.g
    IN  IF r.g.pan.active THEN Consumed([s EXCEPT !.g = moved]) ELSE s

MenuDown(r) ==
    IF r.me.multi THEN r
    ELSE [r EXCEPT !.g.menu = [trigger |-> r.g.press.right, inTolerance |-> TRUE, showing |-> FALSE]]

MenuMove(r) == [r EXCEPT !.g.menu.inTolerance = @ /\ r.me.x = 0]

MenuUp(r) ==
    LET opens == r.g.menu.trigger /\ r.g.menu.inTolerance
        chosen == IF r.me.cell # Null /\ r.me.cell \notin r.g.selected THEN setSelection(r.g, {r.me.cell})
                  ELSE IF r.me.cell = Null THEN setSelection(r.g, {}) ELSE r.g
        g == IF opens THEN HideTip(chosen) ELSE r.g
        s == [r EXCEPT !.g = [g EXCEPT !.menu = [trigger |-> FALSE, inTolerance |-> FALSE, showing |-> @.showing \/ opens]]]
    IN  IF opens THEN Consumed(s) ELSE s

ForceRubber(r) == IF r.me.alt THEN Consumed([r EXCEPT !.g.rubber.first = r.me.x]) ELSE r

RubberDown(r) ==
    IF ~r.me.consumed /\ r.me.cell = Null /\ ~r.me.multi THEN Consumed([r EXCEPT !.g.rubber.first = r.me.x]) ELSE r

RubberMove(r) ==
    IF ~r.me.consumed /\ r.g.rubber.first # Null /\ (r.g.rubber.div \/ r.me.x # r.g.rubber.first)
    THEN Consumed([r EXCEPT !.g.rubber.div = TRUE]) ELSE r

RubberUp(r) ==
    LET s == [r EXCEPT !.g.rubber = [first |-> Null, div |-> FALSE]]
        cells == IF r.me.ctrl THEN r.g.selected \cup r.me.region ELSE r.me.region
    IN  IF r.g.rubber.div THEN Consumed([s EXCEPT !.g = setSelection(@, cells)]) ELSE s

-----------------------------------------------------------------------------
(* mxGraph: the listeners in the order in which they were added, the click *)
(* and the editor of labels.                                               *)

click(r) ==
    IF r.me.consumed THEN r.g
    ELSE IF r.me.cell # Null THEN selectCellForEvent(r.g, r.me.cell, r.me.ctrl)
    ELSE IF ~r.me.ctrl THEN setSelection(r.g, {}) ELSE r.g

stopEditing(g, cancel) ==
    LET closed == [g EXCEPT !.editor = [cell |-> Null, typed |-> FALSE]]
    IN  IF ~cancel /\ g.editor.typed /\ g.editor.cell \in g.present THEN Edited(closed, "label") ELSE closed

startEditing(g, c) ==
    LET s == stopEditing(ResetConnection(g), TRUE)
    IN  [s EXCEPT !.tip.shown = Null, !.editor.cell = IF c \in g.present THEN c ELSE Null]

Down_Bug(g, me) ==
    LET r == Hit([g EXCEPT !.down = TRUE, !.edits = {}, !.aborted = FALSE, !.hold = me.touch,
                           !.pressed = TRUE, !.presses = @ + 1, !.press = [right |-> me.right, touch |-> me.touch]], me)
        s == RubberDown(MenuDown(PanDown(MoverDown(ConnectionDown(HandlerDown(TipDown(ForceRubber(ForcePan(r)))))))))
    IN  stopEditing(s.g, TRUE)

Down(g, me) ==
    LET r == Hit([g EXCEPT !.down = TRUE, !.edits = {}, !.aborted = FALSE, !.hold = me.touch,
                           !.pressed = TRUE, !.presses = @ + 1, !.press = [right |-> me.right, touch |-> me.touch]], me)
        s == RubberDown(MenuDown(PanDown(MoverDown(ConnectionDown(HandlerDown(TipDown(ForceRubber(ForcePan(r)))))))))
    IN  stopEditing(s.g, FALSE)

Move(g, me) ==
    LET s == RubberMove(MenuMove(PanMove(MoverMove(ConnectionMove(HandlerMove(TipMove(Hit([g EXCEPT !.edits = {}], me))))))))
    IN  [s.g EXCEPT !.hold = @ /\ me.x = 0]

Up(g, me) ==
    LET r == Hit([g EXCEPT !.down = FALSE, !.edits = {}, !.hold = FALSE], me)
        s == RubberUp(MenuUp(PanUp(MoverUp(ConnectionUp(HandlerUp(TipUp(r)))))))
    IN  [click(s) EXCEPT !.press = [right |-> FALSE, touch |-> FALSE]]

(* mxGraph.tapAndHold: a finger that is held starts a connection. *)
tapAndHold(g, me) ==
    LET s == [g EXCEPT !.hold = FALSE, !.connector.error = FALSE]
    IN  IF me.cell \in Vertex THEN [s EXCEPT !.connector.first = 0, !.connector.previous = me.cell] ELSE s

(* mxGraph.escape: the gestures of the handles, of a connection and of     *)
(* moving end.                                                             *)
InProgress(g) == Gripped(g) # {} \/ g.connector.first # Null \/ g.mover.first # Null

escape(g) ==
    [ResetConnection(g) EXCEPT !.grip = [c \in Cell |-> Null], !.mover = Idle, !.aborted = @ \/ InProgress(g)]

-----------------------------------------------------------------------------
(* The user and the rest of the page. *)

Handle(g, c) ==
    {Null} \cup (IF ~isHandled(g, c) THEN {} ELSE IF c \in Edge THEN {"source", "target", "bend", "label"} ELSE {"resize", "label"})

Under(g) == g.present \cup {Null}

Press == \E c \in Under(graph), k \in {"", "ctrl", "alt", "right", "multi"}, touch \in BOOLEAN : \E h \in Handle(graph, c) :
    /\ ~graph.down /\ graph.presses < MaxGestures
    /\ (k = "right" => ~touch) /\ (k = "multi" => touch)
    /\ graph' = Down(graph, [cell |-> c, handle |-> h, hot |-> FALSE, x |-> 0, ctrl |-> k = "ctrl", right |-> k = "right",
                             touch |-> touch, multi |-> k = "multi", alt |-> k = "alt", region |-> {}, consumed |-> FALSE])

Drag == \E c \in Under(graph), x \in {0, 1}, k \in {"", "ctrl", "multi"} :
    /\ graph.down
    /\ k = "multi" => graph.press.touch
    /\ graph' = Move(graph, [cell |-> c, handle |-> Null, hot |-> FALSE, x |-> x, ctrl |-> k = "ctrl", right |-> FALSE,
                             touch |-> graph.press.touch, multi |-> k = "multi", alt |-> FALSE, region |-> {}, consumed |-> FALSE])

Point == \E c \in Under(graph), hot \in BOOLEAN : \E h \in Handle(graph, c) :
    /\ ~graph.down
    /\ graph' = Move(graph, [cell |-> c, handle |-> h, hot |-> hot, x |-> 0, ctrl |-> FALSE, right |-> FALSE, touch |-> FALSE,
                             multi |-> FALSE, alt |-> FALSE, region |-> {}, consumed |-> FALSE])

Release == \E c \in Under(graph), x \in {0, 1}, ctrl \in BOOLEAN, region \in {{}, graph.present \cap Vertex} :
    /\ graph.down
    /\ region # {} => graph.rubber.div
    /\ (isConnecting(graph) \/ (ctrl /\ Gripped(graph) \cap Edge # {})) => Spare(graph) # {}
    /\ graph' = Up(graph, [cell |-> c, handle |-> Null, hot |-> FALSE, x |-> x, ctrl |-> ctrl, right |-> graph.press.right,
                           touch |-> graph.press.touch, multi |-> FALSE, alt |-> FALSE, region |-> region, consumed |-> FALSE])

Hold == \E c \in Under(graph) :
    graph.hold /\ graph' = tapAndHold([graph EXCEPT !.edits = {}], [cell |-> c])

(* A double click follows a press. *)
DoubleClick == \E c \in graph.present \cap Editable :
    ~graph.down /\ graph.pressed /\ graph.editor.cell # c /\ graph' = startEditing([graph EXCEPT !.edits = {}, !.pressed = FALSE], c)

Type == graph.editor.cell # Null /\ ~graph.editor.typed /\ graph' = [graph EXCEPT !.editor.typed = TRUE, !.edits = {}]

Escape == graph' = IF graph.editor.cell # Null THEN stopEditing([graph EXCEPT !.edits = {}], TRUE) ELSE escape([graph EXCEPT !.edits = {}])

(* gesturestart: two fingers. *)
Pinch ==
    /\ graph.press.touch
    /\ LET g == IF ~graph.pan.active /\ graph.pan.down THEN [StartPan(graph) EXCEPT !.pan.down = FALSE] ELSE graph
       IN  graph' = [g EXCEPT !.menu.inTolerance = FALSE, !.rubber = [first |-> Null, div |-> FALSE], !.edits = {}]

(* The button is released outside of the page's graph. *)
ReleaseElsewhere == graph.down /\ graph.pan.active /\ graph' = [graph EXCEPT !.pan = NotPanning, !.edits = {}]

TipTimer == graph.tip.thread # Null /\ graph' = ShowTip([graph EXCEPT !.edits = {}])

RefreshTimer == graph.refresh /\ graph' = MoverRefresh([graph EXCEPT !.edits = {}])

RemoveElsewhere == \E c \in graph.present :
    /\ graph.removed < MaxRemoved
    /\ graph' = AfterChange([graph EXCEPT !.present = @ \ Doomed(graph, c), !.removed = @ + 1, !.edits = {},
                                          !.parent = [d \in Cell |-> IF d = c \/ d \in Edge \cap Doomed(graph, c) THEN Null ELSE @[d]]])

GestureNext ==
    \/ Press \/ Drag \/ Point \/ Release \/ Hold \/ DoubleClick \/ Type \/ Escape
    \/ Pinch \/ ReleaseElsewhere \/ TipTimer \/ RefreshTimer \/ RemoveElsewhere

GestureSpec == GestureInit /\ [][GestureNext]_graph

-----------------------------------------------------------------------------
(* When no button is down no handler is in a gesture: whichever listener   *)
(* consumes the release, all of them are reset by it.  At most one handle  *)
(* is active, that of a selected cell that is shown.                       *)
GestureEndsWithButton ==
    /\ Gripped(graph) \subseteq graph.selected \cap graph.present
    /\ Cardinality(Gripped(graph)) <= 1
    /\ ~graph.down => /\ ~InProgress(graph)
                      /\ graph.rubber.first = Null /\ ~graph.rubber.div
                      /\ ~graph.pan.trigger /\ ~graph.pan.active
                      /\ ~graph.menu.trigger

(* A press belongs to one gesture: consumed events keep a second listener  *)
(* from showing its preview, also when a held finger starts a connection   *)
(* on cells that could be moved.  A tooltip is shown only while no button  *)
(* is down, no menu is open and no label is edited, although its timer may *)
(* fire at any time.                                                       *)
OneGesture ==
    /\ Cardinality({p \in {<<"handle", Gripped(graph) # {}>>, <<"connect", isConnecting(graph)>>,
                           <<"move", graph.mover.shape>>, <<"rubber", graph.rubber.div>>} : p[2]}) <= 1
    /\ graph.tip.shown # Null => ~graph.down /\ ~graph.menu.showing /\ graph.editor.cell = Null

(* An edge is never attached to a source that was removed during the       *)
(* gesture, neither by a new connection nor by a dragged end.              *)
SourceThere == [][\A e \in Edge \cap graph'.present : graph'.ends[e].source # graph.ends[e].source
                        => graph'.ends[e].source \in graph'.present \cup {Null}]_graph

(* A gesture has one outcome.  A move is not a click: cells that are       *)
(* dragged (not copied) leave the selection as it was.  The menu opens on  *)
(* a click only, never at the end of a move or a new connection.  After    *)
(* Escape the rest of the gesture does not change the document, unless the *)
(* finger is held on: Escape does not stop the timer of tapAndHold, and a  *)
(* connection that it starts afterwards can be completed.                  *)
OneOutcome ==
    [][/\ graph'.edits = {"move"} /\ Copy \notin graph'.selected => graph'.selected = graph.selected \cap graph'.present
       /\ graph'.menu.showing /\ ~graph.menu.showing => graph'.edits \cap {"move", "connect"} = {}
       /\ graph'.aborted => graph'.edits \subseteq IF graph.connector.first # Null THEN {"connect"} ELSE {}]_graph

(* Text that was typed becomes the label, unless editing is cancelled or   *)
(* the cell is gone.                                                       *)
TypedTextKept == [][graph.editor.typed /\ ~graph'.editor.typed
                        => \/ graph'.edits = {"label"} \/ graph.editor.cell \notin graph'.present
                           \/ Escape]_graph
=============================================================================
