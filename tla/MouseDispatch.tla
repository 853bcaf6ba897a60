--------------------------- MODULE MouseDispatch ---------------------------
(***************************************************************************)
(* mxGraph.fireMouseEvent: the filter between the browser's mouse and      *)
(* touch events and the mouse listeners of the graph (the handlers of      *)
(* GraphGestures).  It drops events that are fired more than once, that do *)
(* not fit the state of the button, that the browser synthesizes for a     *)
(* touch, and the second click of a double click; it detects double taps   *)
(* and tap and hold.                                                       *)
(*                                                                         *)
(* The browser is external.  It presses and releases one pointer at a      *)
(* time, at one of the positions Position; a release of the mouse outside  *)
(* of the window is not reported; an event may be fired twice (on its way  *)
(* up through two elements) unless it was consumed; Firefox follows a      *)
(* touch by synthetic mouse events.  The second press in the same place    *)
(* and in time has click count 2 for the mouse and is a double tap for a   *)
(* touch; to change the device takes longer than that.                     *)
(***************************************************************************)
EXTENDS Integers

CONSTANTS Position,    \* positions further than the tolerance from each other
          OnCell,      \* those of them where a cell is
          None,
          MaxPresses   \* bound: presses of the pointer in a behaviour

ASSUME DispatchConstants == None \notin Position /\ None \notin {"left", "right", "touch"}

VARIABLES
    firefox,   \* mxClient.IS_FF
    pointer,   \* the browser: what is pressed and what it sends next
    filter,    \* the fields of mxGraph that fireMouseEvent uses
    hold,      \* the tap-and-hold timer and its flags
    seen,      \* the last press or release that the listeners were told of
    out        \* what the last event made of it

dispatchVars == <<firefox, pointer, filter, hold, seen, out>>

DispatchInit ==
    /\ firefox \in BOOLEAN
    /\ pointer = [kind |-> None, count |-> 1, x |-> None, at |-> None, synthetic |-> 0, presses |-> 0,
                  device |-> None, moved |-> FALSE, last |-> None]
    /\ filter = [isMouseDown |-> FALSE, isMouseTrigger |-> FALSE, lastEvent |-> 0, eventSource |-> FALSE,
                 ignoreMouseEvents |-> FALSE, lastTouch |-> [x |-> None, timed |-> FALSE, id |-> 0],
                 fireDoubleClick |-> FALSE, doubleClickCounter |-> 0]
    /\ hold = [thread |-> FALSE, inProgress |-> FALSE, valid |-> FALSE, x |-> None]
    /\ seen = "up"
    /\ out = "nothing"

-----------------------------------------------------------------------------
(* An event: its name, the device (left or right button of the mouse, or   *)
(* touch), the click count, the position and the identity of the event.    *)

Event(name, device, count, x, id) ==
    [name |-> name, mouse |-> device # "touch", popup |-> device = "right", count |-> count, x |-> x, id |-> id]

(* isSyntheticEventIgnored: after a touch Firefox's mouse events are       *)
(* ignored, up to the release.                                             *)
IgnoredAsSynthetic(f, me) == f.ignoreMouseEvents /\ me.mouse /\ me.name # "move"

AfterSynthetic(f, me) ==
    [f EXCEPT !.ignoreMouseEvents = IF IgnoredAsSynthetic(f, me) THEN me.name # "up"
                                    ELSE @ \/ (firefox /\ ~me.mouse /\ me.name = "up")]

(* The event source of a touch is captured until the release. *)
AfterSource(f, me) ==
    [f EXCEPT !.eventSource = IF @ /\ me.name # "move" THEN FALSE ELSE @ \/ (me.name = "down" /\ ~me.mouse),
              !.lastEvent = me.id]

OutOfSequence_Bug(f, me) ==
    /\ ~(me.name = "up" /\ f.isMouseDown)
    /\ \/ (~firefox \/ me.name # "move") /\ f.isMouseDown /\ f.isMouseTrigger # me.mouse
       \/ me.name = "up"

(* Events out of sequence, or of the other kind during a gesture. *)
OutOfSequence(f, me) ==
    /\ ~(me.name = "up" /\ f.isMouseDown)
    /\ ~(me.name = "down" /\ ~f.isMouseDown)
    /\ \/ (~firefox \/ me.name # "move") /\ f.isMouseDown /\ f.isMouseTrigger # me.mouse
       \/ me.name = "down"
       \/ me.name = "up"

AfterSequence(f, me) ==
    [f EXCEPT !.isMouseDown = (me.name = "down") \/ (@ /\ me.name # "up"),
              !.isMouseTrigger = IF me.name = "down" /\ ~f.isMouseDown THEN me.mouse ELSE @]

(* isEventIgnored: the second click of a double click leaves before the    *)
(* state of the button changes.                                            *)
isDoubleClick(me) == ~me.popup /\ me.name # "move" /\ me.count = 2

isEventIgnored(f, me) ==
    isDoubleClick(me) \/ me.id = f.lastEvent \/ IgnoredAsSynthetic(f, me) \/ OutOfSequence(f, me)

AfterFilter_Bug(f, me) == AfterSequence(AfterSynthetic(AfterSource(f, me), me), me)

AfterFilter(f, me) ==
    IF isDoubleClick(me) THEN AfterSynthetic(AfterSource(f, me), me)
    ELSE AfterSequence(AfterSynthetic(AfterSource(f, me), me), me)

-----------------------------------------------------------------------------
(* Tap and hold: armed by a touch that reaches the listeners, disarmed by  *)
(* a move beyond the tolerance or by the release.                          *)
AfterHold(h, me) ==
    IF ~me.mouse /\ me.name = "down" /\ ~h.inProgress
    THEN [thread |-> TRUE, inProgress |-> TRUE, valid |-> TRUE, x |-> me.x]
    ELSE IF me.name = "up" THEN [h EXCEPT !.inProgress = FALSE, !.valid = FALSE]
    ELSE [h EXCEPT !.valid = @ /\ h.x = me.x]

HoldTimer ==
    /\ hold.thread
    /\ hold' = [hold EXCEPT !.thread = FALSE, !.inProgress = FALSE, !.valid = FALSE]
    /\ out' = IF hold.valid THEN "tapAndHold" ELSE "nothing"
    /\ UNCHANGED <<firefox, pointer, filter, seen>>

-----------------------------------------------------------------------------
(* Double taps, for touches: the second press in time and place is not     *)
(* passed on, and the event after it is the double click.                  *)
isDoubleTap(f, me, recent) ==
    /\ ~me.mouse /\ me.name = "down" /\ recent /\ f.lastTouch.timed
    /\ f.lastTouch.id # me.id /\ f.lastTouch.x = me.x /\ f.doubleClickCounter < 2

AfterTouch(f, me) ==
    IF ~me.mouse /\ me.name = "down" /\ f.lastTouch.id # me.id
    THEN [f EXCEPT !.lastTouch = [x |-> me.x, timed |-> TRUE, id |-> me.id], !.doubleClickCounter = 0] ELSE f

isSecondTapOver(f, me) == ~me.mouse /\ me.name # "down" /\ (f.isMouseDown \/ me.name = "up") /\ f.fireDoubleClick

isDoubleTapValid(f, me) == f.lastTouch.x = me.x /\ (me.x \in OnCell \/ ~firefox)

(* The listeners, and then click, are called if the event is not ignored. *)
Deliver(f, me) ==
    /\ filter' = AfterFilter(f, me)
    /\ IF isEventIgnored(f, me)
       THEN out' = "nothing" /\ UNCHANGED <<hold, seen>>
       ELSE /\ out' = me.name
            /\ seen' = IF me.name = "move" THEN seen ELSE me.name
            /\ hold' = AfterHold(hold, me)

fireMouseEvent(me, recent) ==
    IF isDoubleTap(filter, me, recent)
    THEN /\ filter' = [filter EXCEPT !.doubleClickCounter = @ + 1, !.fireDoubleClick = TRUE, !.lastTouch.timed = FALSE]
         /\ out' = "nothing"
         /\ UNCHANGED <<hold, seen>>
    ELSE IF isSecondTapOver(filter, me)
    THEN /\ filter' = [filter EXCEPT !.fireDoubleClick = FALSE, !.isMouseDown = FALSE]
         /\ out' = IF isDoubleTapValid(filter, me) THEN "dblClick" ELSE "nothing"
         /\ UNCHANGED <<hold, seen>>
    ELSE Deliver(AfterTouch(filter, me), me)

-----------------------------------------------------------------------------
(* The browser (external). *)

BrowserPress(device, x, recent) ==
    LET again == recent /\ x = pointer.at
        count == IF device # "touch" /\ again THEN 3 - pointer.count ELSE 1
        me == Event("down", device, count, x, 4 * (pointer.presses + 1))
    IN  /\ pointer.kind = None /\ pointer.synthetic = 0 /\ pointer.presses < MaxPresses
        /\ recent => pointer.device = device
        /\ pointer' = [pointer EXCEPT !.kind = device, !.device = device, !.count = count, !.x = x, !.at = x, !.presses = @ + 1,
                                      !.moved = FALSE, !.last = IF isDoubleTap(filter, me, recent) THEN None ELSE me]
        /\ fireMouseEvent(me, recent)
        /\ UNCHANGED firefox

BrowserMove(x) ==
    LET me == Event("move", IF pointer.kind = None THEN "left" ELSE pointer.kind, 1, x,
                    IF filter.lastEvent = -1 THEN -2 ELSE -1)
    IN  /\ pointer.synthetic = 0 /\ pointer.x \notin {x, None}
        /\ pointer' = [pointer EXCEPT !.x = x, !.moved = TRUE, !.last = me]
        /\ fireMouseEvent(me, FALSE)
        /\ UNCHANGED firefox

BrowserRelease ==
    LET me == Event("up", pointer.kind, pointer.count, pointer.x, 4 * pointer.presses + 1)
    IN  /\ pointer.kind # None
        /\ pointer' = [pointer EXCEPT !.kind = None, !.last = me,
                                      !.synthetic = IF firefox /\ pointer.kind = "touch" THEN 2 ELSE 0]
        /\ fireMouseEvent(me, FALSE)
        /\ UNCHANGED firefox

ReleaseOutside ==
    /\ pointer.kind \in {"left", "right"}
    /\ pointer' = [pointer EXCEPT !.kind = None, !.at = None, !.last = None]
    /\ out' = "nothing"
    /\ UNCHANGED <<firefox, filter, hold, seen>>

(* The last event is fired again, from an outer element. *)
FireAgain ==
    /\ pointer.last # None
    /\ pointer' = [pointer EXCEPT !.last = None]
    /\ fireMouseEvent(pointer.last, TRUE)
    /\ UNCHANGED firefox

Synthesize ==
    LET me == Event(IF pointer.synthetic = 2 THEN "down" ELSE "up", "left", 1, pointer.x,
                    4 * pointer.presses + 4 - pointer.synthetic)
    IN  /\ pointer.synthetic > 0
        /\ pointer' = [pointer EXCEPT !.synthetic = @ - 1, !.last = me]
        /\ fireMouseEvent(me, FALSE)
        /\ UNCHANGED firefox

DispatchNext ==
    \/ \E device \in {"left", "right", "touch"}, x \in Position, recent \in BOOLEAN : BrowserPress(device, x, recent)
    \/ \E x \in Position : BrowserMove(x)
    \/ BrowserRelease
    \/ ReleaseOutside
    \/ FireAgain
    \/ Synthesize
    \/ HoldTimer

DispatchSpec == DispatchInit /\ [][DispatchNext]_dispatchVars

-----------------------------------------------------------------------------
(* The listeners are told of presses and releases in turn, although        *)
(* releases get lost, events are fired twice, and touches are followed by  *)
(* synthetic clicks: isEventIgnored filters the rest out.  A double click  *)
(* (a double tap or the second click of the mouse) is reported once, while *)
(* no press is pending.  Tap and hold is reported for a touch that is      *)
(* still down and has not been moved since: an earlier timer does not fire *)
(* for a later touch.                                                      *)
InOrder ==
    /\ out' = "down" => seen = "up"
    /\ out' = "up" => seen = "down"
    /\ out' = "dblClick" => seen = "up" /\ ~filter'.fireDoubleClick
    /\ out' = "tapAndHold" /\ out # "tapAndHold" => pointer.kind = "touch" /\ ~pointer.moved

EventsInOrder == [][InOrder]_dispatchVars

(* isMouseDown, which the handlers read, is true exactly between a press   *)
(* and a release that the listeners were told of (or between the synthetic *)
(* ones that are ignored).                                                 *)
MouseDownAsSeen == filter.isMouseDown <=> seen = "down" \/ pointer.synthetic = 1
=============================================================================
