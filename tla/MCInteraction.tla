--------------------------- MODULE MCInteraction ---------------------------
(* What stands between the user and the document of the graph library: the *)
(* filter of mouse events, the handlers that gestures are made of, and the *)
(* undo history.  A behaviour exercises one of the three; the others rest  *)
(* in one of their initial states.                                         *)
(*                                                                         *)
(* Gestures: a group with a child, a vertex beside it, an edge between the *)
(* child and that vertex, and room for one new edge and one copy.          *)
EXTENDS UndoManager, MouseDispatch, GraphGestures, TLC

CONSTANTS group1, inner1, beside1, copy1, edge1, edge2, version1

HomeValue == group1 :> Layer @@ inner1 :> group1 @@ beside1 :> Layer
EndsValue == edge1 :> [source |-> inner1, target |-> beside1]

VARIABLE part    \* the component this behaviour exercises

Init ==
    /\ part \in {"undo", "dispatch", "gestures"}
    /\ UndoInit /\ (part # "undo" => version = version1)
    /\ DispatchInit /\ (part # "dispatch" => firefox)
    /\ GestureInit /\ (part # "gestures" => graph.selected = {} /\ graph.editor.cell = Null)

Next ==
    \/ part = "undo" /\ UndoNext /\ UNCHANGED <<part, dispatchVars, graph>>
    \/ part = "dispatch" /\ DispatchNext /\ UNCHANGED <<part, undoVars, graph>>
    \/ part = "gestures" /\ GestureNext /\ UNCHANGED <<part, undoVars, dispatchVars>>

Spec == Init /\ [][Next]_<<part, undoVars, dispatchVars, graph>>
=============================================================================
