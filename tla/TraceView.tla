------------------------------ MODULE TraceView ------------------------------
(***************************************************************************)
(* The error trace page (ETV.js, over the lines that ErrorTrace.html and   *)
(* etv.py lay out).  A trace is a flat list of lines; a function call or   *)
(* an action owns a scope, the lines of its body, and so does a            *)
(* declarations block.  Lines are shown and hidden one at a time when the  *)
(* user opens or closes a scope, with or without shift, clicks an eye, or  *)
(* the note that stands for a commented line.                              *)
(*                                                                         *)
(* A line is [type, scope, body, commented, level, relevant]: the scope it *)
(* lies in, the scope it owns (0 if none), whether its note replaces it,   *)
(* the level of a note, and whether an action is relevant.                 *)
(***************************************************************************)
EXTENDS Integers, Sequences, FiniteSets, FiniteSetsExt

CONSTANTS
    Trace,          \* the lines of the trace, in order
    RootScopes      \* the global scope and the scopes of the threads

VARIABLE tv     \* lines shown, scopes opened, eyes in the state "hide", line selected

Lines == 1..Len(Trace)
CallTypes == {"function call", "action"}
Of(s) == {i \in Lines : Trace[i].scope = s}
OfType(s, types) == {i \in Of(s) : Trace[i].type \in types}
Commented(i) == Trace[i].commented

\* The line that owns a scope: the first one with this data-scope.
Owner(s) == CHOOSE i \in Lines : Trace[i].body = s

RECURSIVE ScopesAround(_)
ScopesAround(s) ==
    IF s \in RootScopes THEN {s} ELSE {s} \cup ScopesAround(Trace[Owner(s)].scope)

(* etv.py: a scope is shown from the start when it, or a scope in it,      *)
(* holds a note of level 0 or 1 or a relevant action.                      *)
ShownScopes ==
    RootScopes \cup
    UNION {ScopesAround(Trace[i].scope) :
               i \in {j \in Lines : \/ Trace[j].type = "note" /\ Trace[j].level < 2
                                    \/ Trace[j].type = "action" /\ Trace[j].relevant}}

OpenedAtStart(i) == Trace[i].type \in CallTypes /\ Trace[i].body \in ShownScopes

\* A scope open from the start has an eye instead of a triangle.
HasEnterLink(i) == Trace[i].type \in CallTypes /\ ~OpenedAtStart(i)
HasEye(i) == Trace[i].type = "declarations" \/ OpenedAtStart(i)

ShownAtStart(i) ==
    /\ Trace[i].scope \in ShownScopes
    /\ CASE Trace[i].type = "note" -> Trace[i].level < 2
         [] Trace[i].type \in {"statement", "declaration"} ->
                /\ ~Commented(i)
                /\ i > 1 /\ Trace[i - 1].type = "note"
         [] Trace[i].type = "function call" -> ~Commented(i)
         [] OTHER -> TRUE

-----------------------------------------------------------------------------
ShowDisplay(v, n) ==
    LET s == Trace[n].body
        lines == CASE Trace[n].type \in CallTypes /\ n \in v.opened ->
                          {i \in OfType(s, {"statement", "declaration"}) : ~Commented(i)}
                              \cup OfType(s, {"note"})
                   [] Trace[n].type = "declarations" -> {i \in Of(s) : ~Commented(i)}
                   [] OTHER -> {}
    IN [v EXCEPT !.eye = @ \cup {n}, !.shown = @ \cup lines]

\* A statement stays when the line before it in its scope is a relevant note.
NoteKept(s, i) ==
    LET before == {j \in Of(s) : j < i}
    IN before # {} /\ LET p == Max(before) IN Trace[p].type = "note" /\ Trace[p].level =< 1

HideDisplay(v, n) ==
    LET s == Trace[n].body
        lines == CASE Trace[n].type \in CallTypes /\ n \in v.opened ->
                          {i \in OfType(s, {"statement", "declaration"}) : ~NoteKept(s, i)}
                              \cup {i \in OfType(s, {"note"}) : Trace[i].level > 1}
                   [] Trace[n].type = "declarations" -> Of(s)
                   [] OTHER -> {}
    IN [v EXCEPT !.eye = @ \ {n}, !.shown = @ \ lines]

RECURSIVE ShowScope(_, _)
ShowScope(v, n) ==
    LET s     == Trace[n].body
        calls == {i \in OfType(s, CallTypes) : ~Commented(i) \/ i \in v.opened}
        v1    == [v EXCEPT !.opened = @ \cup {n},
                           !.shown = @ \cup calls \cup OfType(s, {"exit", "declarations"})]
    IN ShowDisplay(FoldSet(LAMBDA c, acc : ShowScope(acc, c), v1,
                           OfType(s, CallTypes) \cap v.opened), n)

RECURSIVE ShowScopeShift(_, _)
ShowScopeShift(v, n) ==
    LET s  == Trace[n].body
        v1 == [v EXCEPT !.opened = @ \cup {n},
                        !.shown = @ \cup OfType(s, CallTypes \cup {"exit"})]
    IN ShowDisplay(FoldSet(LAMBDA c, acc : ShowScopeShift(acc, c), v1, OfType(s, CallTypes)), n)

\* Inner scopes are hidden too, but keep their state unless shift is pressed.
RECURSIVE HideScope(_, _, _, _)
HideScope(v, n, shift, change) ==
    LET s  == Trace[n].body
        v1 == HideDisplay(v, n)
        v2 == [v1 EXCEPT !.opened = IF change THEN @ \ {n} ELSE @, !.shown = @ \ Of(s)]
        v3 == FoldSet(LAMBDA c, acc : HideScope(acc, c, shift, shift), v2, OfType(s, CallTypes))
    IN FoldSet(LAMBDA c, acc : HideDisplay(acc, c), v3, OfType(s, {"declarations"}) \cap v.eye)

Toggle(v, n, shift) ==
    IF n \in v.opened THEN HideScope(v, n, shift, TRUE)
    ELSE IF shift THEN ShowScopeShift(v, n) ELSE ShowScope(v, n)

-----------------------------------------------------------------------------
ClickEnterLink(n, shift) ==
    /\ n \in tv.shown /\ HasEnterLink(n)
    /\ tv' = Toggle(tv, n, shift)

\* A click on the text of an action also opens it and shows its source.
ClickAction(n) ==
    /\ n \in tv.shown /\ Trace[n].type = "action"
    /\ tv' = [IF HasEnterLink(n) THEN Toggle(tv, n, FALSE) ELSE tv EXCEPT !.selected = n]

\* The closing triangle of a scope that was not shown from the start.
ClickExitLink(n, shift) ==
    /\ n \in tv.shown /\ Trace[n].type = "exit" /\ Trace[n].scope \notin ShownScopes
    /\ tv' = HideScope(tv, Owner(Trace[n].scope), shift, TRUE)

ClickEye(n) ==
    /\ n \in tv.shown /\ HasEye(n)
    /\ tv' = IF n \in tv.eye THEN HideDisplay(tv, n) ELSE ShowDisplay(tv, n)

\* unselect_etv_line() comes first, so one line at most is selected.
ClickLine(n) ==
    /\ n \in tv.shown /\ Trace[n].type \in CallTypes \cup {"statement", "declaration"}
    /\ tv' = [tv EXCEPT !.selected = n]

\* A click on a note selects the line after it, shown or not.
ClickNoteLine(n) ==
    /\ n \in tv.shown /\ Trace[n].type = "note"
    /\ tv' = [tv EXCEPT !.selected = n + 1]

ClickCommentCode(n) ==
    LET m == n + 1
    IN /\ n \in tv.shown /\ Trace[n].type = "note" /\ m \in Lines /\ Commented(m)
       /\ tv' = IF m \notin tv.shown
                  THEN LET v == [tv EXCEPT !.shown = @ \cup {m}]
                       IN [IF HasEnterLink(m) THEN Toggle(v, m, FALSE) ELSE v
                              EXCEPT !.selected = m]
                  ELSE LET v == IF m \in tv.opened /\ HasEnterLink(m)
                                  THEN HideScope(tv, m, FALSE, TRUE) ELSE tv
                       IN [v EXCEPT !.shown = @ \ {m}]

-----------------------------------------------------------------------------
\* The page starts with the first shown line that has a number selected.
TraceInit ==
    LET shown == {i \in Lines : ShownAtStart(i)}
        numbered == {i \in shown : Trace[i].type \in CallTypes \cup {"statement", "declaration"}}
    IN tv = [shown    |-> shown,
             opened   |-> {i \in Lines : OpenedAtStart(i)},
             eye      |-> {},
             selected |-> IF numbered = {} THEN 0 ELSE Min(numbered)]

TraceNext ==
    \E n \in Lines :
        \/ \E shift \in BOOLEAN : ClickEnterLink(n, shift) \/ ClickExitLink(n, shift)
        \/ ClickAction(n)
        \/ ClickEye(n)
        \/ ClickLine(n)
        \/ ClickNoteLine(n)
        \/ ClickCommentCode(n)

(* No line of a body is on the page without the line it belongs to: a      *)
(* shown line lies in a scope that is open, and the call, action or block  *)
(* that owns the scope is shown itself or, if it was open from the start,  *)
(* is replaced by its note; a declarations block shows lines only while    *)
(* its eye is open.                                                        *)
LinesInOpenScopes ==
    \A i \in tv.shown :
        LET s == Trace[i].scope
        IN s \notin RootScopes =>
             LET o == Owner(s)
             IN /\ \/ o \in tv.shown
                   \/ Commented(o) /\ OpenedAtStart(o) /\ o - 1 \in tv.shown
                /\ IF Trace[o].type = "declarations" THEN o \in tv.eye ELSE o \in tv.opened
=============================================================================
