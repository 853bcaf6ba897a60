------------------------------ MODULE JobPages ------------------------------
(***************************************************************************)
(* Bridge's pages that act on jobs, decisions and reports by requests: the *)
(* decision page that polls its decision (decisionPage.js), the removal of *)
(* what is selected in the jobs tree (jobtree.js, jobPage.js), the         *)
(* comparison of two decisions (comparison.js), the form of user roles     *)
(* (jobRolesEdit.js) and the views of every table (bridge.js).             *)
(*                                                                         *)
(* The pages are independent; each has one variable.  Requests are sets of *)
(* records, answered in any order.  raced marks a behaviour in which the   *)
(* user went on while a request was under way.                             *)
(***************************************************************************)
EXTENDS Integers, Sequences, SequencesExt, FiniteSets, FiniteSetsExt, TLC

CONSTANTS
    Statuses,       \* the statuses a decision goes through, 1..n
    UpdateLimit,    \* automatic updates of a decision page (100 in the code)
    MaxBatches,     \* removals started on one page
    JobsTree,       \* the jobs: a function from job to the set of its decisions
    Verdicts,       \* the cells of a comparison's table
    AttrValues,     \* the values of attributes a comparison can be searched by
    SearchPages,    \* a function from each of them to its number of pages
    RoleUsers,      \* the users a role may be given to
    Roles,          \* the roles, numbers from 0
    ViewIds,        \* the views a user may save
    Columns         \* the columns of a view

VARIABLES dp, rm, cm, rf, vw, vc

-----------------------------------------------------------------------------
(* The decision page.  Every three seconds, unless a request is under way, *)
(* the filters are open or the decision is being renamed, the page asks    *)
(* for the status, and for results and progress while automatic updates    *)
(* are on; a status that differs from the one on the page reloads it.      *)

PageLoaded(server) ==
    [shown |-> server, server |-> server, auto |-> TRUE, updates |-> 0, filters |-> FALSE,
     rename |-> FALSE, polling |-> TRUE, asked |-> {}]

\* A page that asks for its status only together with its results.
Tick_Bug ==
    /\ dp.polling /\ dp.asked = {} /\ ~dp.filters /\ ~dp.rename /\ dp.auto
    /\ dp' = [dp EXCEPT !.asked = {"results", "progress", "status"}, !.updates = @ + 1,
                        !.auto = dp.updates + 1 =< UpdateLimit]

Tick ==
    /\ dp.polling /\ dp.asked = {} /\ ~dp.filters /\ ~dp.rename
    /\ dp' = IF dp.auto
               THEN [dp EXCEPT !.asked = {"results", "progress", "status"},
                               !.updates = @ + 1,
                               !.auto = dp.updates + 1 =< UpdateLimit]
               ELSE [dp EXCEPT !.asked = {"status"}]

PollAnswered(kind) ==
    /\ kind \in dp.asked
    /\ dp' = IF kind = "status" /\ dp.server # dp.shown
               THEN PageLoaded(dp.server)
               ELSE [dp EXCEPT !.asked = @ \ {kind}]

PollFails(kind) ==
    /\ kind \in dp.asked
    /\ dp' = [dp EXCEPT !.asked = @ \ {kind}, !.polling = FALSE]

ToggleAutoupdate ==
    dp' = IF dp.auto THEN [dp EXCEPT !.auto = FALSE]
          ELSE [dp EXCEPT !.auto = TRUE, !.updates = 0]

ToggleFilters == dp' = [dp EXCEPT !.filters = ~@]

ToggleRename == dp' = [dp EXCEPT !.rename = ~@]

\* The answer to a rename reloads the page.
RenameDone ==
    /\ dp.rename
    /\ dp' = PageLoaded(dp.server)

DecisionMoves ==
    /\ dp.server < Max(Statuses)
    /\ dp' = [dp EXCEPT !.server = @ + 1]

DecisionNext ==
    \/ Tick \/ ToggleAutoupdate \/ ToggleFilters \/ ToggleRename \/ RenameDone
    \/ DecisionMoves
    \/ \E kind \in dp.asked : PollAnswered(kind) \/ PollFails(kind)

(* A change of the decision's status reaches an open page, whether or not  *)
(* its automatic updates were stopped or used up, unless a poll failed,    *)
(* which stops the polling, or the filters or the rename dialog stay open. *)
StatusSeen ==
    \A s \in Statuses :
        (dp.server = s /\ dp.shown # s) ~>
            \/ dp.shown = dp.server
            \/ ~dp.polling \/ dp.filters \/ dp.rename
            \/ dp.server # s

-----------------------------------------------------------------------------
(* Removal of selected decisions and jobs.  One request per object, all    *)
(* sent at once, so the order in which the server takes them is open;      *)
(* removing a job removes its decisions; removing what is gone fails.      *)
(* When no request is left every handler registered so far lowers the      *)
(* dimmer and reloads the page if none of its requests failed.             *)

Jobs == DOMAIN JobsTree
Decisions == UNION {JobsTree[j] : j \in Jobs}

\* A page just loaded; gone is what the removal that reloaded it was for.
JobsLoaded(there, gone) ==
    [there |-> there, gone |-> gone, selected |-> {}, sent |-> {}, batches |-> <<>>,
     dimmed |-> FALSE]

SelectObject(o) ==
    /\ o \in rm.there /\ ~rm.dimmed
    /\ rm' = [rm EXCEPT !.selected = SymDiff(@, {o})]

ConfirmRemove ==
    /\ rm.selected # {} /\ ~rm.dimmed /\ Len(rm.batches) < MaxBatches
    /\ LET b == Len(rm.batches) + 1
       IN rm' = [rm EXCEPT !.sent = @ \cup {<<b, o>> : o \in rm.selected}, !.dimmed = TRUE,
                           !.batches = Append(@, [asked |-> rm.selected, failed |-> FALSE])]

\* The handlers run with every answer.
Stopped_Bug(v) ==
    LET good == {b \in DOMAIN v.batches : ~v.batches[b].failed}
    IN IF good = {} THEN [v EXCEPT !.dimmed = FALSE]
       ELSE JobsLoaded(v.there, UNION {v.batches[b].asked : b \in good})

\* ajaxStop: every registered handler runs when no request is left.
Stopped(v) ==
    LET good == {b \in DOMAIN v.batches : ~v.batches[b].failed}
    IN IF v.sent # {} THEN v
       ELSE IF good = {} THEN [v EXCEPT !.dimmed = FALSE]
       ELSE JobsLoaded(v.there, UNION {v.batches[b].asked : b \in good})

RemoveDone(b, o) ==
    /\ <<b, o>> \in rm.sent /\ o \in rm.there
    /\ LET gone == IF o \in Jobs THEN {o} \cup JobsTree[o] ELSE {o}
       IN rm' = Stopped([rm EXCEPT !.sent = @ \ {<<b, o>>}, !.there = @ \ gone])

\* Gone already, or protected: the page's error handler lowers the dimmer too.
RemoveFails(b, o) ==
    /\ <<b, o>> \in rm.sent
    /\ rm' = Stopped([rm EXCEPT !.sent = @ \ {<<b, o>>}, !.batches[b].failed = TRUE,
                                !.dimmed = FALSE])

RemovalNext ==
    \/ ConfirmRemove
    \/ \E o \in Jobs \cup Decisions :
           \/ SelectObject(o)
           \/ \E b \in DOMAIN rm.batches : RemoveDone(b, o) \/ RemoveFails(b, o)

-----------------------------------------------------------------------------
(* The comparison page: one search at a time, by a cell of the table or by *)
(* values of attributes, shown page by page; the buttons count from the    *)
(* numbers of the page shown (of), which a search that failed leaves.      *)

NoSearch == "none"

Searched(v) == IF v.verdict # NoSearch THEN v.verdict ELSE v.attrs

GetComparison(v, page) ==
    [v EXCEPT !.asked = @ \cup {[verdict |-> v.verdict, attrs |-> v.attrs, page |-> page,
                                 of |-> v.of]},
              !.raced = @ \/ v.asked # {}]

SearchVerdict(verdict) ==
    cm' = GetComparison([cm EXCEPT !.verdict = verdict, !.attrs = NoSearch], 1)

SearchAttrs(attrs) ==
    cm' = GetComparison([cm EXCEPT !.verdict = NoSearch, !.attrs = attrs], 1)

Turn(v, page) ==
    /\ v.shown # 0 /\ Cardinality(v.asked) < 2
    /\ cm' = GetComparison(v, page)

FastBackward == Turn(cm, 1)
FastForward == Turn(cm, cm.total)
Backward == Turn(cm, IF cm.shown > 1 THEN cm.shown - 1 ELSE cm.shown)
ForwardPage == Turn(cm, IF cm.shown < cm.total THEN cm.shown + 1 ELSE cm.shown)
ReloadComparison == Turn(cm, cm.shown)

\* The server answers a request for a page the search has.
ComparisonArrives(r) ==
    /\ r \in cm.asked /\ r.page =< SearchPages[Searched(r)]
    /\ cm' = [cm EXCEPT !.asked = @ \ {r}, !.shown = r.page,
                        !.total = SearchPages[Searched(r)], !.of = Searched(r)]

\* There is no error handler of its own: the old page stays, under the new search.
ComparisonFails(r) ==
    /\ r \in cm.asked
    /\ cm' = [cm EXCEPT !.asked = @ \ {r}, !.failed = TRUE]

ComparisonNext ==
    \/ /\ Cardinality(cm.asked) < 2
       /\ \/ \E verdict \in Verdicts : SearchVerdict(verdict)
          \/ \E attrs \in AttrValues : SearchAttrs(attrs)
    \/ FastBackward \/ FastForward \/ Backward \/ ForwardPage \/ ReloadComparison
    \/ \E r \in cm.asked : ComparisonArrives(r) \/ ComparisonFails(r)

-----------------------------------------------------------------------------
(* The form of user roles: a global role, the users without a role of      *)
(* their own in a selector, and a row with a role for each of the others.  *)

Highest == 4
NoRole == -1

\* Roles up to the global one are disabled: the browser then selects the first
\* role that is not, and none at all under the highest global role.
RowRole(global, wanted) ==
    LET above == {r \in Roles : r > global}
    IN IF wanted \in above THEN wanted ELSE IF above = {} THEN NoRole ELSE Min(above)

\* The form of a job: its global role and the users with roles of their own.
\* The selector shows whenever some user is available, whatever the global role.
InitializeRoles(global, own) ==
    [global |-> global, rows |-> [u \in DOMAIN own |-> RowRole(global, own[u])],
     free |-> RoleUsers \ DOMAIN own, selector |-> RoleUsers # DOMAIN own]

RolesInit ==
    \E global \in Roles, users \in SUBSET RoleUsers :
        \E own \in [users -> Roles] : rf = InitializeRoles(global, own)

AddUserRole(u) ==
    /\ u \in rf.free /\ rf.selector
    /\ rf' = [rf EXCEPT !.free = @ \ {u}, !.rows = @ @@ (u :> RowRole(rf.global, 0)),
                        !.selector = rf.free # {u}]

RemoveUserRole(u) ==
    /\ u \in DOMAIN rf.rows
    /\ rf' = [rf EXCEPT !.free = @ \cup {u}, !.selector = TRUE,
                        !.rows = [x \in DOMAIN rf.rows \ {u} |-> rf.rows[x]]]

\* An own role, one of those above the global role.
ChooseRole(u, role) ==
    /\ u \in DOMAIN rf.rows /\ role > rf.global
    /\ rf' = [rf EXCEPT !.rows[u] = role]

\* A new global role takes all own roles back.
ChangeGlobalRole(role) ==
    /\ role # rf.global
    /\ rf' = [free |-> rf.free \cup DOMAIN rf.rows, rows |-> <<>>, global |-> role,
              selector |-> role # Highest /\ rf.free \cup DOMAIN rf.rows # {}]

RolesNext ==
    \/ \E u \in RoleUsers : AddUserRole(u) \/ RemoveUserRole(u)
    \/ \E u \in RoleUsers, role \in Roles : ChooseRole(u, role)
    \/ \E role \in Roles : ChangeGlobalRole(role)

-----------------------------------------------------------------------------
(* The views of a table.  The list on the page has the views the server    *)
(* keeps and the default one (0); the column lists move what is selected.  *)

Sent(v, kind, id) ==
    [v EXCEPT !.asked = @ \cup {[kind |-> kind, id |-> id]}, !.raced = @ \/ v.asked # {}]

SaveView(id) ==
    /\ id \notin vw.server \cup {r.id : r \in vw.asked} /\ Cardinality(vw.asked) < 2
    /\ vw' = Sent(vw, "save", id)

SelectView(id) ==
    /\ id \in vw.list
    /\ vw' = [vw EXCEPT !.chosen = id, !.raced = @ \/ vw.asked # {}]

RemoveView ==
    /\ Cardinality(vw.asked) < 2
    /\ vw' = Sent(vw, "remove", vw.chosen)

\* The entry removed from the list is the one selected when the answer comes.
ViewAnswered(r) ==
    /\ r \in vw.asked /\ (r.kind = "remove" => r.id \in vw.server)
    /\ vw' = [vw EXCEPT !.asked = @ \ {r},
                        !.server = IF r.kind = "save" THEN @ \cup {r.id} ELSE @ \ {r.id},
                        !.list = IF r.kind = "save" THEN @ \cup {r.id} ELSE @ \ {vw.chosen},
                        !.chosen = IF r.kind = "save" THEN @ ELSE 0]

ViewFails(r) ==
    /\ r \in vw.asked
    /\ vw' = [vw EXCEPT !.asked = @ \ {r}]

AddColumn(c) ==
    /\ Len(vc) < Cardinality(Columns)
    /\ vc' = Append(vc, c)

Picked(columns, marked) == [i \in 1..Cardinality(marked) |-> columns[SetToSortSeq(marked, <)[i]]]

\* The selected columns go before the column above the first of them.
MoveUp(columns, marked) ==
    LET p == Min(marked)
        rest == DOMAIN columns \ marked
        head == {i \in rest : i < p - 1}
    IN IF p = 1 THEN columns
       ELSE Picked(columns, head) \o Picked(columns, marked) \o Picked(columns, rest \ head)

MoveDown(columns, marked) ==
    LET p == Max(marked)
        rest == DOMAIN columns \ marked
        head == {i \in rest : i =< p + 1}
    IN IF p = Len(columns) THEN columns
       ELSE Picked(columns, head) \o Picked(columns, marked) \o Picked(columns, rest \ head)

MoveColumns(marked) ==
    /\ marked # {}
    /\ \/ vc' = MoveUp(vc, marked)
       \/ vc' = MoveDown(vc, marked)

RemoveColumns(marked) ==
    /\ marked # {}
    /\ vc' = Picked(vc, DOMAIN vc \ marked)

ViewsNext ==
    \/ \E id \in ViewIds : SaveView(id)
    \/ \E id \in ViewIds \cup {0} : SelectView(id)
    \/ RemoveView
    \/ \E r \in vw.asked : ViewAnswered(r) \/ ViewFails(r)

ColumnsNext ==
    \/ \E c \in Columns : AddColumn(c)
    \/ \E marked \in SUBSET DOMAIN vc : MoveColumns(marked) \/ RemoveColumns(marked)

-----------------------------------------------------------------------------
JobPagesInit ==
    /\ dp = PageLoaded(Min(Statuses))
    /\ rm = JobsLoaded(Jobs \cup Decisions, {})
    /\ cm = [verdict |-> NoSearch, attrs |-> NoSearch, shown |-> 0, total |-> 0,
             of |-> NoSearch, asked |-> {}, raced |-> FALSE, failed |-> FALSE]
    /\ vw = [list |-> {0}, server |-> {}, chosen |-> 0, asked |-> {}, raced |-> FALSE]
    /\ vc = <<>>

(* What a removal was for is gone when it reloads the page.  A comparison  *)
(* is searched by a cell or by attributes, never both; a request counted   *)
(* from results of its own search is for a page that search has, and used  *)
(* without haste and without failed requests the page makes no other.  A   *)
(* user has either the global role or a higher one of their own, never     *)
(* both; a row made under the highest global role has none to offer.  Used *)
(* without haste, the list of views is the server's.                       *)
JobPagesOK ==
    /\ rm.gone \cap rm.there = {}
    /\ \A r \in cm.asked :
           /\ NoSearch \in {r.verdict, r.attrs}
           /\ r.page = 1 \/ r.of = Searched(r) => r.page \in 1..SearchPages[Searched(r)]
           /\ r.page = 1 \/ r.of = Searched(r) \/ cm.raced \/ cm.failed
    /\ rf.free \cup DOMAIN rf.rows = RoleUsers /\ rf.free \cap DOMAIN rf.rows = {}
    /\ \A u \in DOMAIN rf.rows :
           IF rf.global = Highest THEN rf.rows[u] = NoRole ELSE rf.rows[u] > rf.global
    /\ (~vw.raced /\ vw.asked = {}) => vw.list = vw.server \cup {0}

(* Moving selected columns up or down neither loses nor doubles a column,  *)
(* and keeps the selected ones and the others each in their order.         *)
ColumnsKept ==
    LET places == [i \in DOMAIN vc |-> i]
    IN \A marked \in (SUBSET DOMAIN vc) \ {{}} :
           \A moved \in {MoveUp(places, marked), MoveDown(places, marked)} :
               /\ DOMAIN moved = DOMAIN vc /\ Range(moved) = DOMAIN vc
               /\ \A i, j \in DOMAIN moved :
                      (i < j /\ (moved[i] \in marked <=> moved[j] \in marked)) =>
                          moved[i] < moved[j]
=============================================================================
