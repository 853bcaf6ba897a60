------------------------------- MODULE MCPages -------------------------------
(***************************************************************************)
(* The scripts of Bridge's pages on small instances.  The pages are        *)
(* independent of each other, so a behaviour has one of them in use (part) *)
(* and the others as they are when loaded.                                 *)
(***************************************************************************)
EXTENDS TreeTable, TraceView, SourceView, FilesTree, JobPages, HierarchicalLayout

VARIABLE part

pagesVars == <<part, tt, st, tv, sv, ft, dp, rm, cm, rf, vw, vc, hl>>

MCParent == <<0, 1, 2, 2, 1, 5, 0, 7>>
MCShown == {{}, {1, 7}, {1, 2, 5}}

Line(t, s, b, c, lv) ==
    [type |-> t, scope |-> s, body |-> b, commented |-> c, level |-> lv, relevant |-> FALSE]

\* A call shown from the start, and one behind a note, with an action in it.
MCTrace ==
    << Line("function call", 1, 2, FALSE, 0),
       Line("declarations", 2, 3, FALSE, 0),
       Line("declaration", 3, 0, FALSE, 0),
       Line("note", 2, 0, FALSE, 1),
       Line("statement", 2, 0, TRUE, 0),
       Line("statement", 2, 0, FALSE, 0),
       Line("note", 2, 0, FALSE, 2),
       Line("function call", 2, 4, TRUE, 0),
       Line("declarations", 4, 6, FALSE, 0),
       Line("declaration", 6, 0, FALSE, 0),
       Line("action", 4, 5, FALSE, 0),
       Line("statement", 5, 0, FALSE, 0),
       Line("exit", 5, 0, FALSE, 0),
       Line("exit", 4, 0, FALSE, 0),
       Line("exit", 2, 0, FALSE, 0) >>

MCJobs == ("j" :> {"d1"}) @@ ("k" :> {})
MCSearchPages == ("v1" :> 3) @@ ("v2" :> 1) @@ ("a1" :> 2)

\* DOT texts with cycles, parallel links, loops, links over several ranks and
\* from unknown nodes, in one hierarchy and in several that are taken over.
MCPairs == (1..5) \X (1..5)
MCForward == {p \in MCPairs : p[1] < p[2]}
MCDotData ==
    {[nodes |-> <<1, 2, 3, 4, 5>>, links |-> <<<<1, 2>>, <<2, 3>>, p, q, r, s>>] :
         p \in {<<3, 4>>, <<1, 4>>, <<3, 1>>}, q \in MCForward,
         r \in {<<1, 3>>, <<2, 4>>, <<2, 5>>, <<3, 5>>}, s \in {<<5, 1>>, <<4, 5>>}} \cup
    {[nodes |-> <<1, 2, 3, 4, 5, 6>>, links |-> <<<<1, 5>>, <<2, 4>>, <<1, 6>>, p, q, r, <<7, 1>>>>] :
         p \in {<<3, 4>>, <<3, 5>>}, q \in MCPairs, r \in {<<2, 5>>, <<4, 6>>}}
MCNodeWidth == <<80, 120, 40, 80, 60, 50>>

\* Everything but a part, left as it is.
Only(p, rest) == part = p /\ UNCHANGED <<part, rest>>

MCInit ==
    /\ part \in 1..11
    /\ IF part = 1 THEN TreeInit ELSE tt = LoadedTable({}) /\ st = OpenFirstLink
    /\ TraceInit
    /\ IF part = 3 THEN SourceInit ELSE sv = SourcePage(CHOOSE p \in Places : TRUE)
    /\ IF part = 4 THEN FilesInit ELSE ft = "not loaded"
    /\ JobPagesInit
    /\ IF part = 8 THEN RolesInit ELSE rf = InitializeRoles(Min(Roles), <<>>)
    /\ LayoutInit

MCNext ==
    \/ Only(1, <<tv, sv, ft, dp, rm, cm, rf, vw, vc, hl>>) /\ TreeNext
    \/ Only(2, <<tt, st, sv, ft, dp, rm, cm, rf, vw, vc, hl>>) /\ TraceNext
    \/ Only(3, <<tt, st, tv, ft, dp, rm, cm, rf, vw, vc, hl>>) /\ SourceNext
    \/ Only(4, <<tt, st, tv, sv, dp, rm, cm, rf, vw, vc, hl>>) /\ FilesNext
    \/ Only(5, <<tt, st, tv, sv, ft, rm, cm, rf, vw, vc, hl>>) /\ DecisionNext
    \/ Only(6, <<tt, st, tv, sv, ft, dp, cm, rf, vw, vc, hl>>) /\ RemovalNext
    \/ Only(7, <<tt, st, tv, sv, ft, dp, rm, rf, vw, vc, hl>>) /\ ComparisonNext
    \/ Only(8, <<tt, st, tv, sv, ft, dp, rm, cm, vw, vc, hl>>) /\ RolesNext
    \/ Only(9, <<tt, st, tv, sv, ft, dp, rm, cm, rf, vc, hl>>) /\ ViewsNext
    \/ Only(10, <<tt, st, tv, sv, ft, dp, rm, cm, rf, vw, hl>>) /\ ColumnsNext
    \/ Only(11, <<tt, st, tv, sv, ft, dp, rm, cm, rf, vw, vc>>) /\ LayoutNext

\* The page's timer runs and the server answers: nothing else is assumed.
MCFairness ==
    LET rest == <<tt, st, tv, sv, ft, rm, cm, rf, vw, vc, hl>>
    IN /\ WF_pagesVars(Only(5, rest) /\ Tick)
       /\ \A kind \in {"results", "progress", "status"} :
              WF_pagesVars(Only(5, rest) /\ PollAnswered(kind))

MCSpec == MCInit /\ [][MCNext]_pagesVars /\ MCFairness

(* Tables and traces show exactly what their expanded rows and opened      *)
(* scopes say: RowsFollowTree for treetable.js and coverage.js,            *)
(* LinesInOpenScopes for ETV.js, each where its page is in use.            *)
PagesShow ==
    /\ part = 1 => RowsFollowTree
    /\ part = 2 => LinesInOpenScopes

(* The source panel and the editor of a version's files hold the file they *)
(* name: PanelConsistent for source.js and coverage.js, EditorConsistent   *)
(* for decisionFilesEdit.js, each where its page is in use.                *)
FilesShown ==
    /\ part = 3 => PanelConsistent
    /\ part = 4 => EditorConsistent

(* Removal, comparison, roles, views and columns agree with what was asked *)
(* of them: JobPagesOK and ColumnsKept (jobtree.js, comparison.js,         *)
(* jobRolesEdit.js, bridge.js).                                            *)
RequestsKept ==
    /\ part \in 5..9 => JobPagesOK
    /\ part = 10 => ColumnsKept
=============================================================================
