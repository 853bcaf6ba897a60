------------------------------ MODULE TreeTable ------------------------------
(***************************************************************************)
(* The two expandable tables of Bridge's pages.  treetable.js turns a      *)
(* flat table of jobs, whose rows name their parent rows, into a tree;     *)
(* coverage.js does the same for the table of coverage statistics.  Both   *)
(* keep one flag per row (the icon of the first, the class tg-expanded of  *)
(* the second) and show and hide rows one by one, so whether the rows      *)
(* shown are those of the tree is a matter of how the two loops walk the   *)
(* table.                                                                  *)
(*                                                                         *)
(* Rows are numbered in the order of the page, which the templates make a  *)
(* preorder of the tree; Parent[r] = 0 for a row without parent.           *)
(***************************************************************************)
EXTENDS Integers, Sequences, SequencesExt, FiniteSets, FiniteSetsExt

CONSTANTS
    Parent,     \* the parent row of every row of the table
    Shown0      \* the sets of rows the server may mark "tr-show"

VARIABLES tt, st

treeVars == <<tt, st>>

Rows == 1..Len(Parent)

Kids(r) == {x \in Rows : Parent[x] = r}

\* The rows below r in the page, in order.
Below(r) == [i \in 1..(Len(Parent) - r) |-> r + i]

-----------------------------------------------------------------------------
(* treetable.js: an icon is expanded, collapsed, or, on a row without      *)
(* deeper next row, made invisible and stripped of its class, after which  *)
(* neither comparison of the click handler matches.                        *)

\* The rows of a table just loaded: hidden when the parent is not expanded.
LoadedTable(expanded) ==
    [open  |-> expanded,
     shown |-> {r \in Rows : Parent[r] = 0 \/ Parent[r] \in expanded}]

\* A walk that stops at the first row that is not a child of r itself.
Hide_Bug(r) ==
    LET step(acc, x) ==
            IF ~acc.stop /\ Parent[x] = r
              THEN [acc EXCEPT !.ids = @ \cup {x}]
              ELSE [acc EXCEPT !.stop = TRUE]
    IN FoldLeft(step, [ids |-> {r}, stop |-> FALSE], Below(r)).ids \ {r}

Hide(r) ==
    LET step(acc, x) ==
            IF ~acc.stop /\ Parent[x] \in acc.ids
              THEN [acc EXCEPT !.ids = @ \cup {x}]
              ELSE [acc EXCEPT !.stop = TRUE]
    IN FoldLeft(step, [ids |-> {r}, stop |-> FALSE], Below(r)).ids \ {r}

Show(r, open) ==
    LET step(acc, x) ==
            IF Parent[x] \in acc.ids
              THEN [shown |-> acc.shown \cup {x},
                    ids   |-> IF x \in open THEN acc.ids \cup {x} ELSE acc.ids]
              ELSE acc
    IN FoldLeft(step, [shown |-> {}, ids |-> {r}], Below(r)).shown

ClickExpander(r) ==
    /\ r \in tt.shown /\ Kids(r) # {}
    /\ tt' = IF r \in tt.open
               THEN [open |-> tt.open \ {r}, shown |-> tt.shown \ Hide(r)]
               ELSE [open |-> tt.open \cup {r}, shown |-> tt.shown \cup Show(r, tt.open)]
    /\ UNCHANGED st

-----------------------------------------------------------------------------
(* coverage.js: collapsing a directory collapses the expanded ones in it,  *)
(* expanding one with shift pressed expands everything in it.              *)

RECURSIVE ExpandStatTree(_, _, _)
ExpandStatTree(s, r, chain) ==
    LET s1 == [open |-> s.open \cup {r}, shown |-> s.shown \cup Kids(r)]
    IN IF chain
         THEN FoldSet(LAMBDA k, acc : ExpandStatTree(acc, k, chain),
                      s1, {k \in Kids(r) : Kids(k) # {}})
         ELSE s1

RECURSIVE CollapseStatTree(_, _)
CollapseStatTree(s, r) ==
    LET s1 == FoldSet(LAMBDA k, acc : CollapseStatTree(acc, k), s, Kids(r) \cap s.open)
    IN [open |-> s1.open \ {r}, shown |-> s1.shown \ Kids(r)]

ClickDirectory(r, shift) ==
    /\ r \in st.shown /\ Kids(r) # {}
    /\ st' = IF r \in st.open THEN CollapseStatTree(st, r) ELSE ExpandStatTree(st, r, shift)
    /\ UNCHANGED tt

\* The page opens the directories down to the first file of the table.
OpenFirstLink ==
    LET upTo == {r \in Rows : \A x \in 1..r : Kids(x) # {}}
        roots == [open |-> {}, shown |-> Kids(0)]
    IN FoldLeft(LAMBDA s, r : ExpandStatTree(s, r, FALSE), roots, SetToSortSeq(upTo, <))

-----------------------------------------------------------------------------
TreeInit ==
    /\ \E expanded \in Shown0 : tt = LoadedTable(expanded)
    /\ st = OpenFirstLink

TreeNext ==
    \/ \E r \in Rows : ClickExpander(r)
    \/ \E r \in Rows, shift \in BOOLEAN : ClickDirectory(r, shift)

RECURSIVE Above(_)
Above(r) == IF Parent[r] = 0 THEN {} ELSE {Parent[r]} \cup Above(Parent[r])

(* Whatever rows were expanded and collapsed, and in whatever order, the   *)
(* rows shown are exactly those all of whose ancestors are expanded, in    *)
(* the table of jobs, where an inner row stays expanded while its parent   *)
(* is collapsed, and in the statistics, where it does not.                 *)
RowsFollowTree ==
    /\ \A r \in Rows : r \in tt.shown <=> Above(r) \subseteq tt.open
    /\ \A r \in Rows : r \in st.shown <=> Above(r) \subseteq st.open
    /\ \A r \in st.open : Above(r) \subseteq st.open
=============================================================================
