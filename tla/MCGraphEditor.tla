--------------------------- MODULE MCGraphEditor ---------------------------
(* A small document: a group g1 with two connected vertices, and a vertex  *)
(* beside it.                                                              *)
EXTENDS GraphEditor

CONSTANTS r1, l1, r2, l2, g1, v1, w1, x1, n1, n2, e1, f1

(* The document as the operations of the graph build it. *)
MCDoc ==
    [EmptyDoc EXCEPT
        !.parent    = l1 :> r1 @@ g1 :> l1 @@ v1 :> g1 @@ w1 :> g1 @@ x1 :> l1 @@ e1 :> l1 @@ @,
        !.children  = r1 :> <<l1>> @@ l1 :> <<g1, x1, e1>> @@ g1 :> <<v1, w1>> @@ @,
        !.terminal  = e1 :> (TRUE :> v1 @@ FALSE :> x1) @@ @,
        !.edges     = v1 :> <<e1>> @@ x1 :> <<e1>> @@ @,
        !.id        = r1 :> 0 @@ l1 :> 1 @@ g1 :> 2 @@ v1 :> 3 @@ w1 :> 4 @@ x1 :> 5 @@ e1 :> 6 @@ @,
        !.cells     = 0 :> r1 @@ 1 :> l1 @@ 2 :> g1 @@ 3 :> v1 @@ 4 :> w1 @@ 5 :> x1 @@ 6 :> e1 @@ @,
        !.geometry  = g1 :> Geometry(0, 6) @@ v1 :> Geometry(0, 2) @@ w1 :> Geometry(3, 2)
                        @@ x1 :> Geometry(8, 2) @@ e1 :> EdgeGeometry @@ @,
        !.nextId    = 7,
        !.root      = r1,
        !.born      = {r1, l1, g1, v1, w1, x1, e1}]

MCInit == InitWith(MCDoc)

MCSpec == MCInit /\ [][Next]_vars

MCVertex == {g1, v1, w1, x1, n1, n2}

MCEdge == {e1, f1}

MCPicks == {{g1}, {v1}, {e1}, {v1, w1}, {v1, x1, e1}}

MCDrop == {g1, w1}

MCCell == {r1, l1, r2, l2} \cup MCVertex \cup MCEdge
=============================================================================
