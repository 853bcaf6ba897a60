------------------------- MODULE HierarchicalLayout -------------------------
(***************************************************************************)
(* The layout of a report's graph.  report-graph.js replaces the graph on  *)
(* the page by that of a DOT text and runs mxHierarchicalLayout over it:   *)
(* the vertices are collected into hierarchies (mxHierarchicalLayout), and *)
(* each hierarchy gets an internal model without cycles                    *)
(* (mxGraphHierarchyModel, mxMinimumCycleRemover), ranks, an order within  *)
(* each rank (mxMedianHybridCrossingReduction) and coordinates             *)
(* (mxCoordinateAssignment).  Every stage is an action.                    *)
(*                                                                         *)
(* The graph is flat and all of it visible, as report-graph.js makes it.   *)
(* Coordinates are whole pixels: where the code divides, the model rounds  *)
(* down.  Array.sort is stable, also for WeightedCellSorter.compare, which *)
(* never answers 0.                                                        *)
(*                                                                         *)
(* A slot <<kind, id, layer>> is a place in a rank: a vertex at its rank   *)
(* or a long edge at one of the ranks it crosses.                          *)
(***************************************************************************)
EXTENDS Integers, Sequences, SequencesExt, FiniteSets, FiniteSetsExt, LayoutSeqs

CONSTANTS
    DotData,        \* the DOT texts: [nodes, links], links naming nodes or not
    NodeWidth,      \* the width of a node's vertex, an even number
    Loads           \* how many times the graph on the page may be replaced

VARIABLE hl

CountIf(S) == Cardinality(S)

-----------------------------------------------------------------------------
(* report-graph.js *)

\* Links of unknown nodes are left out; a node named again is the same node.
UpdateGraph(data) ==
    [verts |-> data.nodes,
     edges |-> SelectSeq(data.links, LAMBDA l : {l[1], l[2]} \subseteq Range(data.nodes))]

Src(g, e) == g.edges[e][1]
Trg(g, e) == g.edges[e][2]

-----------------------------------------------------------------------------
(* mxHierarchicalLayout: the hierarchies.  A traversal that meets a vertex *)
(* of another hierarchy takes that hierarchy over.                         *)

GetEdges(g, v) ==
    SelectSeq(Upto(Len(g.edges)), LAMBDA e : v \in {Src(g, e), Trg(g, e)})

GetEdgesBetween(g, v, w, directed) ==
    SelectSeq(GetEdges(g, v), LAMBDA e : \/ Src(g, e) = v /\ Trg(g, e) = w
                                         \/ ~directed /\ Src(g, e) = w /\ Trg(g, e) = v)

\* Vertices with outgoing edges only or else the first with most of them.
FindRoots(g, filled) ==
    LET own == SelectSeq(g.verts, LAMBDA v : v \in filled)
        out(v) == CountIf({e \in Range(GetEdges(g, v)) : Src(g, e) = v})
        in(v) == Len(GetEdges(g, v)) - out(v)
        roots == SelectSeq(own, LAMBDA v : in(v) = 0 /\ out(v) > 0)
        best == SortedBy(own, LAMBDA v : in(v) - out(v))
    IN IF roots = <<>> THEN <<best[1]>> ELSE roots

RECURSIVE Traverse_Bug(_, _, _, _)
Traverse_Bug(g, s, v, c) ==
    IF v \notin s.all /\ v \in s.filled
      THEN LET edges == GetEdges(g, v)
               other(e) == IF Src(g, e) = v THEN Trg(g, e) ELSE Src(g, e)
               net(n) == CountIf({e \in Range(edges) : other(e) = n /\ Src(g, e) = v})
                           - CountIf({e \in Range(edges) : other(e) = n /\ Src(g, e) # v})
               step(acc, e) == IF Src(g, e) = v /\ net(Trg(g, e)) >= 0
                                 THEN Traverse_Bug(g, acc, Trg(g, e), c) ELSE acc
           IN Fold(step, [s EXCEPT !.all = @ \cup {v}, !.filled = @ \ {v},
                                       !.comps[c] = Append(@, v)], edges)
    ELSE s

RECURSIVE Traverse(_, _, _, _)
Traverse(g, s, v, c) ==
    IF v \notin s.all /\ v \in s.filled
      THEN LET edges == GetEdges(g, v)
               other(e) == IF Src(g, e) = v THEN Trg(g, e) ELSE Src(g, e)
               net(n) == CountIf({e \in Range(edges) : other(e) = n /\ Src(g, e) = v})
                           - CountIf({e \in Range(edges) : other(e) = n /\ Src(g, e) # v})
               step(acc, e) == IF Src(g, e) = v /\ net(Trg(g, e)) >= 0
                                 THEN Traverse(g, acc, Trg(g, e), c) ELSE acc
           IN Fold(step, [s EXCEPT !.all = @ \cup {v}, !.filled = @ \ {v},
                                       !.comps[c] = Append(@, v)], edges)
    ELSE LET found == {i \in DOMAIN s.comps : v \in Range(s.comps[i])} \ {c}
         IN IF v \in Range(s.comps[c]) \/ found = {} THEN s
            ELSE LET i == Min(found)
                 IN [s EXCEPT !.comps[c] = @ \o s.comps[i], !.comps[i] = <<>>]

\* A hierarchy taken over is empty until the end, where it is left out.
RECURSIVE Collect(_, _)
Collect(g, s) ==
    LET roots == FindRoots(g, s.filled)
        step(acc, r) == Traverse(g, [acc EXCEPT !.comps = Append(@, <<>>)], r,
                                 Len(acc.comps) + 1)
        s1 == Fold(step, s, roots)
    IN IF s.filled = {} THEN [s EXCEPT !.comps = SelectSeq(@, LAMBDA c : c # <<>>)]
       ELSE Collect(g, [s1 EXCEPT !.roots = @ \o roots])

-----------------------------------------------------------------------------
(* mxGraphHierarchyModel: one internal edge for all edges between two      *)
(* vertices, in the direction of the majority.                             *)

CreateInternalCells(g, verts) ==
    LET edge(m, v, e) ==
            LET w == Trg(g, e)
                all == GetEdgesBetween(g, v, w, FALSE)
            IN IF w = v \/ all[1] \in m.mapped
                   \/ 2 * Len(GetEdgesBetween(g, v, w, TRUE)) < Len(all) THEN m
               ELSE [m EXCEPT !.mapped = @ \cup Range(all),
                              !.ie = Append(@, [real |-> all, src |-> v, trg |-> w, rev |-> FALSE,
                                                top |-> -1, low |-> -1]),
                              !.out[v] = Append(@, Len(m.ie) + 1)]
        vertex(m, v) == Fold(LAMBDA acc, e : edge(acc, v, e), m, GetEdges(g, v))
    IN Fold(vertex, [verts |-> verts, mapped |-> {}, ie |-> <<>>,
                         out |-> [v \in Range(verts) |-> <<>>],
                         in |-> [v \in Range(verts) |-> <<>>],
                         path |-> [v \in Range(verts) |-> <<>>], seen |-> {},
                         rank |-> <<>>, maxRank |-> 0, ranks |-> <<>>, ranked |-> {}], verts)

\* The targets of the internal edges, once all vertices are there.
CreateModel(g, verts) ==
    LET m == CreateInternalCells(g, verts)
        edge(acc, e) == [acc EXCEPT !.in[acc.ie[e].trg] = Append(@, e)]
    IN Fold(LAMBDA acc, v : Fold(edge, acc, acc.out[v]), m, verts)

-----------------------------------------------------------------------------
(* mxMinimumCycleRemover: a depth first search that gives every vertex the *)
(* path it was found by (hashCode) and inverts edges to an ancestor.  The  *)
(* second pass is given an object without length and does nothing.         *)

IsAncestor(m, v, parent) == IsStrictPrefix(m.path[v], m.path[parent])

Invert(m, e, parent, v) ==
    [m EXCEPT !.ie[e].src = v, !.ie[e].trg = parent, !.ie[e].rev = ~@,
              !.out[parent] = Remove(@, e), !.in[parent] = Append(@, e),
              !.in[v] = Remove(@, e), !.out[v] = Append(@, e)]

RECURSIVE ExtendedDfs(_, _, _, _, _)
ExtendedDfs(m, parent, v, e, n) ==
    LET m1 == IF e = 0 \/ m.path[v] # <<>> THEN m
              ELSE [m EXCEPT !.path[v] = Append(m.path[parent], n)]
        m2 == IF e # 0 /\ IsAncestor(m1, v, parent) THEN Invert(m1, e, parent, v) ELSE m1
        out == m2.out[v]
        step(acc, i) == ExtendedDfs(acc, v, acc.ie[out[i]].trg, out[i], i)
    IN IF v \in m.seen THEN m2
       ELSE Fold(step, [m2 EXCEPT !.seen = @ \cup {v}], Upto(Len(out)))

OwnRoots(m, roots) == SelectSeq(roots, LAMBDA r : r \in Range(m.verts))

\* A root found on the way from an earlier one gets its path anew.
CycleStage(m, roots) ==
    LET step(acc, i) ==
            IF roots[i] \notin Range(m.verts) THEN acc
            ELSE ExtendedDfs([acc EXCEPT !.path[roots[i]] = <<0, i>>], 0, roots[i], 0, 0)
    IN Fold(step, m, Upto(Len(roots)))

-----------------------------------------------------------------------------
(* mxGraphHierarchyModel: ranks.  A vertex is ranked when all edges into   *)
(* it are scanned, one below the lowest of their sources; then the roots   *)
(* are lowered to just above the highest of their targets.                 *)

ScanStart == 1000       \* SOURCESCANSTARTRANK

RECURSIVE RankLoop(_, _)
RankLoop(m, s) ==
    IF s.queue = <<>> THEN s
    ELSE LET v == Head(s.queue)
             layer == Min({ScanStart} \cup {s.t[m.ie[e].src] - 1 : e \in Range(m.in[v])})
             mark(acc, e) ==
                 LET w == m.ie[e].trg
                     acc1 == [acc EXCEPT !.scanned = @ \cup {e}]
                 IN IF acc.t[w] # -1 THEN acc1
                    ELSE [acc1 EXCEPT !.t[w] = -2, !.queue = Append(@, w)]
             rest == Append(Tail(s.queue), v)
         IN IF Range(m.in[v]) \subseteq s.scanned
              THEN LET s1 == Fold(mark, [s EXCEPT !.t[v] = layer], m.out[v])
                   IN RankLoop(m, [s1 EXCEPT !.queue = Tail(@)])
              ELSE IF Len(rest) = 1 THEN s ELSE RankLoop(m, [s EXCEPT !.queue = rest])

InitialRank(m, roots) ==
    LET own == OwnRoots(m, roots)
        t0 == RankLoop(m, [queue |-> own, scanned |-> {},
                           t |-> [v \in Range(m.verts) |-> -1]]).t
        least == Min(Range(t0))
        lower(t, r) == IF m.out[r] = <<>> THEN t
                       ELSE [t EXCEPT ![r] = Max({t[m.ie[e].trg] + 1 : e \in Range(m.out[r])})]
    IN [m EXCEPT !.rank = Fold(lower, [v \in DOMAIN t0 |-> t0[v] - least], own),
                 !.maxRank = ScanStart - least]

\* Every vertex takes the next place of its rank, a long edge one in each rank it crosses.
RECURSIVE RankDfs(_, _, _, _)
RankDfs(m, parent, v, e) ==
    LET r == m.rank[v]
        new == v \notin m.ranked
        m1 == IF new THEN [m EXCEPT !.ranked = @ \cup {v}, !.ranks[r] = Append(@, <<"v", v, r>>)]
              ELSE m
        long == e # 0 /\ m.rank[parent] - r > 1
        m2 == IF ~long THEN m1
              ELSE [m1 EXCEPT !.ie[e].top = m.rank[parent], !.ie[e].low = r,
                              !.ranks = [i \in DOMAIN @ |->
                                             IF i > r /\ i < m.rank[parent]
                                               THEN Append(@[i], <<"e", e, i>>) ELSE @[i]]]
    IN IF new THEN Fold(LAMBDA acc, x : RankDfs(acc, v, m.ie[x].trg, x), m2, m.out[v])
       ELSE m2

FixRanks(m, roots) ==
    Fold(LAMBDA acc, r : RankDfs(acc, 0, r, 0),
             [m EXCEPT !.ranks = [i \in 0..m.maxRank |-> <<>>]], OwnRoots(m, roots))

LayeringStage(m, roots) == FixRanks(InitialRank(m, roots), roots)

-----------------------------------------------------------------------------
(* The cells next to a slot in the rank above and in the rank below.       *)

NextLayer(m, s) ==
    LET up == s[3] + 1
        over(e) == IF m.ie[e].top \in {-1, up} THEN <<"v", m.ie[e].src, up>> ELSE <<"e", e, up>>
    IN IF s[1] = "v" THEN [i \in DOMAIN m.in[s[2]] |-> over(m.in[s[2]][i])] ELSE <<over(s[2])>>

PreviousLayer(m, s) ==
    LET down == s[3] - 1
        under(e) == IF m.ie[e].low \in {-1, down} THEN <<"v", m.ie[e].trg, down>>
                    ELSE <<"e", e, down>>
    IN IF s[1] = "v" THEN [i \in DOMAIN m.out[s[2]] |-> under(m.out[s[2]][i])]
       ELSE <<under(s[2])>>

Slots(m) == UNION {Range(m.ranks[i]) : i \in DOMAIN m.ranks}

-----------------------------------------------------------------------------
(* mxMedianHybridCrossingReduction.  pos[s] is the place of a slot in its  *)
(* rank, from 0.  Crossings are counted with an accumulator tree.          *)

Places0(m) == [s \in Slots(m) |-> PlaceOf(s, m.ranks[s[3]]) - 1]

InOrder(m, pos, i) == SortedBy(m.ranks[i], LAMBDA s : pos[s])

At(pos, cells) == [i \in DOMAIN cells |-> pos[cells[i]]]

RECURSIVE Climb_Bug(_, _)
Climb_Bug(a, i) ==
    IF i = 0 THEN a
    ELSE LET up == (i - 1) \div 2
         IN Climb_Bug([tree |-> [a.tree EXCEPT ![up] = @ + 1],
                       total |-> a.total + (IF i % 2 = 1 THEN a.tree[i] ELSE 0)], up)

RECURSIVE Climb(_, _)
Climb(a, i) ==
    IF i = 0 THEN a
    ELSE LET up == (i - 1) \div 2
         IN Climb([tree |-> [a.tree EXCEPT ![up] = @ + 1],
                   total |-> a.total + (IF i % 2 = 1 THEN a.tree[i + 1] ELSE 0)], up)

RankCrossing(m, pos, i) ==
    LET ends(s) == SortedBy(At(pos, PreviousLayer(m, s)), LAMBDA x : x)
        indices == Fold(LAMBDA acc, s : acc \o ends(s), <<>>, InOrder(m, pos, i))
        leaves == Min({p \in {1, 2, 4, 8, 16} : p >= Len(m.ranks[i - 1])})
        step(a, x) == Climb([a EXCEPT !.tree[x + leaves - 1] = @ + 1], x + leaves - 1)
    IN Fold(step, [tree |-> [k \in 0..(2 * leaves - 2) |-> 0], total |-> 0], indices).total

CalculateCrossings(m, pos) ==
    Fold(LAMBDA acc, i : acc + RankCrossing(m, pos, i), 0, Upto(m.maxRank))

\* One sweep over a rank, swapping neighbours whose edges cross less swapped.
TransposeRank(m, a, i, nudge) ==
    LET cells == InOrder(m, a.pos, i)
        cross(b, l, r) ==
            LET above(x) == At(b.pos, NextLayer(m, x))
                below(x) == At(b.pos, PreviousLayer(m, x))
                pairs(p, q) == CountIf({<<x, y>> \in (DOMAIN p) \X (DOMAIN q) : p[x] > q[y]})
            IN pairs(above(l), above(r)) + pairs(below(l), below(r))
        step(b, j) ==
            LET l == b.left
                r == cells[j + 1]
                now == cross(b, l, r)
                then == cross(b, r, l)
            IN IF then < now \/ (then = now /\ nudge)
                 THEN [b EXCEPT !.pos = [@ EXCEPT ![l] = b.pos[r], ![r] = b.pos[l]],
                                !.improved = @ \/ ~nudge]
                 ELSE [b EXCEPT !.left = r]
    IN IF cells = <<>> THEN a
       ELSE Fold(step, [a EXCEPT !.left = cells[1]], Upto(Len(cells) - 1))

RECURSIVE Transpose(_, _, _, _)
Transpose(m, pos, iteration, count) ==
    LET nudge == iteration % 2 = 1 /\ count % 2 = 1
        a == Fold(LAMBDA acc, i : TransposeRank(m, acc, i, nudge),
                 [pos |-> pos, improved |-> FALSE, left |-> <<>>], Rising(0, m.maxRank))
    IN IF a.improved /\ count < 10 THEN Transpose(m, a.pos, iteration, count + 1) ELSE a.pos

\* The weighted median, times 5040 so that it is whole.
MedianValue(pos, cells) ==
    LET v == SortedBy(At(pos, cells), LAMBDA x : x)
        n == Len(v)
        p == n \div 2
        l == v[p] - v[1]
        r == v[n] - v[p + 1]
    IN IF n % 2 = 1 THEN 5040 * v[p + 1]
       ELSE IF n = 2 THEN 2520 * (v[1] + v[2])
       ELSE (5040 * (v[p] * r + v[p + 1] * l)) \div (l + r)

MedianRank(m, pos, nested, i, down) ==
    LET next(s) == IF down THEN NextLayer(m, s) ELSE PreviousLayer(m, s)
        movable == SelectSeq(nested[i], LAMBDA s : next(s) # <<>>)
        fixed == {pos[s] : s \in Range(nested[i]) \ Range(movable)}
        sorted == SortedBy(movable, LAMBDA s : MedianValue(pos, next(s)))
        free == SetToSortSeq((0..(Len(nested[i]) - 1)) \ fixed, <)
    IN Fold(LAMBDA acc, k : [acc EXCEPT ![sorted[k]] = free[k]], pos, Upto(Len(sorted)))

WeightedMedian(m, pos, nested, iteration) ==
    LET down == iteration % 2 = 0
        ranks == IF down THEN Falling(m.maxRank - 1, 0) ELSE Upto(m.maxRank - 1)
    IN Fold(LAMBDA acc, i : MedianRank(m, acc, nested, i, down), pos, ranks)

\* The start of the sweeps: idle counts those that did not help.
CrossingStart(m) ==
    LET pos == Places0(m)
    IN [pos |-> pos, nested |-> m.ranks, best |-> CalculateCrossings(m, pos), idle |-> 0,
        iteration |-> 0]

SweepsDone(s) == s.iteration >= 24 \/ s.idle >= 2 \/ (s.best = 0 /\ s.iteration > 0)

\* After a sweep: without improvement the places go back to those of the first order.
CrossingSweep(m, s, moved) ==
    LET crossings == CalculateCrossings(m, moved)
    IN IF crossings < s.best
         THEN [pos |-> moved, best |-> crossings, idle |-> 0, iteration |-> s.iteration + 1,
               nested |-> [i \in DOMAIN m.ranks |-> InOrder(m, moved, i)]]
         ELSE [s EXCEPT !.idle = @ + 1, !.pos = Places0(m), !.iteration = @ + 1]

-----------------------------------------------------------------------------
(* mxCoordinateAssignment.  t[s] is the horizontal middle of a slot while  *)
(* it is being tuned (the general purpose variable), x[s] the best found.  *)

Spacing == 30           \* intraCellSpacing
ParallelSpacing == 10   \* parallelEdgeSpacing
RankSpacing == 60       \* interRankCellSpacing, as report-graph.js sets it
HierarchySpacing == 60  \* interHierarchySpacing
NodeHeight == 30        \* as report-graph.js sizes every vertex
EdgeSeparation == 5     \* prefHozEdgeSep
JettyStep == 2          \* prefVertEdgeOff
MinJetty == 12          \* minEdgeJetty
TuneRounds == 8         \* maxIterations

Width(m, s) == IF s[1] = "v" THEN NodeWidth[s[2]]
               ELSE (Len(m.ie[s[2]].real) - 1) * ParallelSpacing

RankWidth(m, i) == Fold(LAMBDA acc, s : acc + Width(m, s) + Spacing, 0, m.ranks[i])

\* Every rank is set out from left to right, in the middle of the widest one.
InitialCoords(m, initialX) ==
    LET widest == Max({RankWidth(m, i) : i \in DOMAIN m.ranks})
        start(i) == initialX + (widest - RankWidth(m, i)) \div 2
        before(s) == LET rank == m.ranks[s[3]]
                     IN Fold(LAMBDA acc, q : acc + Width(m, q) + Spacing, 0,
                                 SubSeq(rank, 1, PlaceOf(s, rank) - 1))
    IN [s \in Slots(m) |-> start(s[3]) + before(s) + Width(m, s) \div 2]

MedianX(t, cells) ==
    LET v == SortedBy(At(t, cells), LAMBDA c : c)
        n == Len(v)
    IN IF n = 0 THEN 0 ELSE IF n % 2 = 1 THEN v[n \div 2 + 1]
       ELSE (v[n \div 2] + v[n \div 2 + 1]) \div 2

Gap(m, l, r) == Width(m, l) \div 2 + Spacing + Width(m, r) \div 2

\* Where minNode moves a slot: to the median of its neighbours, or next to a neighbour in the way.
Toward(m, t, s, median) ==
    LET rank == m.ranks[s[3]]
        k == PlaceOf(s, rank)
        left == t[rank[k - 1]] + Gap(m, rank[k - 1], s)
        right == t[rank[k + 1]] - Gap(m, s, rank[k + 1])
    IN IF median < t[s] - 1
         THEN IF k = 1 \/ left < median THEN median
              ELSE IF left < t[s] - 1 THEN left ELSE t[s]
       ELSE IF median > t[s] + 1
         THEN IF k = Len(rank) \/ right > median THEN median
              ELSE IF right > t[s] + 1 THEN right ELSE t[s]
       ELSE t[s]

MinNodeMove_Bug(m, t, s) ==
    LET cells == NextLayer(m, s) \o PreviousLayer(m, s)
    IN IF cells = <<>> THEN t[s] ELSE MedianX(t, cells)

MinNodeMove(m, t, s) ==
    LET next == NextLayer(m, s)
        prev == PreviousLayer(m, s)
        n == Len(next) + Len(prev)
    IN Toward(m, t, s, IF n = 0 THEN t[s]
                       ELSE (MedianX(t, next) * Len(next) + MedianX(t, prev) * Len(prev)) \div n)

\* A long edge is put back into the work list at its highest slot only.
Wrapper(m, s) == IF s[1] = "v" THEN s ELSE <<"e", s[2], m.ie[s[2]].top - 1>>

\* A slot that moved wakes its neighbours.
MinNodeStep(m, a, s, to) ==
    LET wake(b, c) == LET w == Wrapper(m, c)
                      IN IF w \in b.visited THEN b
                         ELSE [b EXCEPT !.visited = @ \cup {w}, !.queue = Append(@, w)]
        a1 == [a EXCEPT !.t[s] = to, !.queue = Tail(@), !.tries = @ - 1]
    IN IF to = a.t[s] THEN a1
       ELSE Fold(wake, a1, NextLayer(m, s) \o PreviousLayer(m, s))

RECURSIVE MinNodeLoop(_, _)
MinNodeLoop(m, a) ==
    IF a.queue = <<>> \/ a.tries < 0 THEN a.t
    ELSE LET s == Head(a.queue)
         IN MinNodeLoop(m, [MinNodeStep(m, a, s, MinNodeMove(m, a.t, s))
                               EXCEPT !.visited = @ \ {s}])

MinNode(m, t) ==
    LET all == Fold(LAMBDA acc, i : acc \o m.ranks[i], <<>>, Rising(0, m.maxRank))
    IN MinNodeLoop(m, [t |-> t, queue |-> all, visited |-> Range(all), tries |-> 10 * Len(all)])

WeightedValue(s, cells) ==
    Fold(LAMBDA acc, c : acc + (IF s[1] # c[1] THEN 2 ELSE IF s[1] = "v" THEN 1 ELSE 8),
             0, cells)

\* The map from slots to their entries has one key for all long edges.
Entry(rank, s) == IF s[1] = "v" THEN s ELSE Last(SelectSeq(rank, LAMBDA q : q[1] = "e"))

\* The nearest slot on a side whose entry is done, and the room for those before it.
Limit(m, b, s, side) ==
    LET rank == m.ranks[s[3]]
        near == IF side > 0 THEN SubSeq(rank, PlaceOf(s, rank) + 1, Len(rank))
                ELSE Reverse(SubSeq(rank, 1, PlaceOf(s, rank) - 1))
        pass(c, q) ==
            IF c.found THEN c
            ELSE IF q \in b.done
              THEN [c EXCEPT !.found = TRUE, !.at = b.t[q] - side * (Gap(m, q, s) + c.room)]
              ELSE [c EXCEPT !.room = @ + Width(m, q) + Spacing]
        step(c, q) == pass(c, Entry(rank, q))
    IN Fold(step, [found |-> FALSE, room |-> 0, at |-> side * 1000000], near).at

Between(median, left, right) ==
    IF median >= left /\ median =< right THEN median ELSE IF median < left THEN left ELSE right

Moved(b, s, median, to) ==
    [b EXCEPT !.t[s] = to, !.done = @ \cup {s},
              !.delta = @ + (IF to > median THEN to - median ELSE median - to)]

(* The slots of a rank in order of weight, each to the median of its       *)
(* neighbours within the limits of the slots moved before.                 *)
RankMedianPosition(m, a, i, down) ==
    LET next(s) == IF down THEN NextLayer(m, s) ELSE PreviousLayer(m, s)
        order == SortedBy(m.ranks[i], LAMBDA s : WeightedValue(s, next(s)))
        move(b, s) ==
            LET median == IF next(s) = <<>> THEN b.t[s] ELSE MedianX(b.t, next(s))
            IN Moved(b, s, median, Between(median, Limit(m, b, s, -1), Limit(m, b, s, 1)))
    IN Fold(move, [a EXCEPT !.done = {}], order)

MedianPos(m, a, k) ==
    IF k % 2 = 0
      THEN Fold(LAMBDA acc, i : RankMedianPosition(m, acc, i, TRUE), a, Falling(m.maxRank - 1, 0))
      ELSE Fold(LAMBDA acc, i : RankMedianPosition(m, acc, i, FALSE), a, Rising(1, m.maxRank - 1))

RepositionValid(m, t, s, position) ==
    LET rank == m.ranks[s[3]]
        k == PlaceOf(s, rank)
    IN IF position < t[s]
         THEN k = 1 \/ t[rank[k - 1]] + Gap(m, rank[k - 1], s) =< position
       ELSE IF position > t[s]
         THEN k = Len(rank) \/ t[rank[k + 1]] - Gap(m, s, rank[k + 1]) >= position
       ELSE TRUE

(* minPath: a bent long edge takes the straighter of the two courses that  *)
(* carry a position upwards or downwards as far as there is room.          *)
MinPathEdge(m, t, x, e) ==
    LET low == m.ie[e].low
        top == m.ie[e].top
        at(i) == <<"e", e, i>>
        inner == {i \in (low + 2)..(top - 1) : TRUE}
        straight == CountIf({i \in inner : t[at(i)] = t[at(i - 1)]})
        carry(c, i) ==
            IF c.x = x[at(i)] \/ RepositionValid(m, t, at(i), c.x)
              THEN [c EXCEPT !.kept = @ + 1, !.course = @ \cup {<<i, c.x>>}]
              ELSE [c EXCEPT !.x = x[at(i)], !.course = @ \cup {<<i, x[at(i)]>>}]
        up == Fold(carry, [x |-> t[at(low + 1)], kept |-> 0, course |-> {}],
                       Rising(low + 2, top - 1))
        down == Fold(carry, [x |-> x[at(top - 1)], kept |-> 0, course |-> {}],
                         Falling(top - 2, low + 1))
        take(c) == FoldSet(LAMBDA p, acc : [acc EXCEPT ![at(p[1])] = p[2]], x, c.course)
    IN IF top - low - 1 < 1 \/ straight = Cardinality(inner) THEN x
       ELSE IF down.kept > straight \/ up.kept > straight
         THEN take(IF down.kept >= up.kept THEN down ELSE up)
       ELSE x

\* Once for every edge an internal edge stands for.
MinPath(m, t, x) ==
    LET again(acc, e) == Fold(LAMBDA b, n : MinPathEdge(m, t, b, e), acc, m.ie[e].real)
    IN Fold(again, x, Upto(Len(m.ie)))

PlaceStart(m, initialX) ==
    LET x == InitialCoords(m, initialX)
    IN [t |-> MinNode(m, x), x |-> x, best |-> 100000000, round |-> 0]

\* A round of the fine tuning; one that is not better is taken back.
Tuned(m, c, delta, t) ==
    [t |-> t, x |-> MinPath(m, t, t), best |-> Min({c.best, delta}), round |-> c.round + 1]

TakeBack(m, c, a) ==
    Tuned(m, c, a.delta,
          IF a.delta >= c.best THEN c.x ELSE IF c.round = 0 THEN c.t ELSE MinNode(m, a.t))

FineTune(m, c) ==
    LET start == [t |-> c.t, delta |-> 0, done |-> {}]
    IN TakeBack(m, c, IF c.round = 0 THEN start ELSE MedianPos(m, start, c.round))

\* The middle of a rank, the highest one first; a rank without vertices has no height.
HasVertex(m, i) == \E s \in Range(m.ranks[i]) : s[1] = "v"

RankY(m, i) ==
    LET height(r) == IF r =< m.maxRank /\ HasVertex(m, r) THEN NodeHeight ELSE 0
        step(y, r) == y + height(r) \div 2 + height(r + 1) \div 2 + RankSpacing
    IN Fold(step, -RankSpacing, Falling(m.maxRank, i))

\* rankTopY and rankBottomY, Number.MAX_VALUE where no vertex is.
Far == 1000000
RankTop(m, i) == IF HasVertex(m, i) THEN RankY(m, i) - NodeHeight \div 2 ELSE Far
RankBottom(m, i) == IF HasVertex(m, i) THEN RankY(m, i) + NodeHeight \div 2 ELSE -Far

(* localEdgeProcessing: where the edges leave (k = 0) and enter (k = 1) a  *)
(* vertex, from left to right in the order of the cells they lead to.      *)
JettiesAt(m, x, s, k) ==
    LET v == s[2]
        own == IF k = 0 THEN m.out[v] ELSE m.in[v]
        cells == SortedBy(IF k = 0 THEN PreviousLayer(m, s) ELSE NextLayer(m, s), LAMBDA c : x[c])
        edgesTo(c) == IF c[1] = "e" THEN <<c[2]>>
                      ELSE SelectSeq(own, LAMBDA e : c[2] \in {m.ie[e].src, m.ie[e].trg})
        edges == Fold(LAMBDA acc, c : acc \o edgesTo(c), <<>>, cells)
        before(j) == Fold(LAMBDA acc, e : acc + Len(m.ie[e].real), 0, SubSeq(edges, 1, j - 1))
        count == before(Len(edges) + 1)
        wide == Width(m, s) > (count + 1) * EdgeSeparation + 2 * EdgeSeparation
        room == Width(m, s) - (IF wide THEN 2 * EdgeSeparation ELSE 0)
        left == x[s] - room \div 2
        lift(j) == Fold(LAMBDA acc, i : acc + (IF 2 * (i - 1) < count THEN JettyStep
                                                   ELSE IF 2 * (i - 1) > count THEN -JettyStep
                                                   ELSE 0),
                            MinJetty - JettyStep, Upto(j))
    IN {[edge |-> edges[j], n |-> n, k |-> k, y |-> lift(j),
         x |-> left + ((2 * (before(j) + n) - 1) * room) \div (2 * count)] :
            <<j, n>> \in {p \in (DOMAIN edges) \X (1..Max({1, count})) :
                              p[2] =< Len(m.ie[edges[p[1]]].real)}}

Jetties(m, x) ==
    UNION {JettiesAt(m, x, s, k) : s \in {q \in Slots(m) : q[1] = "v"}, k \in {0, 1}}

\* The sideways offsets of parallel edges: 0, 10, -10, 20, ...
OffsetX(n) == IF n % 2 = 0 THEN ParallelSpacing * (n \div 2)
              ELSE -ParallelSpacing * ((n - 1) \div 2)

(* setEdgePosition: an edge goes from its source's jetty through the       *)
(* channels above and below every rank it crosses to its target's jetty.   *)
JettyPoint(m, jetties, e, n, k) ==
    LET j == CHOOSE i \in jetties : i.edge = e /\ i.n = n /\ i.k = k
    IN IF k = 0 THEN <<j.x, RankBottom(m, m.rank[m.ie[e].src]) + j.y>>
       ELSE <<j.x, RankTop(m, m.rank[m.ie[e].trg]) - j.y>>

Bends(m, x, e, n) ==
    LET at(i) == x[<<"e", e, i>>] + OffsetX(n)
        channel(i) == (RankTop(m, i) + RankBottom(m, i + 1)) \div 2
        crossed == Falling(m.ie[e].top - 1, m.ie[e].low + 1)
    IN Fold(LAMBDA acc, i : acc \o << <<at(i), channel(i)>>, <<at(i), channel(i - 1)>> >>,
                <<>>, crossed)

EdgePoints(g, m, x, jetties, e, n) ==
    LET points == <<JettyPoint(m, jetties, e, n, 0)>> \o Bends(m, x, e, n)
                      \o <<JettyPoint(m, jetties, e, n, 1)>>
    IN IF Src(g, m.ie[e].real[n]) = m.ie[e].trg THEN Reverse(points) ELSE points

\* The placement of a hierarchy: its vertices, its edges and its right border.
Placement(x, place, points) ==
    LET bends == UNION {{points[r][i][1] : i \in 2..(Len(points[r]) - 1)} : r \in DOMAIN points}
    IN [place |-> place, points |-> points, x |-> x,
        limit |-> Max({0} \cup bends \cup {place[v][1] + NodeWidth[v] : v \in DOMAIN place})]

PlacementStage(g, m, x) ==
    LET jetties == Jetties(m, x)
        place == [v \in Range(m.verts) |->
                      <<x[<<"v", v, m.rank[v]>>] - NodeWidth[v] \div 2, RankTop(m, m.rank[v])>>]
        points == [r \in m.mapped |->
                      LET e == CHOOSE i \in DOMAIN m.ie : r \in Range(m.ie[i].real)
                      IN EdgePoints(g, m, x, jetties, e, PlaceOf(r, m.ie[e].real))]
    IN Placement(x, place, points)

-----------------------------------------------------------------------------
(* The state: the graph on the page, the stage the layout is in, the       *)
(* hierarchies and the one at hand with its internal model, and what has   *)
(* been placed.  shift is the position the graph's layer is given.         *)

NoModel == [verts |-> <<>>, ranks |-> <<>>, maxRank |-> 0]
Nothing == [place |-> <<>>, points |-> <<>>, x |-> <<>>, limit |-> 0]

LayoutInit ==
    hl = [graph |-> [verts |-> <<>>, edges |-> <<>>], stage |-> "done", roots |-> <<>>,
          comps |-> <<>>, k |-> 0, m |-> NoModel, placed |-> <<>>, initialX |-> 0,
          crossings |-> 0, sweep |-> <<>>, tune |-> <<>>, shift |-> 0, loads |-> 0]

\* updateGraph: the graph on the page is replaced, and a new layout collects its hierarchies.
LoadGraph(data) ==
    /\ hl.stage = "done" /\ hl.loads < Loads
    /\ LET g == UpdateGraph(data)
           c == Collect(g, [all |-> {}, filled |-> Range(g.verts), comps |-> <<>>,
                            roots |-> <<>>])
       IN hl' = [hl EXCEPT !.graph = g, !.roots = c.roots, !.comps = c.comps, !.k = 1,
                           !.placed = <<>>, !.initialX = 0, !.loads = @ + 1,
                           !.stage = IF c.comps = <<>> THEN "done" ELSE "model"]

Build ==
    /\ hl.stage = "model"
    /\ hl' = [hl EXCEPT !.m = CreateModel(hl.graph, hl.comps[hl.k]), !.stage = "cycles"]

BreakCycles ==
    /\ hl.stage = "cycles"
    /\ hl' = [hl EXCEPT !.m = CycleStage(@, hl.roots), !.stage = "layers"]

Layer ==
    /\ hl.stage = "layers"
    /\ LET m == LayeringStage(hl.m, hl.roots)
           sweep == CrossingStart(m)
       IN hl' = [hl EXCEPT !.m = m, !.stage = "order", !.sweep = sweep, !.crossings = sweep.best]

Sweep ==
    /\ hl.stage = "order" /\ ~SweepsDone(hl.sweep)
    /\ \E median \in {WeightedMedian(hl.m, hl.sweep.pos, hl.sweep.nested, hl.sweep.iteration)} :
           \E moved \in {Transpose(hl.m, median, hl.sweep.iteration, 1)} :
               hl' = [hl EXCEPT !.sweep = CrossingSweep(hl.m, @, moved)]

\* The best order is kept, and the first coordinates are set out.
Order ==
    /\ hl.stage = "order" /\ SweepsDone(hl.sweep)
    /\ LET m == [hl.m EXCEPT !.ranks = hl.sweep.nested]
       IN hl' = [hl EXCEPT !.m = m, !.stage = "tune", !.sweep = <<>>,
                           !.tune = PlaceStart(m, hl.initialX)]

Tune ==
    /\ hl.stage = "tune" /\ hl.tune.round < TuneRounds
    /\ hl' = [hl EXCEPT !.tune = FineTune(hl.m, @)]

\* The last hierarchy placed, the layer moves by the bounds of what is shown.
Place ==
    /\ hl.stage = "tune" /\ hl.tune.round = TuneRounds
    /\ \E p \in {PlacementStage(hl.graph, hl.m, hl.tune.x)} :
       LET placed == Append(hl.placed, p)
           last == hl.k = Len(hl.comps)
           left == Min(UNION {{q.place[v][1] : v \in DOMAIN q.place} \cup
                              UNION {{q.points[e][i][1] : i \in DOMAIN q.points[e]} :
                                         e \in DOMAIN q.points} : q \in Range(placed)})
       IN hl' = [hl EXCEPT !.placed = placed, !.initialX = p.limit + HierarchySpacing,
                           !.tune = <<>>,
                           !.stage = IF last THEN "done" ELSE "model",
                           !.k = IF last THEN @ ELSE @ + 1,
                           !.shift = IF last THEN Max({20, @ + left}) ELSE @]

LayoutNext ==
    \/ \E data \in DotData : LoadGraph(data)
    \/ Build \/ BreakCycles \/ Layer \/ Sweep \/ Order \/ Tune \/ Place

-----------------------------------------------------------------------------
\* The crossings between two ranks by their definition: pairs of links in opposite order.
ReferenceCrossings(m, pos) ==
    LET links == UNION {{<<s, i>> : i \in DOMAIN PreviousLayer(m, s)} : s \in Slots(m)}
        to(l) == PreviousLayer(m, l[1])[l[2]]
    IN Cardinality({<<a, b>> \in links \X links :
                        /\ a[1][3] = b[1][3]
                        /\ pos[a[1]] < pos[b[1]] /\ pos[to(a)] > pos[to(b)]})

(* The hierarchies are the graph's vertices, each once, and no edge leads  *)
(* from one hierarchy to another.  From the layering on, every internal    *)
(* edge goes down, though the graph has cycles, and a rank holds each of   *)
(* its vertices and of the edges that cross it once, also after they were  *)
(* reordered; a rank that is crossed has a vertex.                         *)
Layered ==
    /\ hl.stage \in {"model", "cycles"} =>
           /\ \A v \in Range(hl.graph.verts) :
                  Cardinality({i \in DOMAIN hl.comps : v \in Range(hl.comps[i])}) = 1
           /\ \A i \in DOMAIN hl.comps : IsInjective(hl.comps[i])
           /\ \A e \in DOMAIN hl.graph.edges, i \in DOMAIN hl.comps :
                  Src(hl.graph, e) \in Range(hl.comps[i]) <=> Trg(hl.graph, e) \in Range(hl.comps[i])
    /\ hl.stage \in {"order", "tune"} =>
           LET m == hl.m
           IN /\ \A e \in DOMAIN m.ie : m.rank[m.ie[e].src] > m.rank[m.ie[e].trg]
              /\ Slots(m) = {<<"v", v, m.rank[v]>> : v \in Range(m.verts)} \cup
                            {<<"e", e, i>> : <<e, i>> \in
                                 {p \in (DOMAIN m.ie) \X (0..m.maxRank) :
                                      p[2] > m.rank[m.ie[p[1]].trg] /\ p[2] < m.rank[m.ie[p[1]].src]}}
              /\ \A i \in DOMAIN m.ranks : IsInjective(m.ranks[i])
              /\ \A i \in DOMAIN m.ranks : m.ranks[i] # <<>> => HasVertex(m, i)

(* The accumulator tree counts the crossings of the definition, and the    *)
(* order kept in the end has no more of them than the order of the         *)
(* layering.                                                               *)
CrossingsReduced ==
    hl.stage \in {"order", "tune"} =>
        LET crossings == CalculateCrossings(hl.m, Places0(hl.m))
        IN crossings = ReferenceCrossings(hl.m, Places0(hl.m)) /\ crossings =< hl.crossings

(* When the layout is done every vertex has a place; the vertices of a     *)
(* rank do not overlap; an edge starts within the width of its source and  *)
(* ends within that of its target, and its points go steadily up or down.  *)
Laid ==
    hl.stage = "done" =>
        LET P == Range(hl.placed)
            width(v) == NodeWidth[v]
            steady(s, Less(_, _)) == \A i \in 1..(Len(s) - 1) : Less(s[i][2], s[i + 1][2])
        IN /\ UNION {DOMAIN p.place : p \in P} = Range(hl.graph.verts)
           /\ \A p \in P : \A v, w \in DOMAIN p.place :
                  (v # w /\ p.place[v][2] = p.place[w][2]) =>
                      \/ p.place[v][1] + width(v) + Spacing =< p.place[w][1]
                      \/ p.place[w][1] + width(w) + Spacing =< p.place[v][1]
           /\ \A p \in P : \A e \in DOMAIN p.points :
                  LET s == p.points[e]
                      src == Src(hl.graph, e)
                      trg == Trg(hl.graph, e)
                  IN /\ s[1][1] - p.place[src][1] \in 0..width(src)
                     /\ s[Len(s)][1] - p.place[trg][1] \in 0..width(trg)
                     /\ steady(s, LAMBDA a, b : a =< b) \/ steady(s, LAMBDA a, b : a >= b)
=============================================================================
