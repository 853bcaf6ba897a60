----------------------------- MODULE LayoutSeqs -----------------------------
(***************************************************************************)
(* Sequences as the layout algorithms use them: loops over an array and    *)
(* stable sorts.                                                           *)
(***************************************************************************)
LOCAL INSTANCE Integers
LOCAL INSTANCE Sequences
LOCAL INSTANCE TLC

\* from, from + 1, ..., to, and from, from - 1, ..., to.
Rising(from, to) == IF to < from THEN <<>> ELSE [i \in 1..(to - from + 1) |-> from + i - 1]
Falling(from, to) == IF from < to THEN <<>> ELSE [i \in 1..(from - to + 1) |-> from - i + 1]
Upto(n) == Rising(1, n)

PlaceOf(x, s) == CHOOSE i \in DOMAIN s : s[i] = x

(* FoldLeft, with every intermediate result a bound variable: TLC          *)
(* evaluates it at once, and long loops within loops need no deep stack.   *)
Fold(op(_, _), base, s) ==
    LET upto[i \in 0..Len(s)] ==
            IF i = 0 THEN base
            ELSE CHOOSE r \in {op(b, s[i]) : b \in {upto[i - 1]}} : TRUE
    IN upto[Len(s)]

\* A sequence in the order of Key(_), elements with equal keys as they were.
SortedBy(s, Key(_)) ==
    LET keyed == Fold(LAMBDA acc, x : Append(acc, <<Key(x), Len(acc) + 1>>), <<>>, s)
        before(a, b) == a[1] < b[1] \/ (a[1] = b[1] /\ a[2] < b[2])
        order == SortSeq(keyed, before)
    IN Fold(LAMBDA acc, k : Append(acc, s[k[2]]), <<>>, order)
=============================================================================
