------------------------------- MODULE Queues -------------------------------
(***************************************************************************)
(* Sequences that are used as queues and lists of work.  The operators are *)
(* ToSet and SetToSeq of SequencesExt; a module of their own keeps the     *)
(* many definitions that SequencesExt imports out of the proofs.           *)
(***************************************************************************)
EXTENDS Naturals, Sequences, FiniteSets

(* The elements of a queue.                                                *)
ToSet(q) == {q[i] : i \in DOMAIN q}

(* The elements of a finite set in some order.                             *)
SetToSeq(S) ==
    CHOOSE q \in [1 .. Cardinality(S) -> S] : \A i, j \in DOMAIN q : q[i] = q[j] => i = j
=============================================================================
