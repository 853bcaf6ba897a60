-------------------------- MODULE CoreTasksProofs --------------------------
(***************************************************************************)
(* Proofs about the verification tasks of a job inside Klever Core, first  *)
(* part: facts about the queues between its processes, the types, and the  *)
(* invariant that says where every task is on its way from VTG through its *)
(* worker, Bridge and VRP back to VTG.                                     *)
(***************************************************************************)
EXTENDS CoreTasks, TLAPS

(* No element of s but those of X occurs twice. *)
OnceBut(s, X) == \A i, j \in 1 .. Len(s) : s[i] = s[j] /\ s[i] \notin X => i = j

(* The elements of a sequence are what its positions hold. *)
LEMMA ToSetDef ==
  ASSUME NEW S, NEW s \in Seq(S)
  PROVE  /\ \A x \in ToSet(s) : x \in S /\ \E i \in 1 .. Len(s) : s[i] = x
         /\ \A i \in 1 .. Len(s) : s[i] \in ToSet(s)
  BY DEF ToSet

----------------------------------------------------------------------------
(* What the proofs need to know about finite sets and numbers of elements. *)
(* CoreProofs proves it from the theorems about finite sets; the lemmas    *)
(* that count assume it and do not depend on them.                         *)
Counting ==
    /\ IsFiniteSet(Task) /\ IsFiniteSet(Work)
    /\ IsFiniteSet({}) /\ Cardinality({}) = 0
    /\ \A S : IsFiniteSet(S) =>
          /\ Cardinality(S) \in Nat
          /\ Cardinality(S) = 0 <=> S = {}
          /\ \A T \in SUBSET S : IsFiniteSet(T) /\ Cardinality(T) <= Cardinality(S)
          /\ \A x : /\ IsFiniteSet(S \ {x})
                    /\ Cardinality(S \ {x}) = IF x \in S THEN Cardinality(S) - 1 ELSE Cardinality(S)
          /\ \A x : x \notin S => IsFiniteSet(S \cup {x}) /\ Cardinality(S \cup {x}) = Cardinality(S) + 1
          /\ \A T : IsFiniteSet(T) /\ S \cap T = {} =>
                IsFiniteSet(S \cup T) /\ Cardinality(S \cup T) = Cardinality(S) + Cardinality(T)
          /\ SetToSeq(S) \in Seq(S) /\ Len(SetToSeq(S)) = Cardinality(S)
          /\ ToSet(SetToSeq(S)) = S /\ OnceBut(SetToSeq(S), {})
    /\ \A S : \A s \in Seq(S) : OnceBut(s, {}) => IsFiniteSet(ToSet(s)) /\ Cardinality(ToSet(s)) = Len(s)
    /\ \A a \in Atask : Cardinality(Envmodel) = 1 =>
          LET F == {t \in Task : t.atask = a} IN IsFiniteSet(F) /\ Cardinality(F) = Cardinality(Rule(a))

(* There are finitely many works. *)
LEMMA WorkFinite == ASSUME Counting PROVE IsFiniteSet(Task) /\ IsFiniteSet(Work)
  BY Zenon DEF Counting

(* The empty set is the one without elements. *)
LEMMA FiniteEmpty ==
  ASSUME Counting
  PROVE  IsFiniteSet({}) /\ Cardinality({}) = 0 /\ \A S : IsFiniteSet(S) => (Cardinality(S) = 0 <=> S = {})
  BY Zenon DEF Counting

(* A finite set has a number of elements. *)
LEMMA FiniteSize == ASSUME Counting, NEW S, IsFiniteSet(S) PROVE Cardinality(S) \in Nat
  BY Zenon DEF Counting

(* A part of a finite set is finite and not larger. *)
LEMMA FiniteSubset ==
  ASSUME Counting, NEW S, IsFiniteSet(S), NEW T \in SUBSET S
  PROVE  IsFiniteSet(T) /\ Cardinality(T) <= Cardinality(S)
  BY Zenon DEF Counting

(* One element less. *)
LEMMA FiniteRemove ==
  ASSUME Counting, NEW S, NEW x, IsFiniteSet(S)
  PROVE  /\ IsFiniteSet(S \ {x})
         /\ Cardinality(S \ {x}) = IF x \in S THEN Cardinality(S) - 1 ELSE Cardinality(S)
  BY Zenon DEF Counting

(* One element more. *)
LEMMA FiniteAdd ==
  ASSUME Counting, NEW S, NEW x, IsFiniteSet(S), x \notin S
  PROVE  IsFiniteSet(S \cup {x}) /\ Cardinality(S \cup {x}) = Cardinality(S) + 1
  BY Zenon DEF Counting

(* With a single environment model the tasks of an abstract task are as    *)
(* many as its requirements.                                               *)
LEMMA FamilySize ==
  ASSUME Counting, NEW a \in Atask, Cardinality(Envmodel) = 1
  PROVE  LET F == {t \in Task : t.atask = a} IN IsFiniteSet(F) /\ Cardinality(F) = Cardinality(Rule(a))
  BY Zenon DEF Counting

(* The numbers of elements of disjoint sets add up. *)
LEMMA DisjointUnion ==
  ASSUME Counting, NEW S, NEW T, IsFiniteSet(S), IsFiniteSet(T), S \cap T = {}
  PROVE  IsFiniteSet(S \cup T) /\ Cardinality(S \cup T) = Cardinality(S) + Cardinality(T)
<1>1. \A U : IsFiniteSet(U) /\ S \cap U = {} =>
         IsFiniteSet(S \cup U) /\ Cardinality(S \cup U) = Cardinality(S) + Cardinality(U)
  BY Zenon DEF Counting
<1> QED
  BY Zenon, <1>1

(* SetToSeq lists the elements of a finite set, each one once. *)
LEMMA SetToSeqLists ==
  ASSUME Counting, NEW S, IsFiniteSet(S)
  PROVE  /\ SetToSeq(S) \in Seq(S)
         /\ Len(SetToSeq(S)) = Cardinality(S)
         /\ ToSet(SetToSeq(S)) = S
         /\ OnceBut(SetToSeq(S), {})
  BY Zenon DEF Counting

(* A sequence without repetitions has as many elements as positions. *)
LEMMA OnceCounted ==
  ASSUME Counting, NEW S, NEW s \in Seq(S), OnceBut(s, {})
  PROVE  IsFiniteSet(ToSet(s)) /\ Cardinality(ToSet(s)) = Len(s)
  BY Zenon DEF Counting

----------------------------------------------------------------------------
(* Queues.                                                                 *)

(* A concatenation holds the elements of both sequences. *)
LEMMA ToSetConcat ==
  ASSUME NEW S, NEW s \in Seq(S), NEW t \in Seq(S)
  PROVE  /\ s \o t \in Seq(S)
         /\ ToSet(s \o t) = ToSet(s) \cup ToSet(t)
         /\ \A X : OnceBut(s, X) /\ OnceBut(t, X) /\ ToSet(s) \cap ToSet(t) \subseteq X => OnceBut(s \o t, X)
<1> DEFINE u == s \o t
<1>1. /\ u \in Seq(S) /\ Len(u) = Len(s) + Len(t) /\ Len(s) \in Nat /\ Len(t) \in Nat
      /\ \A i \in 1 .. Len(u) : u[i] = IF i <= Len(s) THEN s[i] ELSE t[i - Len(s)]
  OBVIOUS
<1>2. /\ \A i \in 1 .. Len(s) : i \in 1 .. Len(u) /\ u[i] = s[i]
      /\ \A i \in 1 .. Len(t) : i + Len(s) \in 1 .. Len(u) /\ u[i + Len(s)] = t[i]
      /\ \A i \in 1 .. Len(u) : \/ i \in 1 .. Len(s)
                                \/ i - Len(s) \in 1 .. Len(t) /\ u[i] = t[i - Len(s)] /\ i \notin 1 .. Len(s)
  BY SMTT(30), <1>1
<1> HIDE DEF u
<1>3. ToSet(u) = ToSet(s) \cup ToSet(t)
  <2>1. ASSUME NEW x \in ToSet(u) PROVE x \in ToSet(s) \cup ToSet(t)
    <3>1. PICK i \in 1 .. Len(u) : u[i] = x
      BY Zenon, <1>1, ToSetDef
    <3> QED
      BY Zenon, <1>2, <3>1, ToSetDef
  <2>2. ASSUME NEW x \in ToSet(s) PROVE x \in ToSet(u)
    <3>1. PICK i \in 1 .. Len(s) : s[i] = x
      BY ToSetDef
    <3> QED
      BY Zenon, <1>1, <1>2, <3>1, ToSetDef
  <2>3. ASSUME NEW x \in ToSet(t) PROVE x \in ToSet(u)
    <3>1. PICK i \in 1 .. Len(t) : t[i] = x
      BY ToSetDef
    <3> QED
      BY Zenon, <1>1, <1>2, <3>1, ToSetDef
  <2> QED
    BY Zenon, <2>1, <2>2, <2>3
<1>4. ASSUME NEW X, OnceBut(s, X), OnceBut(t, X), ToSet(s) \cap ToSet(t) \subseteq X PROVE OnceBut(u, X)
  <2> SUFFICES ASSUME NEW i \in 1 .. Len(u), NEW j \in 1 .. Len(u), u[i] = u[j], u[i] \notin X PROVE i = j
    BY Zenon DEF OnceBut
  <2>1. CASE i \in 1 .. Len(s) /\ j \in 1 .. Len(s)
    BY <1>2, <1>4, <2>1 DEF OnceBut
  <2>2. CASE i \notin 1 .. Len(s) /\ j \notin 1 .. Len(s)
    <3>1. i - Len(s) \in 1 .. Len(t) /\ j - Len(s) \in 1 .. Len(t) /\ t[i - Len(s)] = t[j - Len(s)]
          /\ t[i - Len(s)] \notin X
      BY Zenon, <1>2, <2>2
    <3>2. i - Len(s) = j - Len(s)
      BY Zenon, <1>4, <3>1 DEF OnceBut
    <3> QED
      BY <1>1, <3>2
  <2>3. CASE i \in 1 .. Len(s) /\ j \notin 1 .. Len(s)
    <3>1. u[i] \in ToSet(s) /\ u[j] \in ToSet(t)
      BY ZenonT(30), <1>2, <2>3, ToSetDef
    <3> QED
      BY Zenon, <1>4, <3>1
  <2>4. CASE i \notin 1 .. Len(s) /\ j \in 1 .. Len(s)
    <3>1. u[j] \in ToSet(s) /\ u[i] \in ToSet(t)
      BY Zenon, <1>2, <2>4, ToSetDef
    <3> QED
      BY Zenon, <1>4, <3>1
  <2> QED
    BY Zenon, <2>1, <2>2, <2>3, <2>4
<1> QED
  BY Zenon, <1>1, <1>3, <1>4 DEF u

(* Appending adds one element. *)
LEMMA ToSetAppend ==
  ASSUME NEW S, NEW s \in Seq(S), NEW x \in S
  PROVE  /\ Append(s, x) \in Seq(S)
         /\ ToSet(Append(s, x)) = ToSet(s) \cup {x}
         /\ \A X : OnceBut(s, X) /\ (x \notin ToSet(s) \/ x \in X) => OnceBut(Append(s, x), X)
<1>1. /\ <<x>> \in Seq(S) /\ ToSet(<<x>>) = {x} /\ \A X : OnceBut(<<x>>, X)
  BY DEF ToSet, OnceBut
<1>2. Append(s, x) = s \o <<x>>
  OBVIOUS
<1>3. s \o <<x>> \in Seq(S) /\ ToSet(s \o <<x>>) = ToSet(s) \cup ToSet(<<x>>)
  BY Zenon, <1>1, ToSetConcat
<1>4. ASSUME NEW X, OnceBut(s, X), x \notin ToSet(s) \/ x \in X PROVE OnceBut(s \o <<x>>, X)
  <2>1. ToSet(s) \cap ToSet(<<x>>) \subseteq X
    BY Zenon, <1>1, <1>4
  <2> QED
    BY Zenon, <1>1, <1>4, <2>1, ToSetConcat
<1> QED
  BY Zenon, <1>1, <1>2, <1>3, <1>4

(* Taking the first member. *)
LEMMA HeadTail ==
  ASSUME NEW S, NEW s \in Seq(S), s # <<>>
  PROVE  Head(s) \in S /\ Tail(s) \in Seq(S)
  OBVIOUS

(* Taking the head leaves the other elements. *)
LEMMA ToSetTail ==
  ASSUME NEW S, NEW s \in Seq(S), s # <<>>
  PROVE  /\ Tail(s) \in Seq(S)
         /\ Len(Tail(s)) = Len(s) - 1
         /\ Head(s) \in ToSet(s)
         /\ ToSet(s) = ToSet(Tail(s)) \cup {Head(s)}
         /\ \A X : OnceBut(s, X) => /\ OnceBut(Tail(s), X)
                                    /\ Head(s) \in ToSet(Tail(s)) => Head(s) \in X
<1>1. /\ Tail(s) \in Seq(S) /\ Len(Tail(s)) = Len(s) - 1 /\ Len(s) \in Nat \ {0}
      /\ \A i \in 1 .. Len(s) - 1 : Tail(s)[i] = s[i + 1]
      /\ Head(s) = s[1]
  OBVIOUS
<1>2. \A i \in 1 .. Len(s) - 1 : i \in 1 .. Len(s) /\ i + 1 \in 1 .. Len(s) /\ i + 1 # 1
  BY <1>1
<1>3. \A i \in 1 .. Len(s) : i = 1 \/ (i - 1 \in 1 .. Len(s) - 1 /\ Tail(s)[i - 1] = s[i])
  BY <1>1
<1> DEFINE u == Tail(s)
<1>u. u \in Seq(S) /\ Len(u) = Len(s) - 1
  BY Zenon, <1>1
<1> HIDE DEF u
<1>4. ToSet(s) = ToSet(u) \cup {s[1]}
  <2>1. ASSUME NEW x \in ToSet(s) PROVE x \in ToSet(u) \cup {s[1]}
    <3>1. PICK i \in 1 .. Len(s) : s[i] = x
      BY ToSetDef
    <3>2. CASE i # 1
      <4>1. i - 1 \in 1 .. Len(u) /\ u[i - 1] = x
        BY Zenon, <1>1, <1>3, <3>1, <3>2 DEF u
      <4> QED
        BY ZenonT(30), <1>1, <4>1, ToSetDef DEF u
    <3> QED
      BY Zenon, <3>1, <3>2
  <2>2. ASSUME NEW x \in ToSet(u) PROVE x \in ToSet(s)
    <3>1. PICK i \in 1 .. Len(u) : u[i] = x
      BY <1>u, ToSetDef
    <3>2. i + 1 \in 1 .. Len(s) /\ s[i + 1] = x
      BY Zenon, <1>1, <1>2, <3>1 DEF u
    <3> QED
      BY Zenon, <3>2, ToSetDef
  <2>3. s[1] \in ToSet(s)
    BY <1>1, ToSetDef
  <2> QED
    BY Zenon, <2>1, <2>2, <2>3
<1>5. ASSUME NEW X, OnceBut(s, X) PROVE OnceBut(u, X) /\ (s[1] \in ToSet(u) => s[1] \in X)
  <2>1. ASSUME NEW i \in 1 .. Len(u), NEW j \in 1 .. Len(u), u[i] = u[j], u[i] \notin X PROVE i = j
    <3>1. i \in Int /\ j \in Int /\ i + 1 = j + 1
      BY <1>1, <1>2, <1>5, <2>1 DEF OnceBut, u
    <3> QED
      BY <3>1
  <2>2. ASSUME s[1] \in ToSet(u), s[1] \notin X PROVE FALSE
    <3>1. PICK i \in 1 .. Len(u) : u[i] = s[1]
      BY SMTT(30), <1>u, <2>2, ToSetDef
    <3>2. i + 1 \in 1 .. Len(s) /\ s[i + 1] = s[1] /\ i + 1 # 1 /\ 1 \in 1 .. Len(s)
      BY <1>1, <1>2, <3>1 DEF u
    <3> QED
      BY Zenon, <1>5, <2>2, <3>2 DEF OnceBut
  <2> QED
    BY Zenon, <2>1, <2>2 DEF OnceBut
<1> QED
  BY Zenon, <1>1, <1>4, <1>5 DEF u

(* A sequence of copies holds one element. *)
LEMMA RepeatedInSeq ==
  ASSUME NEW S, NEW x \in S, NEW n \in Nat
  PROVE  /\ [i \in 1 .. n |-> x] \in Seq(S)
         /\ ToSet([i \in 1 .. n |-> x]) \subseteq {x}
         /\ OnceBut([i \in 1 .. n |-> x], {x})
<1> DEFINE s == [i \in 1 .. n |-> x]
<1>1. s \in Seq(S) /\ Len(s) = n
  OBVIOUS
<1>2. ToSet(s) \subseteq {x}
  BY Zenon DEF ToSet
<1>3. OnceBut(s, {x})
  BY Zenon, <1>1 DEF OnceBut
<1> QED
  BY Zenon, <1>1, <1>2, <1>3

(* Both parts of a sequence that is cut are sequences. *)
LEMMA CutInSeq ==
  ASSUME NEW S, NEW s \in Seq(S), NEW n \in 0 .. Len(s)
  PROVE  /\ SubSeq(s, 1, Len(s) - n) \in Seq(S)
         /\ SubSeq(s, Len(s) - n + 1, Len(s)) \in Seq(S)
<1>1. Len(s) \in Nat /\ \A i \in 1 .. Len(s) : s[i] \in S
  OBVIOUS
<1>2. Len(s) - n \in Int /\ Len(s) - n + 1 \in Int /\ 1 \in Int
  BY <1>1
<1>3. \A i \in 1 .. Len(s) - n : s[i] \in S
  BY <1>1
<1>4. \A i \in Len(s) - n + 1 .. Len(s) : s[i] \in S
  BY <1>1
<1> DEFINE k == Len(s) - n
           j == Len(s) - n + 1
<1> HIDE DEF k, j
<1>5. SubSeq(s, 1, k) \in Seq(S)
  BY <1>1, <1>2, <1>3 DEF k
<1>6. SubSeq(s, j, Len(s)) \in Seq(S)
  BY <1>1, <1>2, <1>4 DEF j
<1> QED
  BY Zenon, <1>5, <1>6 DEF k, j

(* A sequence without repetitions is cut in two.                           *)
LEMMA ToSetCut ==
  ASSUME Counting, NEW S, NEW s \in Seq(S), OnceBut(s, {}), NEW n \in 0 .. Len(s)
  PROVE  LET front == SubSeq(s, 1, Len(s) - n)
             back  == SubSeq(s, Len(s) - n + 1, Len(s))
         IN  /\ front \in Seq(S) /\ OnceBut(front, {})
             /\ ToSet(front) \cap ToSet(back) = {}
             /\ ToSet(front) \cup ToSet(back) = ToSet(s)
             /\ IsFiniteSet(ToSet(back)) /\ Cardinality(ToSet(back)) = n
<1> DEFINE k     == Len(s) - n
           front == SubSeq(s, 1, k)
           back  == SubSeq(s, k + 1, Len(s))
<1>1. Len(s) \in Nat /\ k \in 0 .. Len(s) /\ n \in Nat /\ k + n = Len(s)
  OBVIOUS
<1> HIDE DEF k
<1>2. /\ front \in Seq(S) /\ Len(front) = k
      /\ \A i \in 1 .. k : front[i] = s[i]
  <2>1. \A i \in 1 .. k : s[i] \in S
    BY <1>1
  <2> QED
    BY <1>1, <2>1
<1>3. /\ back \in Seq(S) /\ Len(back) = n
      /\ \A i \in 1 .. n : back[i] = s[k + i]
  <2>1. \A i \in k + 1 .. Len(s) : s[i] \in S
    BY <1>1
  <2>2. k + 1 \in Int /\ Len(s) \in Int
    BY <1>1
  <2>3. /\ back \in Seq(S)
        /\ Len(back) = IF k + 1 <= Len(s) THEN Len(s) - (k + 1) + 1 ELSE 0
        /\ \A i \in 1 .. Len(s) - (k + 1) + 1 : back[i] = s[k + 1 + i - 1]
    BY SMTT(30), <2>1, <2>2
  <2> HIDE DEF back
  <2>4. Len(back) = n /\ Len(s) - (k + 1) + 1 = n
    BY <1>1, <2>3
  <2>5. \A i \in 1 .. n : k + 1 + i - 1 = k + i
    BY <1>1
  <2> QED
    BY Zenon, <2>3, <2>4, <2>5
<1> HIDE DEF front, back
<1>4. /\ \A i \in 1 .. k : i \in 1 .. Len(s)
      /\ \A i \in 1 .. n : k + i \in 1 .. Len(s) /\ k + i \notin 1 .. k
      /\ \A i \in 1 .. Len(s) : i \in 1 .. k \/ (i - k \in 1 .. n /\ back[i - k] = s[i])
  BY <1>1, <1>3
<1>5. OnceBut(front, {})
  BY <1>2, <1>4 DEF OnceBut
<1>6. ToSet(front) \cup ToSet(back) = ToSet(s)
  <2>1. ASSUME NEW x \in ToSet(s) PROVE x \in ToSet(front) \cup ToSet(back)
    <3>1. PICK i \in 1 .. Len(s) : s[i] = x
      BY ToSetDef
    <3> QED
      BY Zenon, <1>2, <1>3, <1>4, <3>1, ToSetDef
  <2>2. ASSUME NEW x \in ToSet(front) PROVE x \in ToSet(s)
    <3>1. PICK i \in 1 .. k : front[i] = x
      BY Zenon, <1>2, ToSetDef
    <3> QED
      BY Zenon, <1>2, <1>4, <3>1, ToSetDef
  <2>3. ASSUME NEW x \in ToSet(back) PROVE x \in ToSet(s)
    <3>1. PICK i \in 1 .. n : back[i] = x
      BY ZenonT(30), <1>3, ToSetDef
    <3> QED
      BY Zenon, <1>3, <1>4, <3>1, ToSetDef
  <2> QED
    BY Zenon, <2>1, <2>2, <2>3
<1>7. ToSet(front) \cap ToSet(back) = {}
  <2> SUFFICES ASSUME NEW x, x \in ToSet(front), x \in ToSet(back) PROVE FALSE
    BY Zenon
  <2>1. PICK i \in 1 .. k : front[i] = x
    BY Zenon, <1>2, ToSetDef
  <2>2. PICK j \in 1 .. n : back[j] = x
    BY ZenonT(30), <1>3, ToSetDef
  <2>3. i \in 1 .. Len(s) /\ k + j \in 1 .. Len(s) /\ s[i] = s[k + j] /\ i # k + j
    BY Zenon, <1>2, <1>3, <1>4, <2>1, <2>2
  <2> QED
    BY Zenon, <2>3 DEF OnceBut
<1>8. IsFiniteSet(ToSet(back)) /\ Cardinality(ToSet(back)) = n
  <2>1. OnceBut(back, {})
    <3> SUFFICES ASSUME NEW i \in 1 .. n, NEW j \in 1 .. n, back[i] = back[j] PROVE i = j
      BY Zenon, <1>3 DEF OnceBut
    <3>1. k + i \in 1 .. Len(s) /\ k + j \in 1 .. Len(s) /\ s[k + i] = s[k + j]
      BY Zenon, <1>3, <1>4
    <3>2. k + i = k + j
      BY Zenon, <3>1 DEF OnceBut
    <3> QED
      BY <1>1, <3>2
  <2> QED
    BY Zenon, <1>3, <2>1, OnceCounted
<1> QED
  BY Zenon, <1>2, <1>5, <1>6, <1>7, <1>8 DEF k, front, back

----------------------------------------------------------------------------
(* The types.                                                              *)

Message == [work : Work, other : BOOLEAN, models : SUBSET Envmodel]

TypeInv ==
    /\ prepare \in Seq(Work) /\ waiting \in Int /\ waiting <= MaxTasks
    /\ left_abstract_tasks \in Int /\ total_tasks \in Nat
    /\ prepare_workers \subseteq Work /\ max_worker_threads \in Nat
    /\ atask_tasks = [a \in Atask |-> atask_tasks[a]]
    /\ vtg \in {"start", "loop", "get", "done"}
    /\ worker \in [Work -> {"none", "run", "put", "exited"}]
    /\ processed \in Seq(Message)
    /\ pending_tasks \in Seq(Task \cup {Null}) /\ processing_tasks \in Seq(Task \cup {Null})
    /\ tasks_messages \in [finished : Nat, failed : Nat]
    /\ total_message \in Nat \cup {Null}
    /\ bridge \in [Task -> {"none", "PENDING", "decided", "removed"}]
    /\ receiving \in BOOLEAN /\ pending \subseteq Task
    /\ rpwl \in [RPWorkers -> Task \cup {Idle, Ended}]
    /\ pw \in [at : {"watch", "over", "failed"}, finished : Nat, failed : Nat,
               total : Nat \cup {Null}, started : BOOLEAN]
    /\ core \in {"running", "waiting", "finished", "failed"}
    /\ lost \subseteq Work /\ flag \in BOOLEAN
    /\ setting \in Setting
    /\ verdict \in [Task -> {"none", "finished", "failed"}]

----------------------------------------------------------------------------
(* Facts about the constants.                                              *)

(* The bounds are numbers and the marks are neither tasks nor numbers.     *)
LEMMA Marks == /\ MaxTasks \in Nat /\ EMGThreads \in Nat
               /\ Null \notin Task /\ Idle \notin Task /\ Ended \notin Task /\ Null \notin Nat
               /\ Atask \cap Task = {}
  BY Zenon, CoreConstants

(* The tasks that an abstract task may give rise to are tasks of it.       *)
LEMMA TasksOf ==
  /\ \A t \in Task : t.atask \in Atask
  /\ \A a \in Atask, models \in SUBSET Envmodel :
        /\ [atask : {a}, envmodel : models, rule : Rule(a)] \subseteq Task
        /\ \A t \in [atask : {a}, envmodel : models, rule : Rule(a)] : t.atask = a
<1>1. \A a \in Atask : [atask : {a}, envmodel : Envmodel, rule : Rule(a)] \subseteq Task
  BY Zenon DEF Task
<1>2. ASSUME NEW a \in Atask, NEW models \in SUBSET Envmodel
      PROVE  /\ [atask : {a}, envmodel : models, rule : Rule(a)] \subseteq Task
             /\ \A t \in [atask : {a}, envmodel : models, rule : Rule(a)] : t.atask = a
  <2>1. [atask : {a}, envmodel : models, rule : Rule(a)] \subseteq [atask : {a}, envmodel : Envmodel, rule : Rule(a)]
    BY Zenon
  <2> QED
    BY Zenon, <1>1, <2>1
<1>3. ASSUME NEW t \in Task PROVE t.atask \in Atask
  <2>1. PICK a \in Atask : t \in [atask : {a}, envmodel : Envmodel, rule : Rule(a)]
    BY Zenon DEF Task
  <2> QED
    BY Zenon, <2>1
<1> QED
  BY Zenon, <1>2, <1>3

----------------------------------------------------------------------------
(* Type correctness.                                                       *)

(* __gradual_submit() stays within the list and within the quota.          *)
LEMMA SubmittedBounds ==
  ASSUME Counting, TypeInv, NEW alive \in SUBSET Work
  PROVE  Submitted(alive) \in 0 .. Len(prepare) /\ waiting + Submitted(alive) <= MaxTasks
<1>1. Len(prepare) \in Nat /\ waiting \in Int /\ waiting <= MaxTasks /\ MaxTasks \in Nat /\ max_worker_threads \in Nat
  BY CoreConstants DEF TypeInv
<1>2. Cardinality(alive) \in Nat
  BY Zenon, WorkFinite, FiniteSubset, FiniteSize
<1> DEFINE c == Cardinality(alive)
<1> HIDE DEF c
<1> QED
  BY <1>1, <1>2 DEF Submitted, Min2, Max2, c

(* The types hold at the start. *)
LEMMA TypeInit == ASSUME Counting PROVE Init => TypeInv
<1> SUFFICES ASSUME Init PROVE TypeInv
  BY Zenon
<1>1. Cardinality(Atask) \in Nat
  BY Zenon, CoreConstants, FiniteSize
<1>2. /\ prepare \in Seq(Work) /\ processed \in Seq(Message)
      /\ pending_tasks \in Seq(Task \cup {Null}) /\ processing_tasks \in Seq(Task \cup {Null})
  BY DEF Init
<1>6. tasks_messages \in [finished : Nat, failed : Nat]
  BY Zenon DEF Init
<1>3. /\ waiting \in Int /\ waiting <= MaxTasks /\ total_tasks \in Nat /\ left_abstract_tasks \in Int
      /\ max_worker_threads \in Nat /\ total_message \in Nat \cup {Null}
  BY <1>1, Marks DEF Init
<1>7. /\ prepare_workers \subseteq Work /\ vtg \in {"start", "loop", "get", "done"}
      /\ core \in {"running", "waiting", "finished", "failed"}
      /\ lost \subseteq Work /\ flag \in BOOLEAN /\ receiving \in BOOLEAN /\ pending \subseteq Task
      /\ setting \in Setting
  BY Zenon DEF Init
<1>4. /\ atask_tasks = [a \in Atask |-> atask_tasks[a]]
      /\ worker \in [Work -> {"none", "run", "put", "exited"}]
      /\ bridge \in [Task -> {"none", "PENDING", "decided", "removed"}]
      /\ rpwl \in [RPWorkers -> Task \cup {Idle, Ended}]
      /\ verdict \in [Task -> {"none", "finished", "failed"}]
  BY Zenon DEF Init
<1>5. pw \in [at : {"watch", "over", "failed"}, finished : Nat, failed : Nat,
             total : Nat \cup {Null}, started : BOOLEAN]
  BY Zenon DEF Init
<1> QED
  BY Zenon, <1>2, <1>3, <1>4, <1>5, <1>6, <1>7 DEF TypeInv

(* Works are abstract tasks and tasks. *)
LEMMA InWork == Atask \subseteq Work /\ Task \subseteq Work
  BY Zenon DEF Work

(* VTG starts: the abstract tasks are to be prepared. *)
LEMMA StartType ==
    ASSUME Counting, TypeInv, VTGStart
    PROVE  TypeInv'
<1> USE DEF TypeInv, Message, vtgVars, vrpVars, pwVars, otherThanWorker
<1>1. SetToSeq(Atask) \in Seq(Work)
  BY SMTT(30), InWork, CoreConstants, SetToSeqLists
<1>2. Cardinality(Task) \in Nat
  BY Zenon, WorkFinite, FiniteSize
<1> QED
  BY SMTT(30), <1>1, <1>2 DEF VTGStart

(* Workers are started for the last of what is to be prepared. *)
LEMMA SubmitType ==
    ASSUME Counting, TypeInv, VTGSubmit
    PROVE  TypeInv'
<1> USE DEF TypeInv, Message, vtgVars, vrpVars, pwVars, otherThanWorker
<1> DEFINE alive == {w \in prepare_workers : worker[w] # "exited"}
           n == Submitted(alive)
           k == Len(prepare) - n
           back == SubSeq(prepare, k + 1, Len(prepare))
<1>1. n \in 0 .. Len(prepare) /\ waiting + n <= MaxTasks
  BY Zenon, SubmittedBounds
<1>5. /\ prepare' = SubSeq(prepare, 1, k)
      /\ prepare_workers' = alive \cup ToSet(back)
      /\ worker' = [w \in Work |-> IF w \in ToSet(back) THEN "run" ELSE worker[w]]
      /\ waiting' = waiting + n
      /\ vtg' = "get"
  BY Zenon DEF VTGSubmit
<1>6. UNCHANGED <<setting, left_abstract_tasks, total_tasks, max_worker_threads, atask_tasks,
                 vrpVars, pwVars, processed, pending_tasks, flag, bridge, core, lost, verdict>>
  BY Zenon DEF VTGSubmit
<1> HIDE DEF n
<1>7. Len(prepare) \in Nat /\ waiting \in Int
  OBVIOUS
<1>2. waiting + n \in Int
  BY SMTT(30), <1>1, <1>7
<1>3. SubSeq(prepare, 1, k) \in Seq(Work) /\ back \in Seq(Work)
  BY Zenon, <1>1, CutInSeq
<1> HIDE DEF k
<1> HIDE DEF back
<1>4. ToSet(back) \subseteq Work
  BY Zenon, <1>3, ToSetDef
<1> QED
  BY ZenonT(30), <1>1, <1>2, <1>3, <1>4, <1>5, <1>6

(* VTG waits in vain for an answer. *)
LEMMA TimeoutType ==
    ASSUME Counting, TypeInv, VTGTimeout
    PROVE  TypeInv'
  BY Zenon DEF TypeInv, Message, vtgVars, vrpVars, pwVars, otherThanWorker, VTGTimeout

(* An answer is taken from the queue. *)
LEMMA TakeType ==
    ASSUME Counting, TypeInv, TakeItem
    PROVE  /\ Head(processed) \in Message /\ processed' \in Seq(Message) /\ vtg' \in {"loop", "get"}
           /\ waiting' \in Int /\ waiting' <= MaxTasks
<1> USE DEF TypeInv, Message, vtgVars, vrpVars, pwVars, otherThanWorker
<1>1. /\ Head(processed) \in Message /\ Tail(processed) \in Seq(Message)
  <2>1. processed \in Seq(Message) /\ processed # <<>>
    BY Zenon DEF TakeItem
  <2> HIDE DEF Message
  <2> QED
    BY Zenon, <2>1, HeadTail
<1>2. waiting' \in Int /\ waiting' <= MaxTasks
  BY SMTT(30), CoreConstants DEF TakeItem
<1>3. vtg' \in {"loop", "get"}
  BY Zenon DEF TakeItem
<1> QED
  BY Zenon, <1>1, <1>2, <1>3 DEF TakeItem

(* The answer of EMG: tasks come into being or are given up. *)
LEMMA AbstractType ==
    ASSUME Counting, TypeInv, VTGAbstract
    PROVE  TypeInv'
<1>0. /\ Head(processed) \in Message /\ processed' \in Seq(Message) /\ vtg' \in {"loop", "get"}
      /\ waiting' \in Int /\ waiting' <= MaxTasks /\ TakeItem
  BY Zenon, TakeType DEF VTGAbstract
<1> USE DEF TypeInv, Message, vtgVars, vrpVars, pwVars, otherThanWorker
<1> DEFINE m == Head(processed)
           a == m.work
           new == [atask : {a}, envmodel : m.models, rule : Rule(a)]
<1>1. m \in Message /\ a \in Atask /\ TakeItem
  BY Zenon, <1>0 DEF VTGAbstract
<1>2. new \subseteq Task
  BY Zenon, <1>1, TasksOf
<1>3. IsFiniteSet(new) /\ Cardinality(new) \in Nat
  BY ZenonT(30), <1>2, WorkFinite, FiniteSubset, FiniteSize
<1>11. Cardinality(Rule(a)) \in Nat
  BY Zenon, <1>1, CoreConstants, FiniteSize
<1>4. prepare \o SetToSeq(new) \in Seq(Work)
  <2> HIDE DEF new
  <2>1. SetToSeq(new) \in Seq(new)
    BY Zenon, <1>3, SetToSeqLists
  <2>2. SetToSeq(new) \in Seq(Work)
    BY SMTT(30), InWork, <1>2, <2>1
  <2> QED
    BY <2>2
<1>12. prepare' = prepare \o SetToSeq(new)
       /\ total_tasks' = IF setting.single THEN total_tasks ELSE total_tasks + Cardinality(new)
  BY Zenon DEF VTGAbstract
<1>5. total_tasks' \in Nat
  <2> HIDE DEF new
  <2> QED
    BY SMTT(30), <1>12, <1>3
<1>6. total_message' \in Nat \cup {Null}
  BY Zenon, <1>5 DEF VTGAbstract
<1>7. tasks_messages' \in [finished : Nat, failed : Nat]
  <2> DEFINE c == Cardinality(Rule(a))
  <2>1. tasks_messages' \in {tasks_messages, [tasks_messages EXCEPT !.failed = @ + c]}
    BY Zenon DEF VTGAbstract
  <2>2. c \in Nat
    BY Zenon, <1>11
  <2> HIDE DEF c
  <2> QED
    BY SMTT(30), <2>1, <2>2
<1>8. verdict' \in [Task -> {"none", "finished", "failed"}]
  <2>1. verdict' \in {verdict, [t \in Task |-> IF t.atask = a THEN "failed" ELSE verdict[t]]}
    BY Zenon DEF VTGAbstract
  <2> QED
    BY SMTT(30), <2>1
<1>9. /\ left_abstract_tasks' \in Int /\ max_worker_threads' \in Nat
      /\ atask_tasks' = [b \in Atask |-> atask_tasks'[b]] /\ prepare' \in Seq(Work)
  <2>1. left_abstract_tasks' \in Int /\ max_worker_threads' = setting.threads
    BY SMTT(30) DEF VTGAbstract
  <2>2. setting.threads \in Nat
    BY Zenon, CoreConstants
  <2>3. atask_tasks' = [b \in Atask |-> atask_tasks'[b]]
    BY Zenon, <1>1 DEF VTGAbstract
  <2> QED
    BY Zenon, <1>4, <1>12, <2>1, <2>2, <2>3
<1>10. UNCHANGED <<setting, prepare_workers, vrpVars, pw, worker, pending_tasks, flag, bridge, core, lost>>
  BY Zenon DEF VTGAbstract
<1> QED
  BY ZenonT(30), <1>0, <1>5, <1>6, <1>7, <1>8, <1>9, <1>10

(* The answer for a task. *)
LEMMA TaskType ==
    ASSUME Counting, TypeInv, VTGTask
    PROVE  TypeInv'
<1>0. /\ Head(processed) \in Message /\ processed' \in Seq(Message) /\ vtg' \in {"loop", "get"}
      /\ waiting' \in Int /\ waiting' <= MaxTasks /\ TakeItem
  BY Zenon, TakeType DEF VTGTask
<1> USE DEF TypeInv, Message, vtgVars, vrpVars, pwVars, otherThanWorker
<1> DEFINE m == Head(processed)
           t == m.work
           status == IF m.other THEN "finished" ELSE "failed"
<1>1. m \in Message /\ t \in Task /\ TakeItem
  BY Zenon, <1>0 DEF VTGTask
<1>2. tasks_messages' \in [finished : Nat, failed : Nat]
  <2>1. tasks_messages' = [tasks_messages EXCEPT ![status] = @ + 1]
    BY Zenon DEF VTGTask
  <2> DEFINE f == tasks_messages.finished + 1
             g == tasks_messages.failed + 1
  <2>2. f \in Nat /\ g \in Nat
    BY SMTT(30)
  <2>3. \/ tasks_messages' = [tasks_messages EXCEPT !.finished = f]
        \/ tasks_messages' = [tasks_messages EXCEPT !.failed = g]
    BY Zenon, <2>1
  <2> HIDE DEF f, g
  <2> QED
    BY ZenonT(30), <2>2, <2>3
<1>3. verdict' \in [Task -> {"none", "finished", "failed"}]
  BY Zenon, <1>1 DEF VTGTask
<1>4. atask_tasks' = [b \in Atask |-> atask_tasks'[b]]
  BY Zenon, <1>1 DEF VTGTask
<1>5. UNCHANGED <<setting, prepare, left_abstract_tasks, total_tasks, prepare_workers, max_worker_threads,
                 vrpVars, total_message, pw, worker, pending_tasks, flag, bridge, core, lost>>
  BY Zenon DEF VTGTask
<1> QED
  BY ZenonT(30), <1>0, <1>2, <1>3, <1>4, <1>5

(* VTG tells VRP that no task follows. *)
LEMMA DoneType ==
    ASSUME Counting, TypeInv, VTGDone
    PROVE  TypeInv'
<1> USE DEF TypeInv, Message, vtgVars, vrpVars, pwVars, otherThanWorker
<1>1. Append(pending_tasks, Null) \in Seq(Task \cup {Null})
  OBVIOUS
<1> QED
  BY Zenon, <1>1 DEF VTGDone

(* A worker puts its answer into the queue. *)
LEMMA AnswerType ==
    ASSUME Counting, TypeInv, NEW w \in Work, NEW answered \in BOOLEAN, NEW models \in SUBSET Envmodel, Answer(w, answered, models)
    PROVE  processed' \in Seq(Message) /\ worker' \in [Work -> {"none", "run", "put", "exited"}]
<1> USE DEF TypeInv, Message, vtgVars, vrpVars, pwVars, otherThanWorker
<1>1. [work |-> w, other |-> answered, models |-> models] \in Message
  BY Zenon
<1>2. Append(processed, [work |-> w, other |-> answered, models |-> models]) \in Seq(Message)
  BY <1>1
<1> QED
  BY Zenon, <1>2 DEF Answer

(* The steps of a worker. *)
LEMMA WorkerType ==
    ASSUME Counting, TypeInv, NEW w \in Work, WorkerStep(w)
    PROVE  TypeInv'
<1>0. (w \in Atask /\ EMGWSend(w)) \/ PluginFails(w)
         => processed' \in Seq(Message) /\ worker' \in [Work -> {"none", "run", "put", "exited"}]
  BY Zenon, AnswerType DEF EMGWSend, PluginFails
<1> USE DEF TypeInv, Message, vtgVars, vrpVars, pwVars, otherThanWorker
<1>1. CASE w \in Atask /\ EMGWSend(w)
  BY ZenonT(30), <1>0, <1>1 DEF EMGWSend
<1>2. CASE PluginFails(w)
  BY ZenonT(30), <1>0, <1>2 DEF PluginFails
<1>3. CASE w \in Task /\ PLUGINSSubmit(w)
  <2>1. Append(pending_tasks, w) \in Seq(Task \cup {Null})
    BY <1>3
  <2> QED
    BY SMTT(30), <1>3, <2>1 DEF PLUGINSSubmit
<1>4. CASE WorkerEnds(w)
  BY ZenonT(30), <1>4 DEF WorkerEnds
<1> QED
  BY Zenon, <1>1, <1>2, <1>3, <1>4 DEF WorkerStep

(* A worker ends without an answer. *)
LEMMA WorkerLostType ==
    ASSUME Counting, TypeInv, NEW w \in Work, WorkerLost(w)
    PROVE  TypeInv'
  BY DEF TypeInv, Message, vtgVars, vrpVars, pwVars, otherThanWorker, WorkerLost

(* Bridge decides a task. *)
LEMMA SolvedType ==
    ASSUME Counting, TypeInv, NEW t \in Task, Solved(t)
    PROVE  TypeInv'
  BY DEF TypeInv, Message, vtgVars, vrpVars, pwVars, otherThanWorker, Solved

(* VRP polls Bridge and passes on what is decided. *)
LEMMA PollType ==
    ASSUME Counting, TypeInv, RPLPoll
    PROVE  TypeInv'
<1> USE DEF TypeInv, Message, vtgVars, vrpVars, pwVars, otherThanWorker
<1> DEFINE more == receiving /\ Null \notin ToSet(pending_tasks)
           known == pending \cup (ToSet(pending_tasks) \ {Null})
           decided == {t \in known : bridge[t] = "decided"}
           over == ~more /\ known = decided
           nulls == [r \in 1 .. Cardinality(RPWorkers) |-> Null]
           last == IF over THEN nulls ELSE <<>>
<1>1. known \subseteq Task /\ decided \subseteq Task /\ IsFiniteSet(decided)
  BY SMTT(30), ToSetDef, WorkFinite, FiniteSubset
<1>2. SetToSeq(decided) \in Seq(Task \cup {Null})
  <2> HIDE DEF decided
  <2>1. SetToSeq(decided) \in Seq(decided)
    BY Zenon, <1>1, SetToSeqLists
  <2> QED
    BY SMTT(30), <1>1, <2>1
<1>3. last \in Seq(Task \cup {Null})
  <2>1. Cardinality(RPWorkers) \in Nat
    BY Zenon, CoreConstants, FiniteSize
  <2> DEFINE c == Cardinality(RPWorkers)
  <2>3. c \in Nat
    BY Zenon, <2>1
  <2>4. last = [r \in 1 .. c |-> Null] \/ last = <<>>
    BY Zenon
  <2> HIDE DEF c, last
  <2>2. [r \in 1 .. c |-> Null] \in Seq(Task \cup {Null})
    BY ZenonT(30), <2>3, RepeatedInSeq
  <2>5. <<>> \in Seq(Task \cup {Null})
    OBVIOUS
  <2> QED
    BY Zenon, <2>2, <2>4, <2>5
<1>4. processing_tasks' \in Seq(Task \cup {Null})
  <2>1. processing_tasks' = processing_tasks \o SetToSeq(decided) \o last
    BY Zenon DEF RPLPoll
  <2> HIDE DEF decided, last
  <2> QED
    BY SMTT(30), <1>2, <1>3, <2>1
<1>5. pending_tasks' = <<>> /\ receiving' = more /\ pending' = known \ decided
  BY Zenon DEF RPLPoll
<1>6. UNCHANGED <<setting, vtgVars, pwVars, rpwl, worker, processed, flag, bridge, core, lost>>
  BY Zenon DEF RPLPoll
<1>7. more \in BOOLEAN
  BY Zenon
<1> HIDE DEF known, decided, more
<1> QED
  BY SMTT(30), <1>1, <1>4, <1>5, <1>6, <1>7

(* A worker of VRP takes a task. *)
LEMMA RPWLType ==
    ASSUME Counting, TypeInv, NEW r \in RPWorkers, RPWLTake(r)
    PROVE  TypeInv'
<1> USE DEF TypeInv, Message, vtgVars, vrpVars, pwVars, otherThanWorker
<1>1. Head(processing_tasks) \in Task \cup {Null} /\ Tail(processing_tasks) \in Seq(Task \cup {Null})
  BY SMTT(30) DEF RPWLTake
<1>2. rpwl' = [rpwl EXCEPT ![r] = IF Head(processing_tasks) = Null THEN Ended ELSE Head(processing_tasks)]
  BY Zenon DEF RPWLTake
<1>3. rpwl' \in [RPWorkers -> Task \cup {Idle, Ended}]
  BY Zenon, <1>1, <1>2
<1> QED
  BY SMTT(30), <1>1, <1>3 DEF RPWLTake

(* A worker of VRP fetches a solution. *)
LEMMA FetchType ==
    ASSUME Counting, TypeInv, NEW r \in RPWorkers, RPFetch(r)
    PROVE  TypeInv'
<1> USE DEF TypeInv, Message, vtgVars, vrpVars, pwVars, otherThanWorker
<1>1. [work |-> rpwl[r], other |-> TRUE, models |-> {}] \in Message
  BY Zenon, InWork DEF RPFetch
<1>2. Append(processed, [work |-> rpwl[r], other |-> TRUE, models |-> {}]) \in Seq(Message)
  BY SMTT(30), <1>1
<1> QED
  BY SMTT(30), <1>2 DEF RPFetch

(* A worker of VRP fails. *)
LEMMA LostType ==
    ASSUME Counting, TypeInv, NEW r \in RPWorkers, RPLost(r)
    PROVE  TypeInv'
  BY SMTT(30), InWork DEF TypeInv, Message, vtgVars, vrpVars, pwVars, otherThanWorker, RPLost

(* The progress watcher counts. *)
LEMMA WatchType ==
    ASSUME Counting, TypeInv, WatchProgress
    PROVE  TypeInv'
<1> USE DEF TypeInv, Message, vtgVars, vrpVars, pwVars, otherThanWorker
<1> DEFINE now == [pw EXCEPT !.finished = @ + tasks_messages.finished,
                             !.failed = @ + tasks_messages.failed,
                             !.total = IF @ = Null THEN total_message ELSE @,
                             !.started = @ \/ flag]
           next == CASE TasksProgress(now) = 100 -> "over"
                     [] TasksProgress(now) \in 11 .. 99 /\ ~now.started -> "failed"
                     [] OTHER -> "watch"
<1>1. now \in [at : {"watch", "over", "failed"}, finished : Nat, failed : Nat,
               total : Nat \cup {Null}, started : BOOLEAN]
  <2> DEFINE f == pw.finished + tasks_messages.finished
             g == pw.failed + tasks_messages.failed
             s == pw.started \/ flag
             total == IF pw.total = Null THEN total_message ELSE pw.total
  <2>1. f \in Nat /\ g \in Nat /\ s \in BOOLEAN /\ total \in Nat \cup {Null}
    BY SMTT(30)
  <2>2. now = [pw EXCEPT !.finished = f, !.failed = g, !.total = total, !.started = s]
    BY Zenon
  <2> HIDE DEF f, g, s, total, now
  <2> QED
    BY Zenon, <2>1, <2>2
<1>2. next \in {"watch", "over", "failed"}
  <2> HIDE DEF now
  <2> QED
    BY Zenon
<1>3. pw' = [now EXCEPT !.at = next]
  BY Zenon DEF WatchProgress
<1>4. tasks_messages' = [finished |-> 0, failed |-> 0]
      /\ UNCHANGED <<setting, vtgVars, vrpVars, total_message, worker, processed, pending_tasks, flag, bridge, core, lost>>
  BY Zenon DEF WatchProgress
<1> HIDE DEF now, next
<1>5. pw' \in [at : {"watch", "over", "failed"}, finished : Nat, failed : Nat,
               total : Nat \cup {Null}, started : BOOLEAN]
  BY Zenon, <1>1, <1>2, <1>3
<1> QED
  BY Zenon, <1>4, <1>5

(* Klever Core ends or fails. *)
LEMMA CoreType ==
    ASSUME Counting, TypeInv, ComponentFails \/ CoreStep
    PROVE  TypeInv'
  BY SMTT(30) DEF TypeInv, Message, vtgVars, vrpVars, pwVars, otherThanWorker, ComponentFails, CoreStep, JobEnds, WatcherFails, CoreFinishes

(* The types hold in every state. *)
LEMMA TypeStep == ASSUME Counting PROVE TypeInv /\ [Next]_vars => TypeInv'
<1> SUFFICES ASSUME TypeInv, [Next]_vars PROVE TypeInv'
  BY Zenon
<1>1. CASE VTGStep
  BY ZenonT(30), <1>1, StartType, SubmitType, TimeoutType, AbstractType, TaskType, DoneType DEF VTGStep
<1>2. CASE \E w \in Work : WorkerStep(w) \/ WorkerLost(w)
  BY Zenon, <1>2, WorkerType, WorkerLostType
<1>3. CASE \E t \in Task : Solved(t)
  BY Zenon, <1>3, SolvedType
<1>4. CASE RPLPoll
  BY Zenon, <1>4, PollType
<1>5. CASE \E r \in RPWorkers : RPWLTake(r) \/ RPFetch(r) \/ RPLost(r)
  BY ZenonT(30), <1>5, RPWLType, FetchType, LostType
<1>6. CASE WatchProgress
  BY Zenon, <1>6, WatchType
<1>7. CASE ComponentFails \/ CoreStep
  BY ZenonT(30), <1>7, CoreType
<1>8. CASE UNCHANGED vars
  BY SMTT(30), <1>8 DEF vars, TypeInv, Message, vtgVars, vrpVars, pwVars, otherThanWorker
<1> QED
  BY Zenon, <1>1, <1>2, <1>3, <1>4, <1>5, <1>6, <1>7, <1>8 DEF Next, RPWLStep, Fault

----------------------------------------------------------------------------
(* The inductive invariant.                                                *)

Settled(w) == worker[w] \in {"put", "exited"}

(* The works whose answer is in the queue 'processed'.                     *)
Answered == {m.work : m \in ToSet(processed)}

(* The abstract tasks whose answer has been read by VTG.                   *)
Read == {a \in Atask : Settled(a) /\ a \notin lost /\ a \notin Answered}

(* Where a task may be on its way through VRP.                             *)
Known == pending \cup (ToSet(pending_tasks) \ {Null})
Passed == ToSet(processing_tasks) \ {Null}
Busy == {rpwl[r] : r \in RPWorkers} \cap Task

(* No list holds a work twice.                                             *)
Lists == /\ OnceBut(prepare, {})
         /\ OnceBut(processed, {})
         /\ \A m, k \in ToSet(processed) : m.work = k.work => m = k
         /\ OnceBut(processing_tasks, {Null})
         /\ \A r, q \in RPWorkers : rpwl[r] = rpwl[q] /\ rpwl[r] \in Task => r = q

(* Every work has one place: it is to be prepared, or with its worker, or  *)
(* in Bridge and VRP, or its answer is there, or the answer was lost.      *)
Places == /\ \A w \in ToSet(prepare) : worker[w] = "none"
          /\ \A t \in Task : bridge[t] # "none" => Settled(t)
          /\ \A w \in lost : Settled(w)
          /\ \A w \in Answered : Settled(w) /\ w \notin lost
          /\ \A t \in Answered \cap Task : bridge[t] \in {"none", "removed"}
          /\ \A t \in Known : bridge[t] \in {"PENDING", "decided"} /\ t \notin lost
          /\ \A t \in Passed \cup Busy : bridge[t] = "decided" /\ t \notin lost
          /\ Known \cap Passed = {} /\ Known \cap Busy = {} /\ Passed \cap Busy = {}

(* Tasks come into being, and are given up, only when VTG reads the answer *)
(* for their abstract task; an alive task has no verdict.                  *)
Families ==
    /\ \A m \in ToSet(processed) : ~m.other => m.models = {}
    /\ \A t \in Task : worker[t] # "none" \/ t \in ToSet(prepare) \/ verdict[t] # "none" => t.atask \in Read
    /\ \A t \in Task : t \in ToSet(prepare) \/ t \in Unanswered \/ t \in Answered => verdict[t] = "none"

Counted == /\ waiting = Cardinality(Unanswered) + Len(processed)
           /\ left_abstract_tasks = Cardinality(Atask \ Read)

(* The beginning and the end of VTG.                                       *)
Phases == /\ vtg = "start" => prepare = <<>> /\ total_message = Null /\ \A w \in Work : worker[w] = "none"
          /\ vtg = "done" => prepare = <<>> /\ waiting = 0
          /\ Null \in ToSet(pending_tasks) => vtg = "done"
          /\ ~receiving => vtg = "done" /\ pending_tasks = <<>>

FlowInv == TypeInv /\ Lists /\ Places /\ Families /\ Counted /\ Phases

----------------------------------------------------------------------------
(* What the invariant says of the works on their way.                      *)

(* What the lists and queues hold are works, messages about works and      *)
(* tasks.                                                                  *)
LEMMA Elements ==
  ASSUME Counting, TypeInv
  PROVE  /\ Atask \subseteq Work /\ Task \subseteq Work
         /\ ToSet(prepare) \subseteq Work /\ ToSet(processed) \subseteq Message /\ Answered \subseteq Work
         /\ Known \subseteq Task /\ Passed \subseteq Task /\ Busy \subseteq Task
         /\ Unanswered \subseteq Work /\ IsFiniteSet(Unanswered) /\ Cardinality(Unanswered) \in Nat
         /\ Len(processed) \in Nat
         /\ IsFiniteSet(Atask \ Read) /\ Cardinality(Atask \ Read) \in Nat
<1>1. Atask \subseteq Work /\ Task \subseteq Work
  BY Zenon DEF Work
<1>2. ToSet(prepare) \subseteq Work /\ ToSet(processed) \subseteq Message
  BY Zenon, ToSetDef DEF TypeInv
<1>3. Answered \subseteq Work
  BY Zenon, <1>2 DEF Answered, Message
<1>4. ToSet(pending_tasks) \subseteq Task \cup {Null} /\ ToSet(processing_tasks) \subseteq Task \cup {Null}
  BY Zenon, ToSetDef DEF TypeInv
<1>5. Known \subseteq Task /\ Passed \subseteq Task /\ Busy \subseteq Task
  BY Zenon, <1>4 DEF Known, Passed, Busy, TypeInv
<1>6. Unanswered \subseteq Work
  BY Zenon, <1>1 DEF Unanswered
<1>7. IsFiniteSet(Unanswered) /\ Cardinality(Unanswered) \in Nat
  BY Zenon, <1>6, WorkFinite, FiniteSubset, FiniteSize
<1>8. IsFiniteSet(Atask \ Read) /\ Cardinality(Atask \ Read) \in Nat
  BY Zenon, CoreConstants, FiniteSubset, FiniteSize
<1>9. Len(processed) \in Nat
  BY DEF TypeInv
<1> QED
  BY Zenon, <1>1, <1>2, <1>3, <1>5, <1>6, <1>7, <1>8, <1>9

(* VTG takes an answer off the queue.                                      *)
LEMMA TakenAnswer ==
  ASSUME Counting, FlowInv, TakeItem
  PROVE  LET m == Head(processed)
         IN  /\ m \in ToSet(processed) /\ m \in Message /\ m.work \in Answered
             /\ ToSet(processed') = ToSet(processed) \ {m}
             /\ Answered' = Answered \ {m.work}
             /\ OnceBut(processed', {})
             /\ Len(processed') = Len(processed) - 1
             /\ waiting' = waiting - 1 /\ vtg = "get" /\ vtg' \in {"loop", "get"}
<1> DEFINE m == Head(processed)
<1>1. processed # <<>> /\ processed' = Tail(processed) /\ waiting' = waiting - 1 /\ vtg = "get" /\ vtg' \in {"loop", "get"}
  BY Zenon DEF TakeItem
<1>2. processed \in Seq(Message) /\ OnceBut(processed, {}) /\ \A x, k \in ToSet(processed) : x.work = k.work => x = k
  BY Zenon DEF FlowInv, TypeInv, Lists
<1>3. /\ m \in ToSet(processed) /\ Len(processed') = Len(processed) - 1
      /\ ToSet(processed) = ToSet(processed') \cup {m}
      /\ OnceBut(processed', {}) /\ m \notin ToSet(processed')
  BY <1>1, <1>2, ToSetTail
<1>4. m \in Message
  BY Zenon, <1>2, <1>3, ToSetDef
<1>5. ToSet(processed') = ToSet(processed) \ {m}
  BY Zenon, <1>3
<1> HIDE DEF m
<1>6. m.work \in Answered
  BY Zenon, <1>3 DEF Answered
<1>7. Answered' = Answered \ {m.work}
  <2>1. Answered' = {x.work : x \in ToSet(processed')}
    BY Zenon DEF Answered
  <2> QED
    BY Zenon, <1>2, <1>3, <1>5, <2>1 DEF Answered
<1> QED
  BY Zenon, <1>1, <1>3, <1>4, <1>5, <1>6, <1>7 DEF m

(* A work that is with its worker is nowhere else.                         *)
LEMMA RunningAlone ==
  ASSUME Counting, FlowInv, NEW w \in Work, worker[w] = "run"
  PROVE  /\ w \in Unanswered /\ w \notin Answered /\ w \notin lost /\ w \notin Read
         /\ w \notin Known /\ w \notin Passed /\ w \notin Busy /\ w \notin ToSet(prepare)
         /\ w \in Task => bridge[w] = "none"
<1>1. w \in Unanswered /\ w \notin Read /\ ~Settled(w)
  BY Zenon DEF Unanswered, Read, Settled
<1> QED
  BY Zenon, <1>1, Elements DEF FlowInv, Places

(* An answer joins the queue 'processed'.                                  *)
LEMMA NewAnswer ==
  ASSUME Counting, FlowInv, NEW m \in Message, m.work \notin Answered, processed' = Append(processed, m)
  PROVE  /\ ToSet(processed') = ToSet(processed) \cup {m}
         /\ Answered' = Answered \cup {m.work}
         /\ OnceBut(processed', {}) /\ Len(processed') = Len(processed) + 1
         /\ \A x, k \in ToSet(processed') : x.work = k.work => x = k
<1>1. processed \in Seq(Message) /\ OnceBut(processed, {}) /\ \A x, k \in ToSet(processed) : x.work = k.work => x = k
  BY Zenon DEF FlowInv, TypeInv, Lists
<1>2. m \notin ToSet(processed) /\ \A x \in ToSet(processed) : x.work # m.work
  BY Zenon DEF Answered
<1>3. ToSet(processed') = ToSet(processed) \cup {m} /\ OnceBut(processed', {})
  BY Zenon, <1>1, <1>2, ToSetAppend
<1>4. Len(processed') = Len(processed) + 1
  BY <1>1
<1>5. Answered' = {x.work : x \in ToSet(processed')}
  BY Zenon DEF Answered
<1>6. Answered' = Answered \cup {m.work}
  BY Zenon, <1>3, <1>5 DEF Answered
<1> QED
  BY Zenon, <1>1, <1>2, <1>3, <1>4, <1>6

(* A worker of VRP lets its task go.                                       *)
LEMMA LetGo ==
  ASSUME Counting, FlowInv, NEW r \in RPWorkers, rpwl[r] \in Task, rpwl' = [rpwl EXCEPT ![r] = Idle]
  PROVE  /\ Busy' = Busy \ {rpwl[r]}
         /\ \A p, q \in RPWorkers : rpwl'[p] = rpwl'[q] /\ rpwl'[p] \in Task => p = q
         /\ rpwl[r] \in Busy /\ rpwl[r] \in Unanswered /\ rpwl[r] \notin Answered /\ rpwl[r] \notin lost
         /\ rpwl[r] \notin Known /\ rpwl[r] \notin Passed /\ rpwl[r] \notin ToSet(prepare)
         /\ bridge[rpwl[r]] = "decided" /\ Settled(rpwl[r])
<1> USE DEF FlowInv
<1> DEFINE t == rpwl[r]
<1>1. /\ \A q \in RPWorkers : q # r => rpwl'[q] = rpwl[q]
      /\ rpwl'[r] \notin Task
      /\ \A q \in RPWorkers : q # r => rpwl[q] # t
  BY ZenonT(30), Marks DEF TypeInv, Lists
<1>2. t \in Busy
  BY Zenon DEF Busy
<1>3. Busy' = Busy \ {t}
  <2>1. Busy' = {rpwl'[q] : q \in RPWorkers} \cap Task
    BY Zenon DEF Busy
  <2> HIDE DEF t
  <2> QED
    BY Zenon, <1>1, <2>1 DEF Busy, t
<1>4. bridge[t] = "decided" /\ t \notin lost /\ Settled(t) /\ t \notin Known /\ t \notin Passed /\ t \notin Answered
  BY Zenon, <1>2 DEF Places
<1>5. t \in Unanswered /\ t \notin ToSet(prepare)
  BY ZenonT(30), <1>4 DEF Unanswered, Places, Settled
<1>6. \A p, q \in RPWorkers : rpwl'[p] = rpwl'[q] /\ rpwl'[p] \in Task => p = q
  BY Zenon, <1>1 DEF Lists
<1> QED
  BY Zenon, <1>2, <1>3, <1>4, <1>5, <1>6
=============================================================================
