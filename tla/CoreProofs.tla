----------------------------- MODULE CoreProofs -----------------------------
(***************************************************************************)
(* Proofs about the verification tasks of a job inside Klever Core, last   *)
(* part: the facts about finite sets, and the theorems.                    *)
(***************************************************************************)
EXTENDS CoreFlowProofs, CoreLedgerProofs, FiniteSetTheorems

----------------------------------------------------------------------------
(* Finite sets.                                                            *)

(* SetToSeq lists the elements of a finite set, each one once. *)
LEMMA SetToSeqIsList ==
  ASSUME NEW S, IsFiniteSet(S)
  PROVE  /\ SetToSeq(S) \in Seq(S)
         /\ Len(SetToSeq(S)) = Cardinality(S)
         /\ ToSet(SetToSeq(S)) = S
         /\ OnceBut(SetToSeq(S), {})
<1> DEFINE n == Cardinality(S)
           q == SetToSeq(S)
<1>1. n \in Nat /\ ExistsBijection(1 .. n, S)
  BY Zenon, FS_CardinalityType
<1>2. PICK f \in Bijection(1 .. n, S) : TRUE
  BY Zenon, <1>1 DEF ExistsBijection
<1>3. f \in [1 .. n -> S] /\ IsInjective(f)
  BY Zenon, <1>2 DEF Bijection, Injection
<1>4. q \in [1 .. n -> S] /\ IsInjective(q)
  <2>1. \A i, j \in DOMAIN f : f[i] = f[j] => i = j
    BY Zenon, <1>3 DEF IsInjective
  <2>2. q \in [1 .. n -> S] /\ \A i, j \in DOMAIN q : q[i] = q[j] => i = j
    BY ZenonT(30), <1>3, <2>1 DEF SetToSeq
  <2> QED
    BY Zenon, <2>2 DEF IsInjective
<1>5. q \in Seq(S) /\ Len(q) = n
  BY <1>1, <1>4
<1>6. IsFiniteSet(1 .. n) /\ Cardinality(1 .. n) = n
  BY <1>1, FS_Interval
<1>7. q \in Injection(1 .. n, S)
  BY Zenon, <1>4 DEF Injection
<1>8. q \in Surjection(1 .. n, S)
  BY Zenon, <1>6, <1>7, FS_Injection
<1>9. \A x \in S : \E i \in 1 .. n : q[i] = x
  BY Zenon, <1>8 DEF Surjection
<1> HIDE DEF q
<1>10. ToSet(q) = S
  BY Zenon, <1>4, <1>9 DEF ToSet
<1>11. OnceBut(q, {})
  BY Zenon, <1>4, <1>5 DEF OnceBut, IsInjective
<1> QED
  BY ZenonT(30), <1>5, <1>10, <1>11 DEF q

(* The numbers of elements of disjoint sets add up.                        *)
LEMMA UnionCounted ==
  ASSUME NEW S, NEW T, IsFiniteSet(S), IsFiniteSet(T), S \cap T = {}
  PROVE  IsFiniteSet(S \cup T) /\ Cardinality(S \cup T) = Cardinality(S) + Cardinality(T)
<1>1. Cardinality(S) \in Nat /\ Cardinality(T) \in Nat
  BY Zenon, FS_CardinalityType
<1>2. Cardinality(S \cap T) = 0
  BY Zenon, FS_EmptySet
<1>3. IsFiniteSet(S \cup T) /\ Cardinality(S \cup T) = Cardinality(S) + Cardinality(T) - Cardinality(S \cap T)
  BY Zenon, FS_Union
<1> QED
  BY SMTT(30), <1>1, <1>2, <1>3

(* A set of records with finitely many values of each field is finite.     *)
LEMMA RecordsFinite ==
  ASSUME NEW a, NEW E, NEW R, IsFiniteSet(E), IsFiniteSet(R)
  PROVE  IsFiniteSet([atask : {a}, envmodel : E, rule : R])
<1> DEFINE S == [atask : {a}, envmodel : E, rule : R]
           f == [p \in E \X R |-> [atask |-> a, envmodel |-> p[1], rule |-> p[2]]]
<1>1. IsFiniteSet(E \X R)
  BY Zenon, FS_Product
<1>2. f \in [E \X R -> S]
  BY Zenon
<1>3. ASSUME NEW t \in S PROVE \E p \in E \X R : f[p] = t
  <2>1. t = [atask |-> a, envmodel |-> t.envmodel, rule |-> t.rule] /\ <<t.envmodel, t.rule>> \in E \X R
    BY Zenon
  <2>2. f[<<t.envmodel, t.rule>>] = t
    BY Zenon, <2>1
  <2> QED
    BY Zenon, <2>1, <2>2
<1>4. f \in Surjection(E \X R, S)
  BY Zenon, <1>2, <1>3 DEF Surjection
<1> QED
  BY Zenon, <1>1, <1>4, FS_Surjection

(* There are finitely many works.                                          *)
LEMMA TasksFinite == IsFiniteSet(Task) /\ IsFiniteSet(Work)
<1> DEFINE G(a) == [atask : {a}, envmodel : Envmodel, rule : Rule(a)]
           g == [a \in Atask |-> G(a)]
           U == {G(a) : a \in Atask}
<1>1. IsFiniteSet(Atask) /\ \A a \in Atask : IsFiniteSet(G(a))
  BY Zenon, CoreConstants, RecordsFinite
<1>2. IsFiniteSet(U)
  <2> HIDE DEF G
  <2>1. g \in Surjection(Atask, U)
    BY Zenon DEF Surjection
  <2> QED
    BY ZenonT(30), <1>1, <2>1, FS_Surjection
<1>3. \A T \in U : IsFiniteSet(T)
  BY Zenon, <1>1
<1>4. IsFiniteSet(UNION U)
  BY Zenon, <1>2, <1>3, FS_UNION
<1>5. Task = UNION U
  BY Zenon DEF Task
<1> QED
  BY Zenon, <1>1, <1>4, <1>5, FS_Union DEF Work

(* With a single environment model the tasks of an abstract task are as    *)
(* many as its requirements.                                               *)
LEMMA FamilyCounted ==
  ASSUME NEW a \in Atask, Cardinality(Envmodel) = 1
  PROVE  /\ IsFiniteSet({t \in Task : t.atask = a})
         /\ Cardinality({t \in Task : t.atask = a}) = Cardinality(Rule(a))
<1> DEFINE F == {t \in Task : t.atask = a}
<1>1. PICK e : Envmodel = {e}
  BY Zenon, CoreConstants, FS_Singleton
<1>2. F = [atask : {a}, envmodel : {e}, rule : Rule(a)]
  <2>1. ASSUME NEW t \in F PROVE t \in [atask : {a}, envmodel : {e}, rule : Rule(a)]
    <3>1. PICK b \in Atask : t \in [atask : {b}, envmodel : Envmodel, rule : Rule(b)]
      BY Zenon DEF Task
    <3>2. b = a
      BY Zenon, <3>1
    <3> QED
      BY ZenonT(30), <1>1, <3>1, <3>2
  <2>2. [atask : {a}, envmodel : {e}, rule : Rule(a)] \subseteq F
    BY ZenonT(30), <1>1, TasksOf
  <2> QED
    BY Zenon, <2>1, <2>2
<1> DEFINE f == [r \in Rule(a) |-> [atask |-> a, envmodel |-> e, rule |-> r]]
<1>3. f \in [Rule(a) -> F]
  BY Zenon, <1>2
<1>4. \A r, q \in Rule(a) : f[r] = f[q] => r = q
  <2> SUFFICES ASSUME NEW r \in Rule(a), NEW q \in Rule(a), f[r] = f[q] PROVE r = q
    BY Zenon
  <2>1. f[r].rule = r /\ f[q].rule = q
    BY Zenon
  <2> QED
    BY Zenon, <2>1
<1>5. ASSUME NEW t \in F PROVE \E r \in Rule(a) : f[r] = t
  <2>1. t \in [atask : {a}, envmodel : {e}, rule : Rule(a)]
    BY Zenon, <1>2
  <2>2. t = [atask |-> a, envmodel |-> e, rule |-> t.rule] /\ t.rule \in Rule(a)
    BY Zenon, <2>1
  <2> QED
    BY Zenon, <2>2
<1> HIDE DEF F, f
<1>6. f \in Injection(Rule(a), F) /\ f \in Surjection(Rule(a), F)
  BY ZenonT(30), <1>3, <1>4, <1>5 DEF Injection, Surjection, IsInjective
<1>7. IsFiniteSet(Rule(a))
  BY ZenonT(30), CoreConstants
<1> QED
  BY ZenonT(30), <1>6, <1>7, FS_Surjection DEF F

(* The facts about finite sets that the proofs rest on.                    *)
LEMMA CountingHolds == Counting
<1>1. IsFiniteSet(Task) /\ IsFiniteSet(Work) /\ IsFiniteSet({}) /\ Cardinality({}) = 0
  BY ZenonT(30), TasksFinite, FS_EmptySet
<1>2. ASSUME NEW S, IsFiniteSet(S)
      PROVE  /\ Cardinality(S) \in Nat
             /\ Cardinality(S) = 0 <=> S = {}
             /\ \A T \in SUBSET S : IsFiniteSet(T) /\ Cardinality(T) <= Cardinality(S)
  BY ZenonT(30), <1>2, FS_CardinalityType, FS_EmptySet, FS_Subset
<1>3. ASSUME NEW S, IsFiniteSet(S), NEW x
      PROVE  /\ IsFiniteSet(S \ {x})
             /\ Cardinality(S \ {x}) = IF x \in S THEN Cardinality(S) - 1 ELSE Cardinality(S)
  BY Zenon, <1>3, FS_RemoveElement
<1>4. ASSUME NEW S, IsFiniteSet(S), NEW x, x \notin S
      PROVE  IsFiniteSet(S \cup {x}) /\ Cardinality(S \cup {x}) = Cardinality(S) + 1
  BY Zenon, <1>4, FS_AddElement
<1>5. ASSUME NEW S, IsFiniteSet(S), NEW T, IsFiniteSet(T), S \cap T = {}
      PROVE  IsFiniteSet(S \cup T) /\ Cardinality(S \cup T) = Cardinality(S) + Cardinality(T)
  BY Zenon, <1>5, UnionCounted
<1>6. ASSUME NEW S, NEW s \in Seq(S), OnceBut(s, {}) PROVE IsFiniteSet(ToSet(s)) /\ Cardinality(ToSet(s)) = Len(s)
  <2> DEFINE n == Len(s)
  <2>0. n \in Nat
    OBVIOUS
  <2>1. IsFiniteSet(1 .. n) /\ Cardinality(1 .. n) = n
    <3> HIDE DEF n
    <3> QED
      BY <2>0, FS_Interval
  <2>2. s \in [1 .. Len(s) -> ToSet(s)] /\ \A x \in ToSet(s) : \E i \in 1 .. Len(s) : s[i] = x
    BY ToSetDef
  <2>3. s \in Surjection(1 .. Len(s), ToSet(s))
    BY Zenon, <2>2 DEF Surjection
  <2>4. s \in Injection(1 .. Len(s), ToSet(s))
    BY Zenon, <1>6, <2>2 DEF Injection, IsInjective, OnceBut
  <2> QED
    BY ZenonT(30), <2>1, <2>3, <2>4, FS_Surjection
<1>7. ASSUME NEW S, IsFiniteSet(S)
      PROVE  /\ SetToSeq(S) \in Seq(S) /\ Len(SetToSeq(S)) = Cardinality(S)
             /\ ToSet(SetToSeq(S)) = S /\ OnceBut(SetToSeq(S), {})
  BY Zenon, <1>7, SetToSeqIsList
<1>8. ASSUME NEW S, IsFiniteSet(S)
      PROVE  /\ Cardinality(S) \in Nat
             /\ Cardinality(S) = 0 <=> S = {}
             /\ \A T \in SUBSET S : IsFiniteSet(T) /\ Cardinality(T) <= Cardinality(S)
             /\ \A x : /\ IsFiniteSet(S \ {x})
                       /\ Cardinality(S \ {x}) = IF x \in S THEN Cardinality(S) - 1 ELSE Cardinality(S)
             /\ \A x : x \notin S => IsFiniteSet(S \cup {x}) /\ Cardinality(S \cup {x}) = Cardinality(S) + 1
             /\ \A T : IsFiniteSet(T) /\ S \cap T = {} =>
                   IsFiniteSet(S \cup T) /\ Cardinality(S \cup T) = Cardinality(S) + Cardinality(T)
             /\ SetToSeq(S) \in Seq(S) /\ Len(SetToSeq(S)) = Cardinality(S)
             /\ ToSet(SetToSeq(S)) = S /\ OnceBut(SetToSeq(S), {})
  BY Zenon, <1>2, <1>3, <1>4, <1>5, <1>7, <1>8
<1>9. \A a \in Atask : Cardinality(Envmodel) = 1 =>
         LET F == {t \in Task : t.atask = a} IN IsFiniteSet(F) /\ Cardinality(F) = Cardinality(Rule(a))
  BY Zenon, FamilyCounted
<1> QED
  BY Zenon, <1>1, <1>6, <1>8, <1>9 DEF Counting

----------------------------------------------------------------------------
(* The theorems.                                                           *)

(* The invariant holds in every state.                                     *)
LEMMA FlowInvariant == Spec => []FlowInv
<1>1. (Init => FlowInv) /\ (FlowInv /\ [Next]_vars => FlowInv')
  BY ZenonT(30), CountingHolds, FlowInit, FlowStep
<1> QED
  BY <1>1, PTL DEF Spec

(* The counter of VTG is exact: for any number of abstract tasks, models,  *)
(* requirements, workers and threads, and whatever is lost on the way,     *)
(* vtg/__init__.py:314 counts the works whose answer is still to come or   *)
(* has not been read.                                                      *)
THEOREM WaitingExactHolds == Spec => []WaitingExact
<1>1. FlowInv => WaitingExact
  <2> SUFFICES ASSUME FlowInv PROVE WaitingExact
    BY Zenon
  <2>1. waiting = Cardinality(Unanswered) + Len(processed) /\ waiting \in 0 .. MaxTasks
    <3>1. waiting = Cardinality(Unanswered) + Len(processed) /\ waiting \in Int /\ waiting <= MaxTasks
      BY Zenon DEF FlowInv, Counted, TypeInv
    <3>2. Cardinality(Unanswered) \in Nat /\ Len(processed) \in Nat /\ MaxTasks \in Nat
      BY ZenonT(30), CountingHolds, Elements, Marks DEF FlowInv
    <3> QED
      BY SMTT(30), <3>1, <3>2
  <2>2. left_abstract_tasks \in 0 .. Cardinality(Atask)
    <3>1. Cardinality(Atask \ Read) \in Nat /\ Cardinality(Atask \ Read) <= Cardinality(Atask) /\ Cardinality(Atask) \in Nat
      BY ZenonT(30), CoreConstants, FS_Subset, FS_CardinalityType
    <3> QED
      BY SMTT(30), <3>1 DEF FlowInv, Counted
  <2> QED
    BY ZenonT(30), <2>1, <2>2 DEF WaitingExact, TypeOK, FlowInv, TypeInv
<1> QED
  BY <1>1, FlowInvariant, PTL

(* VRP never stops expecting tasks while one may still come: when it has   *)
(* read the None of VTG (vrp/__init__.py:88), no worker is running, none   *)
(* is to be started and the queue is empty.                                *)
THEOREM NoLateTaskHolds == Spec => []NoLateTask
<1>1. FlowInv => NoLateTask
  <2> SUFFICES ASSUME FlowInv, ~receiving PROVE (\A w \in Work : worker[w] # "run") /\ prepare = <<>> /\ pending_tasks = <<>>
    BY Zenon DEF NoLateTask
  <2>1. prepare = <<>> /\ pending_tasks = <<>> /\ waiting = 0
    BY Zenon DEF FlowInv, Phases
  <2>2. Cardinality(Unanswered) = 0
    BY SMTT(30), <2>1, CountingHolds, Elements DEF FlowInv, Counted
  <2>3. Unanswered = {}
    BY ZenonT(30), <2>2, CountingHolds, Elements, FS_EmptySet DEF FlowInv
  <2> QED
    BY Zenon, <2>1, <2>3 DEF Unanswered
<1> QED
  BY <1>1, FlowInvariant, PTL

(* The directory of an abstract task is never removed while a task of it   *)
(* is waiting to be prepared, being prepared, solved or processed          *)
(* (vtg/__init__.py:437), for any number of tasks, workers and threads.    *)
THEOREM DirKeptHolds == Spec => []DirKept
<1>1. Init => DirInv
  <2> SUFFICES ASSUME Init PROVE DirInv
    BY Zenon
  <2>1. ToSet(prepare) = {}
    BY DEF Init, ToSet
  <2> QED
    BY Zenon, <2>1 DEF Init, DirInv, Started, Work
<1>2. FlowInv /\ DirInv => DirKept
  <2> SUFFICES ASSUME FlowInv, DirInv, NEW t \in Task, t \in ToSet(prepare) \/ t \in Unanswered PROVE t.atask \in dirs
    BY Zenon DEF DirKept
  <2>1. Started(t)
    BY Zenon DEF Started, Unanswered, FlowInv, Places, Settled
  <2>2. verdict[t] = "none"
    BY Zenon DEF FlowInv, Families
  <2> QED
    BY Zenon, <2>1, <2>2 DEF DirInv
<1>3. FlowInv /\ FlowInv' /\ DirInv /\ [Next]_vars => DirInv'
  BY Zenon, CountingHolds, DirStep
<1> QED
  BY <1>1, <1>2, <1>3, FlowInvariant, PTL DEF Spec

(* Core implements the ledger: every task that is expected is decided at   *)
(* most once, the number of tasks is announced once and is the number of   *)
(* tasks that are expected, the watcher (progress.py) never shows more     *)
(* than was decided and ends only when it shows a verdict for every task.  *)
THEOREM LedgerImplemented == Spec => ImplementsLedger
<1>1. Init => LedgerInv /\ Ledger!LedgerInit
  BY ZenonT(30), CountingHolds, LedgerInitial
<1>2. FlowInv /\ FlowInv' /\ LedgerInv /\ [Next]_vars => LedgerInv'
  BY Zenon, CountingHolds, LedgerStep
<1>3. FlowInv /\ FlowInv' /\ LedgerInv /\ [Next]_vars => [Ledger!LedgerNext]_(Ledger!ledgerVars)
  BY Zenon, CountingHolds, LedgerSimulation
<1>4. Spec => [](FlowInv /\ LedgerInv)
  BY <1>1, <1>2, FlowInvariant, PTL DEF Spec
<1> QED
  BY <1>1, <1>3, <1>4, PTL DEF Spec, ImplementsLedger, Ledger!LedgerSpec
=============================================================================
