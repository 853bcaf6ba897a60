--------------------------- MODULE CoreFlowProofs ---------------------------
(***************************************************************************)
(* Proofs about the verification tasks of a job inside Klever Core, second *)
(* part: every step of VTG, its workers, Bridge and VRP keeps the          *)
(* invariant of CoreTasksProofs.                                           *)
(***************************************************************************)
EXTENDS CoreTasksProofs

(* At the start nothing is on its way. *)
LEMMA FlowInit == ASSUME Counting PROVE Init => FlowInv
<1> SUFFICES ASSUME Init PROVE FlowInv
  BY Zenon
<1>1. TypeInv
  BY Zenon, TypeInit
<1>2. /\ ToSet(prepare) = {} /\ ToSet(processed) = {} /\ ToSet(pending_tasks) = {} /\ ToSet(processing_tasks) = {}
      /\ Len(prepare) = 0 /\ Len(processed) = 0 /\ Len(processing_tasks) = 0
  BY DEF Init, ToSet
<1>3. Answered = {} /\ Known = {} /\ Passed = {}
  BY Zenon, <1>2 DEF Answered, Known, Passed, Init
<1>4. Busy = {}
  BY Zenon, Marks DEF Busy, Init
<1>5. Read = {}
  BY Zenon, Marks DEF Read, Settled, Init, Work
<1>6. Unanswered = {}
  BY Zenon DEF Unanswered, Init
<1>7. Lists
  BY <1>2, Marks DEF Lists, OnceBut, Init
<1>8. Places
  BY Zenon, <1>2, <1>3, <1>4, Marks DEF Places, Init, Work
<1>9. Families
  BY Zenon, <1>2, Marks DEF Families, Init, Work
<1>10. Counted
  <2>1. Cardinality(Unanswered) = 0
    BY Zenon, <1>6, FiniteEmpty
  <2>2. Cardinality(Atask \ Read) = left_abstract_tasks
    <3>1. Atask \ Read = Atask
      BY Zenon, <1>5
    <3> QED
      BY Zenon, <3>1 DEF Init
  <2>3. waiting = 0
    BY Zenon DEF Init
  <2> QED
    BY <1>2, <2>1, <2>2, <2>3 DEF Counted
<1>11. Phases
  BY Zenon, <1>2 DEF Phases, Init
<1> QED
  BY Zenon, <1>1, <1>7, <1>8, <1>9, <1>10, <1>11 DEF FlowInv

(* VTG puts every abstract task into its list of works to prepare. *)
LEMMA StartFlow == ASSUME Counting, FlowInv, TypeInv', VTGStart PROVE FlowInv'
<1> USE DEF FlowInv, vrpVars
<1>1. prepare' = SetToSeq(Atask) /\ vtg' = "loop" /\ vtg = "start"
      /\ UNCHANGED <<waiting, left_abstract_tasks, vrpVars, worker, processed, pending_tasks, bridge, lost, verdict>>
  BY Zenon DEF VTGStart
<1>2. ToSet(prepare') = Atask /\ OnceBut(prepare', {})
  BY Zenon, <1>1, CoreConstants, SetToSeqLists
<1>3. prepare = <<>> /\ \A w \in Work : worker[w] = "none"
  BY Zenon, <1>1 DEF Phases
<1>4. /\ Answered' = Answered /\ Known' = Known /\ Passed' = Passed /\ Busy' = Busy
      /\ Unanswered' = Unanswered
  BY Zenon, <1>1 DEF Answered, Known, Passed, Busy, Unanswered
<1>5. Read' = Read
  BY Zenon, <1>1, <1>4 DEF Read, Settled
<1>6. Lists'
  BY Zenon, <1>1, <1>2 DEF Lists
<1>7. Places'
  BY Zenon, <1>1, <1>2, <1>3, <1>4, Elements DEF Places, Settled
<1>8. Families'
  BY Zenon, <1>1, <1>2, <1>4, <1>5, Marks DEF Families
<1>9. Counted'
  BY Zenon, <1>1, <1>4, <1>5 DEF Counted
<1>10. Phases'
  BY Zenon, <1>1 DEF Phases
<1> QED
  BY Zenon, <1>6, <1>7, <1>8, <1>9, <1>10

(* VTG submits the first works of its list: each goes from the list to a   *)
(* worker and is counted.                                                  *)
LEMMA SubmitFlow == ASSUME Counting, FlowInv, TypeInv', VTGSubmit PROVE FlowInv'
<1> USE DEF FlowInv, vrpVars, pwVars
<1> DEFINE alive == {w \in prepare_workers : worker[w] # "exited"}
           n == Submitted(alive)
           back == SubSeq(prepare, Len(prepare) - n + 1, Len(prepare))
           B == ToSet(back)
<1>1. /\ prepare' = SubSeq(prepare, 1, Len(prepare) - n)
      /\ worker' = [w \in Work |-> IF w \in B THEN "run" ELSE worker[w]]
      /\ waiting' = waiting + n
      /\ vtg' = "get" /\ vtg = "loop"
      /\ UNCHANGED <<left_abstract_tasks, total_message, vrpVars, processed, pending_tasks, bridge, lost, verdict>>
  BY Zenon DEF VTGSubmit
<1>2. n \in 0 .. Len(prepare)
  BY Zenon, SubmittedBounds DEF TypeInv
<1>3. /\ prepare \in Seq(Work) /\ OnceBut(prepare, {})
  BY Zenon DEF Lists, TypeInv
<1>4. /\ OnceBut(prepare', {})
      /\ ToSet(prepare') \cap B = {}
      /\ ToSet(prepare') \cup B = ToSet(prepare)
      /\ IsFiniteSet(B) /\ Cardinality(B) = n
  <2> HIDE DEF n
  <2> QED
    BY ZenonT(30), <1>1, <1>2, <1>3, ToSetCut
<1> HIDE DEF n, B
<1>5. /\ B \subseteq Work /\ \A w \in B : worker[w] = "none" /\ worker'[w] = "run"
      /\ \A w \in Work \ B : worker'[w] = worker[w]
  BY Zenon, <1>1, <1>4, Elements DEF Places
<1>6. \A w \in Work : /\ Settled(w)' <=> Settled(w)
                      /\ worker[w] # "none" => worker'[w] # "none"
  BY Zenon, <1>1, <1>5 DEF Settled
<1>7. Answered' = Answered /\ Known' = Known /\ Passed' = Passed /\ Busy' = Busy
  BY Zenon, <1>1 DEF Answered, Known, Passed, Busy
<1>8. Read' = Read
  BY Zenon, <1>1, <1>6, <1>7, Elements DEF Read
<1>9. Unanswered' = Unanswered \cup B
  BY Zenon, <1>1, <1>5 DEF Unanswered
<1>10. Unanswered \cap B = {}
  BY Zenon, <1>5 DEF Unanswered, Places, Settled
<1>11. Lists'
  BY Zenon, <1>1, <1>4 DEF Lists
<1>12. Places'
  <2>1. \A w \in ToSet(prepare') : worker'[w] = "none"
    BY Zenon, <1>4, <1>5, Elements DEF Places
  <2> QED
    BY ZenonT(30), <1>1, <1>6, <1>7, <2>1, Elements DEF Places, TypeInv
<1>13. Families'
  <2>1. \A t \in Task : worker'[t] # "none" => worker[t] # "none" \/ t \in ToSet(prepare)
    BY Zenon, <1>4, <1>5, Elements
  <2>2. \A t \in Task : t \in ToSet(prepare') \/ t \in Unanswered' => t \in ToSet(prepare) \/ t \in Unanswered
    BY Zenon, <1>4, <1>9
  <2> QED
    BY Zenon, <1>1, <1>4, <1>7, <1>8, <2>1, <2>2 DEF Families
<1>14. Counted'
  <2>1. Cardinality(Unanswered \cup B) = Cardinality(Unanswered) + n
    BY Zenon, <1>4, <1>10, Elements, DisjointUnion
  <2> QED
    BY SMTT(30), <1>1, <1>2, <1>8, <1>9, <2>1, Elements DEF Counted
<1>15. Phases'
  BY Zenon, <1>1 DEF Phases
<1> QED
  BY Zenon, <1>11, <1>12, <1>13, <1>14, <1>15

(* VTG takes the models of an abstract task: its tasks enter the list and  *)
(* the abstract task is no longer counted.                                 *)
LEMMA AbstractFlow == ASSUME Counting, FlowInv, TypeInv', VTGAbstract PROVE FlowInv'
<1> USE DEF FlowInv, vrpVars
<1> DEFINE m == Head(processed)
           a == m.work
           new == [atask : {a}, envmodel : m.models, rule : Rule(a)]
<1>1. /\ m \in ToSet(processed) /\ m \in Message /\ a \in Answered /\ a \in Atask
      /\ ToSet(processed') = ToSet(processed) \ {m}
      /\ Answered' = Answered \ {a}
      /\ OnceBut(processed', {})
      /\ Len(processed') = Len(processed) - 1
      /\ waiting' = waiting - 1 /\ vtg = "get" /\ vtg' \in {"loop", "get"}
  BY Zenon, TakenAnswer DEF VTGAbstract
<1>2. /\ left_abstract_tasks' = left_abstract_tasks - 1
      /\ prepare' = prepare \o SetToSeq(new)
      /\ UNCHANGED <<vrpVars, worker, pending_tasks, bridge, lost>>
  BY Zenon DEF VTGAbstract
<1>3. verdict' \in {verdict, [t \in Task |-> IF t.atask = a THEN "failed" ELSE verdict[t]]}
  BY Zenon DEF VTGAbstract
<1>4. new \subseteq Task /\ IsFiniteSet(new) /\ \A t \in new : t.atask = a
  <2>1. new \subseteq Task /\ \A t \in new : t.atask = a
    BY Zenon, <1>1, TasksOf DEF Message
  <2> QED
    BY ZenonT(30), <2>1, WorkFinite, FiniteSubset
<1>5. SetToSeq(new) \in Seq(Work) /\ ToSet(SetToSeq(new)) = new /\ OnceBut(SetToSeq(new), {})
  <2> HIDE DEF new
  <2>1. SetToSeq(new) \in Seq(new) /\ new \subseteq Work
    BY Zenon, <1>4, SetToSeqLists, Elements
  <2> QED
    BY SMTT(30), <1>4, <2>1, SetToSeqLists
<1> HIDE DEF m, new
<1>6. a \notin Read
  BY Zenon, <1>1 DEF Read
<1>7. \A t \in Task : t.atask = a => worker[t] = "none" /\ t \notin ToSet(prepare) /\ verdict[t] = "none"
  BY Zenon, <1>6 DEF Families
<1>8. Known' = Known /\ Passed' = Passed /\ Busy' = Busy /\ Unanswered' = Unanswered
  BY Zenon, <1>2 DEF Known, Passed, Busy, Unanswered
<1>9. Read' = Read \cup {a}
  BY SMTT(30), <1>1, <1>2 DEF Read, Settled, Places
<1>10. OnceBut(prepare', {}) /\ ToSet(prepare') = ToSet(prepare) \cup new
  <2>1. ToSet(prepare) \cap new \subseteq {}
    BY Zenon, <1>4, <1>7
  <2> QED
    <3>1. prepare \in Seq(Work) /\ OnceBut(prepare, {})
      BY Zenon DEF Lists, TypeInv
    <3>2. ToSet(prepare) \cap ToSet(SetToSeq(new)) \subseteq {}
      BY Zenon, <1>5, <2>1
    <3> QED
      BY SMTT(30), <1>2, <1>5, <3>1, <3>2, ToSetConcat
<1>11. Lists'
  BY Zenon, <1>1, <1>2, <1>10 DEF Lists
<1>12. Places'
  BY Zenon, <1>1, <1>2, <1>4, <1>7, <1>8, <1>10 DEF Places, Settled
<1>13. Families'
  <2>1. \A x \in ToSet(processed') : ~x.other => x.models = {}
    BY Zenon, <1>1 DEF Families
  <2>2. ASSUME NEW t \in Task, worker'[t] # "none" \/ t \in ToSet(prepare') \/ verdict'[t] # "none"
        PROVE  t.atask \in Read'
    BY Zenon, <1>2, <1>3, <1>4, <1>9, <1>10, <2>2 DEF Families
  <2>3. ASSUME NEW t \in Task, t \in ToSet(prepare') \/ t \in Unanswered' \/ t \in Answered'
        PROVE  verdict'[t] = "none"
    <3>1. CASE t \in new
      <4>1. new # {}
        BY Zenon, <3>1
      <4>2. verdict' = verdict
        BY Zenon, <4>1 DEF VTGAbstract, new, m
      <4> QED
        BY Zenon, <1>4, <1>7, <3>1, <4>2
    <3>2. CASE t \notin new
      <4>1. t \in ToSet(prepare) \/ t \in Unanswered \/ t \in Answered
        BY Zenon, <1>1, <1>8, <1>10, <2>3, <3>2
      <4>2. worker[t] # "none" \/ t \in ToSet(prepare)
        BY Zenon, <4>1 DEF Unanswered, Places, Settled
      <4>3. t.atask # a /\ verdict[t] = "none"
        BY Zenon, <1>7, <4>1, <4>2 DEF Families
      <4> QED
        BY Zenon, <1>3, <4>3
    <3> QED
      BY Zenon, <3>1, <3>2
  <2> QED
    BY Zenon, <2>1, <2>2, <2>3 DEF Families
<1>14. Counted'
  <2>1. Cardinality(Atask \ Read') = Cardinality(Atask \ Read) - 1
    <3>1. Atask \ Read' = (Atask \ Read) \ {a} /\ a \in Atask \ Read
      BY Zenon, <1>1, <1>6, <1>9
    <3>2. Cardinality((Atask \ Read) \ {a}) = IF a \in Atask \ Read THEN Cardinality(Atask \ Read) - 1 ELSE Cardinality(Atask \ Read)
      BY ZenonT(30), Elements, FiniteRemove
    <3> QED
      BY Zenon, <3>1, <3>2
  <2>2. waiting' = Cardinality(Unanswered') + Len(processed')
    BY SMTT(30), <1>1, <1>8, Elements DEF Counted
  <2> QED
    BY Zenon, <1>2, <2>1, <2>2 DEF Counted
<1>15. Phases'
  BY Zenon, <1>1, <1>2 DEF Phases
<1> QED
  BY Zenon, <1>11, <1>12, <1>13, <1>14, <1>15

(* VTG takes the answer about a task, which is no longer counted. *)
LEMMA TaskFlow == ASSUME Counting, FlowInv, TypeInv', VTGTask PROVE FlowInv'
<1> USE DEF FlowInv, vrpVars
<1> DEFINE m == Head(processed)
           t == m.work
           status == IF m.other THEN "finished" ELSE "failed"
<1>1. /\ m \in ToSet(processed) /\ m \in Message /\ t \in Answered /\ t \in Task
      /\ ToSet(processed') = ToSet(processed) \ {m}
      /\ Answered' = Answered \ {t}
      /\ OnceBut(processed', {})
      /\ Len(processed') = Len(processed) - 1
      /\ waiting' = waiting - 1 /\ vtg = "get" /\ vtg' \in {"loop", "get"}
  BY ZenonT(30), TakenAnswer DEF VTGTask
<1>2. /\ verdict' = [verdict EXCEPT ![t] = status]
      /\ UNCHANGED <<prepare, left_abstract_tasks, vrpVars, worker, pending_tasks, bridge, lost>>
  BY Zenon DEF VTGTask
<1> HIDE DEF m
<1>3. Known' = Known /\ Passed' = Passed /\ Busy' = Busy /\ Unanswered' = Unanswered
  BY Zenon, <1>2 DEF Known, Passed, Busy, Unanswered
<1>4. Read' = Read
  BY Zenon, <1>1, <1>2, Marks DEF Read, Settled
<1>5. t \notin Unanswered /\ t \notin ToSet(prepare) /\ worker[t] # "none"
  BY Zenon, <1>1 DEF Unanswered, Places, Settled
<1>6. \A u \in Task : u # t => verdict'[u] = verdict[u]
  BY ZenonT(30), <1>2 DEF TypeInv
<1>7. Lists'
  BY Zenon, <1>1, <1>2 DEF Lists
<1>8. Places'
  BY ZenonT(30), <1>1, <1>2, <1>3 DEF Places, Settled
<1>9. Families'
  <2>1. \A x \in ToSet(processed') : ~x.other => x.models = {}
    BY Zenon, <1>1 DEF Families
  <2>2. ASSUME NEW u \in Task, worker'[u] # "none" \/ u \in ToSet(prepare') \/ verdict'[u] # "none"
        PROVE  u.atask \in Read'
    BY Zenon, <1>2, <1>4, <1>5, <1>6, <2>2 DEF Families
  <2>3. ASSUME NEW u \in Task, u \in ToSet(prepare') \/ u \in Unanswered' \/ u \in Answered'
        PROVE  verdict'[u] = "none"
    BY Zenon, <1>1, <1>2, <1>3, <1>5, <1>6, <2>3 DEF Families
  <2> QED
    BY Zenon, <2>1, <2>2, <2>3 DEF Families
<1>10. Counted'
  BY SMTT(30), <1>1, <1>2, <1>3, <1>4, Elements DEF Counted
<1>11. Phases'
  BY Zenon, <1>1, <1>2 DEF Phases
<1> QED
  BY Zenon, <1>7, <1>8, <1>9, <1>10, <1>11

(* VTG ends when it counts nothing: no work is on its way. *)
LEMMA DoneFlow == ASSUME Counting, FlowInv, TypeInv', VTGDone PROVE FlowInv'
<1> USE DEF FlowInv, vrpVars
<1>1. /\ vtg = "loop" /\ prepare = <<>> /\ waiting = 0 /\ vtg' = "done"
      /\ pending_tasks' = Append(pending_tasks, Null)
      /\ UNCHANGED <<prepare, waiting, left_abstract_tasks, vrpVars, worker, processed, bridge, lost, verdict>>
  BY Zenon DEF VTGDone
<1>2. ToSet(pending_tasks') = ToSet(pending_tasks) \cup {Null}
  <2>1. pending_tasks \in Seq(Task \cup {Null}) /\ Null \in Task \cup {Null}
    BY Zenon DEF TypeInv
  <2> QED
    BY SMTT(30), <1>1, <2>1, ToSetAppend
<1>3. /\ Answered' = Answered /\ Known' = Known /\ Passed' = Passed /\ Busy' = Busy /\ Unanswered' = Unanswered
  BY Zenon, <1>1, <1>2 DEF Answered, Known, Passed, Busy, Unanswered
<1>4. Read' = Read
  BY Zenon, <1>1, <1>3 DEF Read, Settled
<1>5. Lists' /\ Places' /\ Families' /\ Counted'
  BY Zenon, <1>1, <1>3, <1>4 DEF Lists, Places, Families, Counted, Settled
<1>6. Phases'
  BY Zenon, <1>1 DEF Phases
<1> QED
  BY Zenon, <1>5, <1>6

(* A worker answers (EMGWSend, PluginFails).                               *)
LEMMA AnswerFlow ==
  ASSUME Counting, FlowInv, TypeInv',
         NEW w \in Work, NEW answered \in BOOLEAN, NEW models \in SUBSET Envmodel, ~answered => models = {},
         worker[w] = "run", Answer(w, answered, models),
         UNCHANGED <<vtgVars, vrpVars, pwVars, pending_tasks, bridge, lost>>
  PROVE  FlowInv'
<1> USE DEF FlowInv, vrpVars, vtgVars, pwVars
<1> DEFINE m == [work |-> w, other |-> answered, models |-> models]
<1>1. m \in Message /\ m.work = w /\ (~m.other => m.models = {}) /\ processed' = Append(processed, m)
  BY Zenon DEF Message, Answer
<1>2. worker' = [worker EXCEPT ![w] = "put"]
  BY Zenon DEF Answer
<1> HIDE DEF m
<1>3. /\ w \in Unanswered /\ w \notin Answered /\ w \notin lost /\ w \notin Read
      /\ w \notin Known /\ w \notin Passed /\ w \notin Busy /\ w \notin ToSet(prepare)
      /\ w \in Task => bridge[w] = "none"
  BY Zenon, RunningAlone
<1>4. /\ ToSet(processed') = ToSet(processed) \cup {m}
      /\ Answered' = Answered \cup {w}
      /\ OnceBut(processed', {}) /\ Len(processed') = Len(processed) + 1
      /\ \A x, k \in ToSet(processed') : x.work = k.work => x = k
  BY ZenonT(30), <1>1, <1>3, NewAnswer
<1>5. /\ \A v \in Work : v # w => worker'[v] = worker[v]
      /\ worker'[w] = "put"
  BY SMTT(30), <1>2 DEF TypeInv
<1>6. Known' = Known /\ Passed' = Passed /\ Busy' = Busy
  BY ZenonT(30) DEF Known, Passed, Busy
<1>7. Unanswered' = Unanswered \ {w}
  BY ZenonT(30), <1>3, <1>5 DEF Unanswered
<1>8. Read' = Read
  BY ZenonT(30), <1>3, <1>4, <1>5, Elements DEF Read, Settled
<1>9. \A v \in Work : Settled(v) => Settled(v)'
  BY ZenonT(30), <1>5 DEF Settled
<1>10. Lists'
  BY Zenon, <1>4 DEF Lists
<1>11. Places'
  <2>1. Settled(w)'
    BY ZenonT(30), <1>5 DEF Settled
  <2>2. \A v \in ToSet(prepare) : worker'[v] = "none"
    BY ZenonT(30), <1>3, <1>5, Elements DEF Places
  <2>3. \A t \in Task : bridge[t] # "none" => Settled(t)'
    BY Zenon, <1>9, Elements DEF Places
  <2>4. \A v \in Answered' : Settled(v)' /\ v \notin lost
    BY ZenonT(30), <1>3, <1>4, <1>9, <2>1, Elements DEF Places
  <2>5. \A v \in lost : Settled(v)'
    BY Zenon, <1>9 DEF Places, TypeInv
  <2>6. \A t \in Answered' \cap Task : bridge[t] \in {"none", "removed"}
    BY ZenonT(30), <1>3, <1>4 DEF Places
  <2> QED
    BY ZenonT(30), <1>6, <2>2, <2>3, <2>4, <2>5, <2>6 DEF Places
<1>12. Families'
  <2>1. \A x \in ToSet(processed') : ~x.other => x.models = {}
    BY Zenon, <1>1, <1>4 DEF Families
  <2>2. \A t \in Task : worker'[t] # "none" => worker[t] # "none"
    BY ZenonT(30), <1>5, Elements
  <2>3. w \in Task => verdict[w] = "none"
    BY ZenonT(30), <1>3 DEF Families
  <2> QED
    BY ZenonT(30), <1>4, <1>7, <1>8, <2>1, <2>2, <2>3 DEF Families
<1>13. Counted'
  <2>1. Cardinality(Unanswered \ {w}) = Cardinality(Unanswered) - 1
    BY ZenonT(30), <1>3, Elements, FiniteRemove
  <2> QED
    BY SMTT(30), <1>4, <1>7, <1>8, <2>1, Elements DEF Counted
<1>14. Phases'
  <2>1. vtg # "start"
    BY Zenon DEF Phases
  <2> QED
    BY Zenon, <2>1 DEF Phases
<1> QED
  BY Zenon, <1>10, <1>11, <1>12, <1>13, <1>14

(* The worker of a task has submitted it to Bridge and tells VRP. *)
LEMMA PluginsFlow == ASSUME Counting, FlowInv, TypeInv', NEW t \in Task, PLUGINSSubmit(t) PROVE FlowInv'
<1> USE DEF FlowInv, vrpVars, vtgVars, pwVars
<1>1. /\ worker[t] = "run" /\ worker' = [worker EXCEPT ![t] = "put"]
      /\ bridge' = [bridge EXCEPT ![t] = "PENDING"]
      /\ pending_tasks' = Append(pending_tasks, t)
      /\ UNCHANGED <<vtgVars, vrpVars, pwVars, processed, lost>>
  BY Zenon DEF PLUGINSSubmit, otherThanWorker
<1>2. t \in Work /\ Task \subseteq Work
  BY Zenon, Elements
<1>3. /\ t \in Unanswered /\ t \notin Answered /\ t \notin lost /\ t \notin Read
      /\ t \notin Known /\ t \notin Passed /\ t \notin Busy /\ t \notin ToSet(prepare)
      /\ bridge[t] = "none"
  BY Zenon, <1>1, <1>2, RunningAlone
<1>4. /\ \A v \in Work : v # t => worker'[v] = worker[v]
      /\ worker'[t] = "put"
      /\ \A u \in Task : u # t => bridge'[u] = bridge[u]
      /\ bridge'[t] = "PENDING"
  BY SMTT(30), <1>1, <1>2 DEF TypeInv
<1>5. ToSet(pending_tasks') = ToSet(pending_tasks) \cup {t}
  <2>1. pending_tasks \in Seq(Task \cup {Null}) /\ t \in Task \cup {Null}
    BY Zenon DEF TypeInv
  <2> QED
    BY SMTT(30), <1>1, <2>1, ToSetAppend
<1>6. Known' = Known \cup {t} /\ Passed' = Passed /\ Busy' = Busy /\ Answered' = Answered
  BY ZenonT(30), <1>1, <1>5, Marks DEF Known, Passed, Busy, Answered
<1>7. Unanswered' = Unanswered
  BY Zenon, <1>1, <1>2, <1>3, <1>4 DEF Unanswered
<1>8. Read' = Read
  BY Zenon, <1>1, <1>4, <1>6, Marks, Elements DEF Read, Settled
<1>9. \A v \in Work : Settled(v) => Settled(v)'
  BY Zenon, <1>4 DEF Settled
<1>10. Lists'
  BY Zenon, <1>1 DEF Lists
<1>11. Places'
  <2>1. Settled(t)'
    BY Zenon, <1>4 DEF Settled
  <2>2. \A v \in ToSet(prepare) : worker'[v] = "none"
    BY Zenon, <1>3, <1>4, Elements DEF Places
  <2>3. \A u \in Passed \cup Busy \cup (Answered \cap Task) : u \in Task /\ bridge'[u] = bridge[u]
    BY Zenon, <1>3, <1>4, Elements
  <2>4. \A u \in Task : bridge'[u] # "none" => Settled(u)'
    BY Zenon, <1>2, <1>4, <1>9, <2>1 DEF Places
  <2>5. \A u \in Known' : bridge'[u] \in {"PENDING", "decided"} /\ u \notin lost'
    BY Zenon, <1>1, <1>3, <1>4, <1>6, Elements DEF Places
  <2>6. (\A v \in Answered' : Settled(v)' /\ v \notin lost) /\ (\A v \in lost : Settled(v)')
    BY ZenonT(30), <1>6, <1>9, Elements DEF Places, TypeInv
  <2> QED
    BY SMTT(30), <1>1, <1>3, <1>6, <2>2, <2>3, <2>4, <2>5, <2>6 DEF Places
<1>12. Families'
  <2>1. \A u \in Task : worker'[u] # "none" => worker[u] # "none"
    BY Zenon, <1>1, <1>2, <1>4
  <2> QED
    BY Zenon, <1>1, <1>6, <1>7, <1>8, <2>1 DEF Families
<1>13. Counted'
  BY Zenon, <1>1, <1>7, <1>8 DEF Counted
<1>14. Phases'
  <2>1. vtg # "start" /\ waiting # 0
    <3>1. Cardinality(Unanswered) # 0
      BY Zenon, <1>3, Elements, FiniteEmpty
    <3> QED
      BY SMTT(30), <1>1, <1>2, <3>1, Elements DEF Phases, Counted
  <2>2. vtg # "done" /\ receiving /\ Null \notin ToSet(pending_tasks)
    BY Zenon, <2>1 DEF Phases, TypeInv
  <2> QED
    BY ZenonT(30), <1>1, <1>5, <2>1, <2>2, Marks DEF Phases
<1> QED
  BY Zenon, <1>10, <1>11, <1>12, <1>13, <1>14

(* A worker sets the flag after its last message and exits. *)
LEMMA EndsFlow == ASSUME Counting, FlowInv, TypeInv', NEW w \in Work, WorkerEnds(w) PROVE FlowInv'
<1> USE DEF FlowInv, vrpVars, vtgVars, pwVars
<1>1. /\ worker[w] = "put" /\ worker' = [worker EXCEPT ![w] = "exited"]
      /\ UNCHANGED <<vtgVars, vrpVars, pwVars, processed, pending_tasks, bridge, lost>>
  BY Zenon DEF WorkerEnds, otherThanWorker
<1>2. \A v \in Work : /\ Settled(v)' <=> Settled(v)
                      /\ worker'[v] = "run" <=> worker[v] = "run"
                      /\ worker'[v] = "none" <=> worker[v] = "none"
  BY ZenonT(30), <1>1 DEF Settled, TypeInv
<1>3. Known' = Known /\ Passed' = Passed /\ Busy' = Busy /\ Answered' = Answered
  BY ZenonT(30), <1>1 DEF Known, Passed, Busy, Answered
<1>4. Unanswered' = Unanswered
  BY Zenon, <1>1, <1>2 DEF Unanswered
<1>5. Read' = Read
  BY Zenon, <1>1, <1>2, <1>3, Elements DEF Read
<1>6. Lists' /\ Counted'
  BY Zenon, <1>1, <1>4, <1>5 DEF Lists, Counted
<1>7. Places'
  BY ZenonT(30), <1>1, <1>2, <1>3, Elements DEF Places, TypeInv
<1>8. Families'
  BY ZenonT(30), <1>1, <1>2, <1>3, <1>4, <1>5, Elements DEF Families
<1>9. Phases'
  BY Zenon, <1>1, <1>2 DEF Phases
<1> QED
  BY Zenon, <1>6, <1>7, <1>8, <1>9

(* A worker that ends without a word is lost: VTG counts its work for      *)
(* ever.                                                                   *)
LEMMA WorkerLostFlow == ASSUME Counting, FlowInv, TypeInv', NEW w \in Work, WorkerLost(w) PROVE FlowInv'
<1> USE DEF FlowInv, vrpVars, vtgVars, pwVars
<1>1. /\ worker[w] = "run" /\ worker' = [worker EXCEPT ![w] = "exited"] /\ lost' = lost \cup {w}
      /\ UNCHANGED <<vtgVars, vrpVars, pwVars, processed, pending_tasks, bridge>>
  BY Zenon DEF WorkerLost, otherThanWorker
<1>2. /\ w \in Unanswered /\ w \notin Answered /\ w \notin lost /\ w \notin Read
      /\ w \notin Known /\ w \notin Passed /\ w \notin Busy /\ w \notin ToSet(prepare)
  BY Zenon, <1>1, RunningAlone
<1>3. /\ \A v \in Work : v # w => worker'[v] = worker[v]
      /\ worker'[w] = "exited"
  BY ZenonT(30), <1>1 DEF TypeInv
<1>4. Known' = Known /\ Passed' = Passed /\ Busy' = Busy /\ Answered' = Answered
  BY ZenonT(30), <1>1 DEF Known, Passed, Busy, Answered
<1>5. Unanswered' = Unanswered
  BY Zenon, <1>1, <1>2, <1>3 DEF Unanswered
<1>6. Read' = Read
  BY Zenon, <1>1, <1>2, <1>3, <1>4, Elements DEF Read, Settled
<1>7. \A v \in Work : Settled(v) => Settled(v)'
  BY Zenon, <1>3 DEF Settled
<1>8. Lists' /\ Counted'
  BY Zenon, <1>1, <1>5, <1>6 DEF Lists, Counted
<1>9. Places'
  <2>1. Settled(w)'
    BY Zenon, <1>3 DEF Settled
  <2>2. \A v \in ToSet(prepare) : worker'[v] = "none"
    BY ZenonT(30), <1>2, <1>3, Elements DEF Places
  <2>3. \A t \in Task : bridge'[t] # "none" => Settled(t)'
    BY Zenon, <1>1, <1>7, Elements DEF Places
  <2>4. \A v \in lost' : Settled(v)'
    BY Zenon, <1>1, <1>7, <2>1 DEF Places, TypeInv
  <2>5. \A v \in Answered' : Settled(v)' /\ v \notin lost'
    BY ZenonT(30), <1>1, <1>2, <1>4, <1>7, Elements DEF Places
  <2>6. \A t \in Answered' \cap Task : bridge'[t] \in {"none", "removed"}
    BY Zenon, <1>1, <1>4 DEF Places
  <2>7. \A t \in Known' : bridge'[t] \in {"PENDING", "decided"} /\ t \notin lost'
    BY Zenon, <1>1, <1>2, <1>4 DEF Places
  <2>8. \A t \in Passed' \cup Busy' : bridge'[t] = "decided" /\ t \notin lost'
    BY Zenon, <1>1, <1>2, <1>4 DEF Places
  <2> QED
    BY Zenon, <1>1, <1>4, <2>2, <2>3, <2>4, <2>5, <2>6, <2>7, <2>8 DEF Places
<1>10. Families'
  <2>1. \A u \in Task : worker'[u] # "none" => worker[u] # "none"
    BY Zenon, <1>1, <1>3, Elements
  <2> QED
    BY ZenonT(30), <1>1, <1>4, <1>5, <1>6, <2>1 DEF Families
<1>11. Phases'
  BY Zenon, <1>1 DEF Phases
<1> QED
  BY Zenon, <1>8, <1>9, <1>10, <1>11

(* A scheduler decides a task that VRP waits for. *)
LEMMA SolvedFlow == ASSUME Counting, FlowInv, TypeInv', NEW t \in Task, Solved(t) PROVE FlowInv'
<1> USE DEF FlowInv, vrpVars, vtgVars, pwVars
<1>1. /\ bridge[t] = "PENDING" /\ bridge' = [bridge EXCEPT ![t] = "decided"]
      /\ UNCHANGED <<vtgVars, vrpVars, pwVars, worker, processed, pending_tasks, lost>>
  BY Zenon DEF Solved
<1>2. /\ \A u \in Task : u # t => bridge'[u] = bridge[u]
      /\ bridge'[t] = "decided"
  BY SMTT(30), <1>1 DEF TypeInv
<1>3. Known' = Known /\ Passed' = Passed /\ Busy' = Busy /\ Answered' = Answered
  BY Zenon, <1>1 DEF Known, Passed, Busy, Answered
<1>4. Unanswered' = Unanswered
  BY Zenon, <1>1, <1>2 DEF Unanswered
<1>5. Read' = Read
  BY ZenonT(30), <1>1, <1>3 DEF Read, Settled
<1>6. Lists' /\ Counted' /\ Families' /\ Phases'
  BY ZenonT(30), <1>1, <1>3, <1>4, <1>5 DEF Lists, Counted, Families, Phases
<1>7. Places'
  <2>1. \A u \in Task : bridge'[u] # "none" => bridge[u] # "none"
    BY ZenonT(30), <1>1, <1>2
  <2>2. \A u \in Answered \cap Task : bridge'[u] = bridge[u]
    BY Zenon, <1>1, <1>2 DEF Places
  <2>3. \A u \in Known : bridge'[u] \in {"PENDING", "decided"}
    BY ZenonT(30), <1>1, <1>2, Elements DEF Places
  <2>4. \A u \in Passed \cup Busy : bridge'[u] = "decided"
    BY ZenonT(30), <1>1, <1>2, Elements DEF Places
  <2> QED
    BY ZenonT(30), <1>1, <1>3, <2>1, <2>2, <2>3, <2>4 DEF Places, Settled
<1> QED
  BY ZenonT(30), <1>6, <1>7

(* VRP moves the tasks it has received and those that are solved to their  *)
(* next lists, and stops when none can come any more.                      *)
LEMMA PollFlow == ASSUME Counting, FlowInv, TypeInv', RPLPoll PROVE FlowInv'
<1> USE DEF FlowInv, vtgVars, pwVars
<1> DEFINE more == receiving /\ Null \notin ToSet(pending_tasks)
           decided == {t \in Known : bridge[t] = "decided"}
           over == ~more /\ Known = decided
           last == IF over THEN [r \in 1 .. Cardinality(RPWorkers) |-> Null] ELSE <<>>
<1>1. /\ pending_tasks' = <<>> /\ receiving' = more /\ pending' = Known \ decided
      /\ processing_tasks' = processing_tasks \o SetToSeq(decided) \o last
      /\ UNCHANGED <<vtgVars, pwVars, rpwl, worker, processed, bridge, lost>>
  BY ZenonT(30) DEF RPLPoll, Known
<1>2. decided \subseteq Task /\ IsFiniteSet(decided)
  BY ZenonT(30), Elements, WorkFinite, FiniteSubset
<1>3. /\ last \in Seq(Task \cup {Null}) /\ ToSet(last) \subseteq {Null} /\ OnceBut(last, {Null})
  <2> DEFINE c == Cardinality(RPWorkers)
  <2>1. c \in Nat
    BY Zenon, CoreConstants, FiniteSize
  <2>2. last = [r \in 1 .. c |-> Null] \/ last = <<>>
    BY Zenon
  <2>3. <<>> \in Seq(Task \cup {Null}) /\ ToSet(<<>>) = {} /\ OnceBut(<<>>, {Null})
    BY DEF ToSet, OnceBut
  <2> HIDE DEF c, last
  <2>4. Null \in Task \cup {Null}
    BY Zenon
  <2>5. /\ [r \in 1 .. c |-> Null] \in Seq(Task \cup {Null})
        /\ ToSet([r \in 1 .. c |-> Null]) \subseteq {Null} /\ OnceBut([r \in 1 .. c |-> Null], {Null})
    BY ZenonT(30), <2>1, <2>4, RepeatedInSeq
  <2> QED
    BY ZenonT(30), <2>2, <2>3, <2>5
<1>4. ToSet(pending_tasks') = {}
  BY SMTT(30), <1>1 DEF ToSet
<1>5. /\ SetToSeq(decided) \in Seq(Task \cup {Null})
      /\ ToSet(SetToSeq(decided)) = decided /\ OnceBut(SetToSeq(decided), {Null})
  <2> HIDE DEF decided
  <2>1. SetToSeq(decided) \in Seq(decided) /\ ToSet(SetToSeq(decided)) = decided /\ OnceBut(SetToSeq(decided), {})
    BY Zenon, <1>2, SetToSeqLists
  <2> QED
    BY SMTT(30), <1>2, <2>1 DEF OnceBut
<1>6. decided \subseteq Known /\ \A t \in decided : bridge[t] = "decided"
  BY Zenon
<1> HIDE DEF decided, last, more
<1>7. /\ ToSet(processing_tasks') = ToSet(processing_tasks) \cup decided \cup ToSet(last)
      /\ OnceBut(processing_tasks', {Null})
  <2> DEFINE s == processing_tasks \o SetToSeq(decided)
  <2>1. processing_tasks \in Seq(Task \cup {Null}) /\ OnceBut(processing_tasks, {Null})
    BY Zenon DEF TypeInv, Lists
  <2>2. ToSet(processing_tasks) \cap ToSet(SetToSeq(decided)) \subseteq {Null}
    BY ZenonT(30), <1>5, <1>6 DEF Places, Passed
  <2>3. s \in Seq(Task \cup {Null}) /\ ToSet(s) = ToSet(processing_tasks) \cup decided /\ OnceBut(s, {Null})
    BY SMTT(30), <1>5, <2>1, <2>2, ToSetConcat
  <2>4. ToSet(s) \cap ToSet(last) \subseteq {Null}
    BY Zenon, <1>3
  <2>5. processing_tasks' = s \o last
    BY Zenon, <1>1
  <2> HIDE DEF s
  <2> QED
    BY SMTT(30), <1>3, <2>3, <2>4, <2>5, ToSetConcat
<1>8. /\ Known' = Known \ decided /\ Passed' = Passed \cup decided /\ Busy' = Busy
      /\ Answered' = Answered /\ Unanswered' = Unanswered
  <2>1. Known' = Known \ decided
    BY ZenonT(30), <1>1, <1>4 DEF Known
  <2>2. Passed' = Passed \cup decided
    BY ZenonT(30), <1>2, <1>3, <1>7, Marks DEF Passed
  <2> QED
    BY ZenonT(30), <1>1, <2>1, <2>2 DEF Busy, Answered, Unanswered
<1>9. Read' = Read
  BY Zenon, <1>1, <1>8 DEF Read, Settled
<1>10. Lists' /\ Counted' /\ Families'
  BY ZenonT(30), <1>1, <1>7, <1>8, <1>9 DEF Lists, Counted, Families
<1>11. Places'
  <2>1. \A t \in Passed' \cup Busy' : bridge[t] = "decided" /\ t \notin lost
    BY ZenonT(30), <1>6, <1>8 DEF Places
  <2>2. Known' \cap Passed' = {} /\ Known' \cap Busy' = {} /\ Passed' \cap Busy' = {}
    BY ZenonT(30), <1>6, <1>8 DEF Places
  <2> QED
    BY ZenonT(30), <1>1, <1>8, <2>1, <2>2 DEF Places, Settled
<1>12. Phases'
  <2>1. ~receiving' => ~receiving \/ Null \in ToSet(pending_tasks)
    BY Zenon, <1>1 DEF more
  <2> QED
    BY ZenonT(30), <1>1, <1>4, <2>1 DEF Phases
<1> QED
  BY ZenonT(30), <1>10, <1>11, <1>12

(* A worker of VRP takes a task that is solved. *)
LEMMA TakeFlow == ASSUME Counting, FlowInv, TypeInv', NEW r \in RPWorkers, RPWLTake(r) PROVE FlowInv'
<1> USE DEF FlowInv, vtgVars, pwVars
<1> DEFINE h == Head(processing_tasks)
           x == IF h = Null THEN Ended ELSE h
<1>1. /\ rpwl[r] = Idle /\ processing_tasks # <<>>
      /\ rpwl' = [rpwl EXCEPT ![r] = x]
      /\ processing_tasks' = Tail(processing_tasks)
      /\ UNCHANGED <<vtgVars, pwVars, receiving, pending, worker, processed, pending_tasks, bridge, lost>>
  BY Zenon DEF RPWLTake
<1>2. processing_tasks \in Seq(Task \cup {Null}) /\ OnceBut(processing_tasks, {Null})
  BY Zenon DEF TypeInv, Lists
<1>3. /\ ToSet(processing_tasks) = ToSet(processing_tasks') \cup {h}
      /\ OnceBut(processing_tasks', {Null})
      /\ h \in ToSet(processing_tasks') => h = Null
  BY <1>1, <1>2, ToSetTail
<1>4. h \in Task \cup {Null}
  BY Zenon, <1>2, <1>3, ToSetDef
<1> HIDE DEF h
<1>5. /\ \A q \in RPWorkers : q # r => rpwl'[q] = rpwl[q]
      /\ rpwl'[r] = x /\ (x \in Task => h \in Task /\ x = h) /\ (h \in Task => x = h)
  BY SMTT(30), <1>1, <1>4, Marks DEF TypeInv
<1> HIDE DEF x
<1>6. /\ Passed' = Passed \ {h} /\ (h \in Task => h \in Passed)
  BY Zenon, <1>3, Marks DEF Passed
<1>7. Busy' = Busy \cup ({h} \cap Task)
  <2>1. rpwl[r] \notin Task
    BY ZenonT(30), <1>1, Marks
  <2>2. Busy' = {rpwl'[q] : q \in RPWorkers} \cap Task
    BY Zenon DEF Busy
  <2> QED
    BY ZenonT(30), <1>5, <2>1, <2>2 DEF Busy
<1>8. Known' = Known /\ Answered' = Answered /\ Unanswered' = Unanswered
  BY ZenonT(30), <1>1 DEF Known, Answered, Unanswered
<1>9. Read' = Read
  BY ZenonT(30), <1>1, <1>8 DEF Read, Settled
<1>10. Lists'
  <2>1. ASSUME NEW p \in RPWorkers, NEW q \in RPWorkers, rpwl'[p] = rpwl'[q], rpwl'[p] \in Task PROVE p = q
    <3>1. CASE p # r /\ q # r
      BY ZenonT(30), <1>5, <2>1, <3>1 DEF Lists
    <3>2. CASE p # r /\ q = r
      <4>1. rpwl[p] \in Busy /\ rpwl[p] = h /\ h \in Task
        BY ZenonT(30), <1>5, <2>1, <3>2 DEF Busy
      <4> QED
        BY ZenonT(30), <1>6, <4>1 DEF Places
    <3>3. CASE p = r /\ q # r
      <4>1. rpwl[q] \in Busy /\ rpwl[q] = h /\ h \in Task
        BY ZenonT(30), <1>5, <2>1, <3>3 DEF Busy
      <4> QED
        BY ZenonT(30), <1>6, <4>1 DEF Places
    <3> QED
      BY ZenonT(30), <3>1, <3>2, <3>3
  <2> QED
    BY ZenonT(30), <1>1, <1>3, <2>1 DEF Lists
<1>11. Counted' /\ Families' /\ Phases'
  BY ZenonT(30), <1>1, <1>8, <1>9 DEF Counted, Families, Phases
<1>12. Places'
  BY ZenonT(30), <1>1, <1>6, <1>7, <1>8 DEF Places, Settled
<1> QED
  BY Zenon, <1>10, <1>11, <1>12

(* A worker of VRP has fetched the results of its task and answers VTG. *)
LEMMA FetchFlow == ASSUME Counting, FlowInv, TypeInv', NEW r \in RPWorkers, RPFetch(r) PROVE FlowInv'
<1> USE DEF FlowInv, vtgVars, pwVars
<1> DEFINE t == rpwl[r]
           m == [work |-> t, other |-> TRUE, models |-> {}]
<1>1. /\ t \in Task /\ processed' = Append(processed, m)
      /\ bridge' = [bridge EXCEPT ![t] = "removed"]
      /\ rpwl' = [rpwl EXCEPT ![r] = Idle]
      /\ UNCHANGED <<vtgVars, pwVars, receiving, pending, processing_tasks, worker, pending_tasks, lost>>
  BY Zenon DEF RPFetch
<1>2. m \in Message /\ m.work = t /\ m.other
  BY ZenonT(30), <1>1, Elements DEF Message
<1>3. /\ Busy' = Busy \ {t}
      /\ \A p, q \in RPWorkers : rpwl'[p] = rpwl'[q] /\ rpwl'[p] \in Task => p = q
      /\ t \in Busy /\ t \in Unanswered /\ t \notin Answered /\ t \notin lost
      /\ t \notin Known /\ t \notin Passed /\ t \notin ToSet(prepare)
      /\ bridge[t] = "decided" /\ Settled(t)
  BY ZenonT(30), <1>1, LetGo
<1> HIDE DEF t, m
<1>4. /\ ToSet(processed') = ToSet(processed) \cup {m}
      /\ Answered' = Answered \cup {t}
      /\ OnceBut(processed', {}) /\ Len(processed') = Len(processed) + 1
      /\ \A x, k \in ToSet(processed') : x.work = k.work => x = k
  BY ZenonT(30), <1>1, <1>2, <1>3, NewAnswer
<1>5. bridge'[t] = "removed" /\ \A u \in Task : u # t => bridge'[u] = bridge[u]
  BY ZenonT(30), <1>1 DEF TypeInv
<1>6. Known' = Known /\ Passed' = Passed
  BY Zenon, <1>1 DEF Known, Passed
<1>7. Unanswered' = Unanswered \ {t}
  BY Zenon, <1>1, <1>3, <1>5 DEF Unanswered, Settled
<1>8. Read' = Read
  BY ZenonT(30), <1>1, <1>4, Marks DEF Read, Settled
<1>9. Lists'
  BY ZenonT(30), <1>1, <1>3, <1>4 DEF Lists
<1>10. Places'
  <2>1. \A u \in Task : bridge'[u] # "none" => Settled(u)
    BY Zenon, <1>3, <1>5 DEF Places
  <2>2. \A u \in Answered' \cap Task : bridge'[u] \in {"none", "removed"}
    BY ZenonT(30), <1>4, <1>5 DEF Places
  <2>3. \A u \in Known \cup Passed \cup Busy' : u \in Task /\ bridge'[u] = bridge[u]
    BY ZenonT(30), <1>3, <1>5, Elements
  <2>4. \A u \in Answered' : Settled(u) /\ u \notin lost
    BY ZenonT(30), <1>3, <1>4 DEF Places
  <2> QED
    BY SMTT(30), <1>1, <1>3, <1>6, <2>1, <2>2, <2>3, <2>4 DEF Places, Settled
<1>11. Families'
  <2>1. \A x \in ToSet(processed') : ~x.other => x.models = {}
    BY ZenonT(30), <1>2, <1>4 DEF Families
  <2>2. verdict[t] = "none"
    BY ZenonT(30), <1>1, <1>3 DEF Families
  <2> QED
    BY ZenonT(30), <1>1, <1>4, <1>7, <1>8, <2>1, <2>2 DEF Families
<1>12. Counted'
  <2>1. Cardinality(Unanswered \ {t}) = Cardinality(Unanswered) - 1
    BY ZenonT(30), <1>3, Elements, FiniteRemove
  <2> QED
    BY SMTT(30), <1>1, <1>4, <1>7, <1>8, <2>1, Elements DEF Counted
<1>13. Phases'
  BY Zenon, <1>1 DEF Phases
<1> QED
  BY Zenon, <1>9, <1>10, <1>11, <1>12, <1>13

(* A worker of VRP that fails sends nothing: VTG counts its task for ever. *)
LEMMA LostFlow == ASSUME Counting, FlowInv, TypeInv', NEW r \in RPWorkers, RPLost(r) PROVE FlowInv'
<1> USE DEF FlowInv, vtgVars, pwVars
<1> DEFINE t == rpwl[r]
<1>1. /\ t \in Task /\ lost' = lost \cup {t}
      /\ rpwl' = [rpwl EXCEPT ![r] = Idle]
      /\ UNCHANGED <<vtgVars, pwVars, receiving, pending, processing_tasks, worker, processed, pending_tasks, bridge>>
  BY Zenon DEF RPLost
<1>2. /\ Busy' = Busy \ {t}
      /\ \A p, q \in RPWorkers : rpwl'[p] = rpwl'[q] /\ rpwl'[p] \in Task => p = q
      /\ t \in Busy /\ t \in Unanswered /\ t \notin Answered /\ t \notin lost
      /\ t \notin Known /\ t \notin Passed /\ t \notin ToSet(prepare)
      /\ bridge[t] = "decided" /\ Settled(t)
  BY ZenonT(30), <1>1, LetGo
<1> HIDE DEF t
<1>3. Known' = Known /\ Passed' = Passed /\ Answered' = Answered
  BY ZenonT(30), <1>1 DEF Known, Passed, Answered
<1>4. Unanswered' = Unanswered
  BY ZenonT(30), <1>1, <1>2 DEF Unanswered
<1>5. Read' = Read
  BY Zenon, <1>1, <1>3, Marks DEF Read, Settled
<1>6. Lists' /\ Counted' /\ Families' /\ Phases'
  BY ZenonT(30), <1>1, <1>2, <1>3, <1>4, <1>5 DEF Lists, Counted, Families, Phases
<1>7. Places'
  BY ZenonT(30), <1>1, <1>2, <1>3 DEF Places, Settled
<1> QED
  BY Zenon, <1>6, <1>7

(* The other steps leave every work where it is.                           *)
LEMMA IdleFlow ==
  ASSUME Counting, FlowInv, TypeInv',
         UNCHANGED <<prepare, waiting, left_abstract_tasks, vrpVars, total_message, worker, processed,
                     pending_tasks, bridge, lost, verdict>>,
         vtg' = vtg \/ (vtg = "get" /\ vtg' = "loop")
  PROVE  FlowInv'
<1> USE DEF FlowInv, vrpVars
<1>1. /\ Known' = Known /\ Passed' = Passed /\ Busy' = Busy /\ Answered' = Answered /\ Unanswered' = Unanswered
  BY Zenon DEF Known, Passed, Busy, Answered, Unanswered
<1>2. Read' = Read
  BY Zenon, <1>1 DEF Read, Settled
<1> QED
  BY ZenonT(30), <1>1, <1>2 DEF Lists, Places, Families, Counted, Phases, Settled

(* Every step of Klever Core keeps every work in exactly one place. *)
LEMMA FlowStep == ASSUME Counting PROVE FlowInv /\ [Next]_vars => FlowInv'
<1> SUFFICES ASSUME FlowInv, [Next]_vars PROVE FlowInv'
  BY Zenon
<1>0. TypeInv'
  BY Zenon, TypeStep DEF FlowInv
<1> USE <1>0
<1>1. CASE VTGStep
  <2>1. CASE VTGTimeout
    BY Zenon, <2>1, IdleFlow DEF VTGTimeout, pwVars, vrpVars
  <2> QED
    BY ZenonT(30), <1>1, <2>1, StartFlow, SubmitFlow, AbstractFlow, TaskFlow, DoneFlow DEF VTGStep
<1>2. ASSUME NEW w \in Work, WorkerStep(w) PROVE FlowInv'
  <2>1. CASE w \in Atask /\ EMGWSend(w)
    <3>1. PICK models \in SUBSET Envmodel : Answer(w, TRUE, models)
      BY ZenonT(30), <2>1 DEF EMGWSend
    <3>2. worker[w] = "run" /\ UNCHANGED <<vtgVars, vrpVars, pwVars, pending_tasks, bridge, lost>>
      BY Zenon, <2>1 DEF EMGWSend, otherThanWorker
    <3> QED
      BY ZenonT(30), <3>1, <3>2, AnswerFlow
  <2>2. CASE PluginFails(w)
    <3>1. worker[w] = "run" /\ Answer(w, FALSE, {})
          /\ UNCHANGED <<vtgVars, vrpVars, pwVars, pending_tasks, bridge, lost>>
      BY ZenonT(30), <2>2 DEF PluginFails, otherThanWorker
    <3> QED
      BY Zenon, <3>1, AnswerFlow
  <2> QED
    BY ZenonT(30), <1>2, <2>1, <2>2, PluginsFlow, EndsFlow DEF WorkerStep
<1>3. CASE WatchProgress \/ CoreStep \/ ComponentFails \/ UNCHANGED vars
  <2>1. UNCHANGED <<vtgVars, vrpVars, total_message, worker, processed, pending_tasks, bridge, lost>>
    BY Zenon, <1>3 DEF WatchProgress, CoreStep, JobEnds, WatcherFails, CoreFinishes, ComponentFails, vars, pwVars
  <2> QED
    BY Zenon, <2>1, IdleFlow DEF vtgVars
<1> QED
  BY ZenonT(30), <1>1, <1>2, <1>3, SolvedFlow, PollFlow, TakeFlow, FetchFlow, LostFlow, WorkerLostFlow DEF Next, RPWLStep, Fault
=============================================================================
