-------------------------- MODULE CoreLedgerProofs --------------------------
(***************************************************************************)
(* Proofs about the verification tasks of a job inside Klever Core, third  *)
(* part: the directories of abstract tasks are kept as long as they are    *)
(* needed, and every step is a step of TaskLedger or leaves it alone.      *)
(***************************************************************************)
EXTENDS CoreTasksProofs

Started(t) == worker[t] # "none" \/ t \in ToSet(prepare)

(* The directory of an abstract task is there from the start of its worker *)
(* on, and as long as VTG keeps one of its tasks in 'atask_tasks'.         *)
DirInv == /\ \A a \in Atask : worker[a] # "none" /\ (\A t \in Task : t.atask = a => worker[t] = "none") => a \in dirs
          /\ \A t \in Task : Started(t) /\ verdict[t] = "none"
                => t.atask \in dirs /\ (~KeepDirs => t \in atask_tasks[t.atask])

(* What VTG has told PW is what it knows: the counters are the verdicts,   *)
(* the number of tasks is announced when all of them are known, and no     *)
(* task has a verdict that is not expected.                                *)
Verdicts(v) == {t \in Task : verdict[t] = v}
LedgerInv ==
    /\ pw.finished + tasks_messages.finished = Cardinality(Verdicts("finished"))
    /\ pw.failed + tasks_messages.failed = Cardinality(Verdicts("failed"))
    /\ ~setting.single => total_tasks = Cardinality(Expected)
    /\ total_message # Null => total_message = Cardinality(Expected)
    /\ ~setting.single /\ total_message # Null => left_abstract_tasks = 0
    /\ pw.total \in {Null, total_message}
    /\ \A t \in Task : verdict[t] # "none" => t \in Expected

(* Steps that are of no concern to either invariant.                       *)
Quiet ==
    /\ UNCHANGED <<prepare, total_tasks, left_abstract_tasks, tasks_messages, total_message, pw, verdict, dirs,
                   atask_tasks, setting>>
    /\ \A w \in Work : worker'[w] = "none" <=> worker[w] = "none"
    /\ vtg' = "start" <=> vtg = "start"

(* Only five actions change what the directories and the ledger depend on. *)
LEMMA OtherStepsQuiet ==
  ASSUME FlowInv, [Next]_vars
  PROVE  VTGStart \/ VTGSubmit \/ VTGAbstract \/ VTGTask \/ WatchProgress \/ Quiet
<1> USE DEF vtgVars, vrpVars, pwVars, otherThanWorker
<1>0. worker \in [Work -> {"none", "run", "put", "exited"}]
  BY Zenon DEF FlowInv, TypeInv
<1>1. CASE VTGTimeout \/ VTGDone
  BY Zenon, <1>1 DEF VTGTimeout, VTGDone, Quiet
<1>2. ASSUME NEW w \in Work, WorkerStep(w) \/ WorkerLost(w) PROVE Quiet
  <2>1. worker[w] # "none" /\ \E x \in {"put", "exited"} : worker' = [worker EXCEPT ![w] = x]
    BY Zenon, <1>2 DEF WorkerStep, EMGWSend, PluginFails, Answer, PLUGINSSubmit, WorkerEnds, WorkerLost
  <2>2. \A v \in Work : worker'[v] = "none" <=> worker[v] = "none"
    BY Zenon, <1>0, <2>1
  <2>3. UNCHANGED <<vtgVars, pwVars, setting>>
    BY Zenon, <1>2 DEF WorkerStep, EMGWSend, PluginFails, PLUGINSSubmit, WorkerEnds, WorkerLost
  <2> QED
    BY Zenon, <2>2, <2>3 DEF Quiet
<1>3. CASE \E t \in Task : Solved(t)
  BY Zenon, <1>3 DEF Solved, Quiet
<1>4. CASE RPLPoll
  <2>1. UNCHANGED <<vtgVars, pwVars, setting, worker>>
    BY Zenon, <1>4 DEF RPLPoll
  <2> QED
    BY Zenon, <2>1 DEF Quiet
<1>5. CASE \E r \in RPWorkers : RPWLTake(r) \/ RPFetch(r) \/ RPLost(r)
  <2>1. UNCHANGED <<vtgVars, pwVars, setting, worker>>
    BY Zenon, <1>5 DEF RPWLTake, RPFetch, RPLost
  <2> QED
    BY Zenon, <2>1 DEF Quiet
<1>6. CASE CoreStep \/ ComponentFails
  BY Zenon, <1>6 DEF CoreStep, JobEnds, WatcherFails, CoreFinishes, ComponentFails, Quiet
<1>7. CASE UNCHANGED vars
  BY Zenon, <1>7 DEF vars, Quiet
<1> QED
  BY Zenon, <1>1, <1>2, <1>3, <1>4, <1>5, <1>6, <1>7 DEF Next, VTGStep, RPWLStep, Fault

----------------------------------------------------------------------------
(* Directories.                                                            *)

(* Every step keeps the directories that are needed. *)
LEMMA DirStep ==
  ASSUME Counting PROVE FlowInv /\ FlowInv' /\ DirInv /\ [Next]_vars => DirInv'
<1> SUFFICES ASSUME FlowInv, FlowInv', DirInv, [Next]_vars PROVE DirInv'
  BY Zenon
<1>0. /\ Atask \subseteq Work /\ Task \subseteq Work
      /\ worker \in [Work -> {"none", "run", "put", "exited"}] /\ verdict \in [Task -> {"none", "finished", "failed"}]
      /\ atask_tasks = [a \in Atask |-> atask_tasks[a]]
      /\ \A t \in Task : t.atask \in Atask
  BY Zenon, Elements, TasksOf DEF FlowInv, TypeInv
<1>1. CASE Quiet
  BY Zenon, <1>0, <1>1 DEF Quiet, DirInv, Started
<1>2. CASE WatchProgress
  BY Zenon, <1>2 DEF WatchProgress, vtgVars, DirInv, Started
<1>3. CASE VTGStart
  <2>1. ToSet(prepare') = Atask /\ UNCHANGED <<worker, verdict, dirs, atask_tasks>>
    BY Zenon, <1>3, CoreConstants, SetToSeqLists DEF VTGStart
  <2> QED
    BY Zenon, <2>1, Marks DEF DirInv, Started
<1>4. CASE VTGSubmit
  <2> DEFINE n == Submitted({w \in prepare_workers : worker[w] # "exited"})
             B == ToSet(SubSeq(prepare, Len(prepare) - n + 1, Len(prepare)))
  <2>1. /\ prepare' = SubSeq(prepare, 1, Len(prepare) - n)
        /\ worker' = [w \in Work |-> IF w \in B THEN "run" ELSE worker[w]]
        /\ dirs' = dirs \cup (B \cap Atask)
        /\ UNCHANGED <<verdict, atask_tasks>>
    BY Zenon, <1>4 DEF VTGSubmit
  <2>2. n \in 0 .. Len(prepare) /\ prepare \in Seq(Work) /\ OnceBut(prepare, {})
    BY Zenon, SubmittedBounds DEF FlowInv, Lists, TypeInv
  <2>3. ToSet(prepare') \cup B = ToSet(prepare)
    <3> HIDE DEF n
    <3> QED
      BY Zenon, <2>1, <2>2, ToSetCut
  <2> HIDE DEF B, n
  <2>4. \A t \in Task : Started(t)' <=> Started(t)
    BY Zenon, <1>0, <2>1, <2>3 DEF Started, FlowInv, Places
  <2>5. \A w \in Work : worker[w] # "none" => worker'[w] # "none"
    BY Zenon, <2>1
  <2>6. \A a \in Atask : worker'[a] # "none" => worker[a] # "none" \/ a \in dirs'
    BY Zenon, <1>0, <2>1
  <2> QED
    BY Zenon, <1>0, <2>1, <2>4, <2>5, <2>6 DEF DirInv
<1>5. CASE VTGAbstract
  <2> DEFINE m == Head(processed)
             a == m.work
             new == [atask : {a}, envmodel : m.models, rule : Rule(a)]
  <2>1. /\ m \in ToSet(processed) /\ m \in Message /\ a \in Answered /\ a \in Atask
    BY Zenon, <1>5, TakenAnswer DEF VTGAbstract
  <2>2. /\ prepare' = prepare \o SetToSeq(new)
        /\ atask_tasks' = [atask_tasks EXCEPT ![a] = IF m.other /\ ~KeepDirs THEN new ELSE @]
        /\ UNCHANGED <<worker, dirs>>
    BY Zenon, <1>5 DEF VTGAbstract
  <2>3. new \subseteq Task /\ IsFiniteSet(new) /\ \A t \in new : t.atask = a
    <3>1. new \subseteq Task /\ \A t \in new : t.atask = a
      BY Zenon, <2>1, TasksOf DEF Message
    <3> QED
      BY Zenon, <3>1, WorkFinite, FiniteSubset
  <2>4. ToSet(prepare') = ToSet(prepare) \cup new
    <3> HIDE DEF new
    <3>1. SetToSeq(new) \in Seq(new)
      BY Zenon, <2>3, SetToSeqLists
    <3>2. SetToSeq(new) \in Seq(Work) /\ prepare \in Seq(Work) /\ ToSet(SetToSeq(new)) = new
      <4>1. prepare \in Seq(Work)
        BY Zenon DEF FlowInv, TypeInv
      <4> QED
        BY SMTT(30), <1>0, <2>3, <3>1, <4>1, SetToSeqLists
    <3> QED
      BY <2>2, <3>2, ToSetConcat
  <2>5. ~m.other => new = {}
    <3>1. ~m.other => m.models = {}
      BY Zenon, <2>1 DEF FlowInv, Families
    <3> QED
      BY Zenon, <3>1
  <2>6. \A t \in Task : verdict'[t] = "none" => verdict[t] = "none"
    <3>1. verdict' \in {verdict, [t \in Task |-> IF t.atask = a THEN "failed" ELSE verdict[t]]}
      BY Zenon, <1>5 DEF VTGAbstract
    <3> QED
      BY Zenon, <3>1
  <2> HIDE DEF m, new
  <2>7. a \notin Read /\ worker[a] # "none"
    BY Zenon, <2>1 DEF Read, FlowInv, Places, Settled
  <2>8. \A t \in Task : t.atask = a => worker[t] = "none" /\ t \notin ToSet(prepare)
    BY Zenon, <2>7 DEF FlowInv, Families
  <2>9. a \in dirs
    BY Zenon, <2>1, <2>7, <2>8 DEF DirInv
  <2>10. ASSUME NEW t \in Task, Started(t)', verdict'[t] = "none"
         PROVE  t.atask \in dirs' /\ (~KeepDirs => t \in atask_tasks'[t.atask])
    <3>1. CASE t \in new
      BY Zenon, <1>0, <2>1, <2>2, <2>3, <2>5, <2>9, <3>1
    <3>2. CASE t \notin new
      <4>1. Started(t) /\ verdict[t] = "none"
        BY Zenon, <2>2, <2>4, <2>6, <2>10, <3>2 DEF Started
      <4>2. t.atask # a
        BY Zenon, <2>8, <4>1 DEF Started
      <4>3. atask_tasks'[t.atask] = atask_tasks[t.atask]
        BY Zenon, <1>0, <2>2, <4>2
      <4> QED
        BY Zenon, <2>2, <4>1, <4>3 DEF DirInv
    <3> QED
      BY Zenon, <3>1, <3>2
  <2> QED
    BY Zenon, <2>2, <2>10 DEF DirInv
<1>6. CASE VTGTask
  <2> DEFINE m == Head(processed)
             t == m.work
             rest == atask_tasks[t.atask] \ {t}
  <2>1. t \in Answered /\ t \in Task
    BY Zenon, <1>6, TakenAnswer DEF VTGTask
  <2>2. UNCHANGED <<prepare, worker>> /\ \E x \in {"finished", "failed"} : verdict' = [verdict EXCEPT ![t] = x]
    BY Zenon, <1>6 DEF VTGTask
  <2>3. \/ KeepDirs /\ UNCHANGED <<atask_tasks, dirs>>
        \/ /\ ~KeepDirs
           /\ atask_tasks' = [atask_tasks EXCEPT ![t.atask] = IF rest = {} THEN Null ELSE rest]
           /\ dirs' = IF rest = {} THEN dirs \ {t.atask} ELSE dirs
    BY Zenon, <1>6 DEF VTGTask
  <2> HIDE DEF m
  <2>4. worker[t] # "none" /\ t.atask \in Atask
    BY Zenon, <1>0, <2>1 DEF FlowInv, Places, Settled
  <2>5. verdict'[t] # "none" /\ \A u \in Task : u # t => verdict'[u] = verdict[u]
    BY Zenon, <1>0, <2>1, <2>2
  <2>6. ASSUME NEW u \in Task, Started(u)', verdict'[u] = "none"
        PROVE  u.atask \in dirs' /\ (~KeepDirs => u \in atask_tasks'[u.atask])
    <3>1. u # t /\ u.atask \in dirs /\ (~KeepDirs => u \in atask_tasks[u.atask])
      BY Zenon, <2>2, <2>5, <2>6 DEF DirInv, Started
    <3>2. CASE u.atask = t.atask
      BY SMTT(30), <1>0, <2>3, <2>4, <3>1, <3>2
    <3>3. CASE u.atask # t.atask
      BY Zenon, <1>0, <2>3, <2>4, <3>1, <3>3
    <3> QED
      BY Zenon, <3>2, <3>3
  <2>7. ASSUME NEW a \in Atask, worker'[a] # "none", \A u \in Task : u.atask = a => worker'[u] = "none" PROVE a \in dirs'
    <3>1. a \in dirs /\ a # t.atask
      BY Zenon, <2>1, <2>2, <2>4, <2>7 DEF DirInv
    <3> QED
      BY Zenon, <2>3, <3>1
  <2> QED
    BY Zenon, <2>6, <2>7 DEF DirInv
<1> QED
  BY Zenon, <1>1, <1>2, <1>3, <1>4, <1>5, <1>6, OtherStepsQuiet

----------------------------------------------------------------------------
(* The ledger.                                                             *)

(* The tasks that are expected and those with a verdict can be counted. *)
LEMMA LedgerSets ==
  ASSUME Counting, FlowInv
  PROVE  /\ Expected \subseteq Task /\ IsFiniteSet(Expected) /\ Cardinality(Expected) \in Nat
         /\ \A v : IsFiniteSet(Verdicts(v)) /\ Cardinality(Verdicts(v)) \in Nat
         /\ setting.single \in BOOLEAN
         /\ pw.finished \in Nat /\ pw.failed \in Nat /\ tasks_messages.finished \in Nat /\ tasks_messages.failed \in Nat
<1>1. Expected \subseteq Task
  BY Zenon DEF Expected
<1>2. \A v : Verdicts(v) \subseteq Task
  BY Zenon DEF Verdicts
<1>3. \A S : S \subseteq Task => IsFiniteSet(S) /\ Cardinality(S) \in Nat
  BY Zenon, WorkFinite, FiniteSubset, FiniteSize
<1>4. setting.single \in BOOLEAN
  BY Zenon, CoreConstants DEF FlowInv, TypeInv
<1>5. pw.finished \in Nat /\ pw.failed \in Nat /\ tasks_messages.finished \in Nat /\ tasks_messages.failed \in Nat
  BY Zenon DEF FlowInv, TypeInv
<1> QED
  BY Zenon, <1>1, <1>2, <1>3, <1>4, <1>5

(* Nothing that the ledger shows changes in a quiet step.                  *)
LEMMA QuietLedger ==
  ASSUME FlowInv, Quiet
  PROVE  Expected' = Expected /\ \A v : Verdicts(v)' = Verdicts(v)
<1>1. Task \subseteq Work
  BY Zenon DEF Work
<1> QED
  BY Zenon, <1>1 DEF Quiet, Expected, Verdicts

(* Submitting works changes nothing that is expected. *)
LEMMA SubmitLedger ==
  ASSUME Counting, FlowInv, VTGSubmit
  PROVE  Expected' = Expected
<1> DEFINE n == Submitted({w \in prepare_workers : worker[w] # "exited"})
           B == ToSet(SubSeq(prepare, Len(prepare) - n + 1, Len(prepare)))
<1>1. /\ prepare' = SubSeq(prepare, 1, Len(prepare) - n)
      /\ worker' = [w \in Work |-> IF w \in B THEN "run" ELSE worker[w]]
      /\ vtg = "loop" /\ vtg' = "get" /\ setting' = setting
  BY Zenon DEF VTGSubmit
<1>2. n \in 0 .. Len(prepare) /\ prepare \in Seq(Work) /\ OnceBut(prepare, {})
  BY ZenonT(30), SubmittedBounds DEF FlowInv, Lists, TypeInv
<1>3. ToSet(prepare') \cup B = ToSet(prepare)
  <2> HIDE DEF n
  <2> QED
    BY Zenon, <1>1, <1>2, ToSetCut
<1> HIDE DEF B, n
<1>4. Task \subseteq Work
  BY Zenon DEF Work
<1>5. \A t \in Task : worker'[t] # "none" \/ t \in ToSet(prepare') <=> worker[t] # "none" \/ t \in ToSet(prepare)
  BY Zenon, <1>1, <1>3, <1>4 DEF FlowInv, Places
<1> QED
  BY Zenon, <1>1, <1>5 DEF Expected

(* VTG reads the answer for an abstract task.                              *)
LEMMA AbstractLedger ==
  ASSUME Counting, FlowInv, FlowInv', LedgerInv, VTGAbstract
  PROVE  /\ LedgerInv'
         /\ UNCHANGED pw
         /\ \/ /\ total_message = Null /\ Expected \subseteq Expected' /\ Expected' \subseteq Task
               /\ total_message' \in {Null, Cardinality(Expected')}
               /\ UNCHANGED verdict
            \/ UNCHANGED <<Expected, verdict, total_message>>
            \/ /\ UNCHANGED <<Expected, total_message>>
               /\ \E D \in SUBSET {t \in Expected : verdict[t] = "none"} :
                     verdict' = [t \in Task |-> IF t \in D THEN "failed" ELSE verdict[t]]
<1> DEFINE m == Head(processed)
           a == m.work
           new == [atask : {a}, envmodel : m.models, rule : Rule(a)]
           F == {t \in Task : t.atask = a}
           left == left_abstract_tasks - 1
           c == Cardinality(Rule(a))
<1>1. m \in Message /\ a \in Answered /\ a \in Atask /\ vtg = "get" /\ vtg' # "start"
  BY Zenon, TakenAnswer DEF VTGAbstract
<1>2. /\ left_abstract_tasks' = left /\ prepare' = prepare \o SetToSeq(new)
      /\ total_tasks' = IF setting.single THEN total_tasks ELSE total_tasks + Cardinality(new)
      /\ total_message' = IF ~setting.single /\ left = 0 THEN total_tasks' ELSE total_message
      /\ UNCHANGED <<setting, pw, worker>>
  BY Zenon DEF VTGAbstract
<1>3. \/ setting.single /\ new = {} /\ tasks_messages' = [tasks_messages EXCEPT !.failed = @ + c]
         /\ verdict' = [t \in Task |-> IF t.atask = a THEN "failed" ELSE verdict[t]]
      \/ UNCHANGED <<tasks_messages, verdict>>
  BY Zenon DEF VTGAbstract
<1>4. new \subseteq Task /\ IsFiniteSet(new) /\ \A t \in new : t.atask = a
  <2>1. new \subseteq Task /\ \A t \in new : t.atask = a
    BY Zenon, <1>1, TasksOf DEF Message
  <2> QED
    BY ZenonT(30), <2>1, WorkFinite, FiniteSubset
<1>5. ToSet(prepare') = ToSet(prepare) \cup new
  <2> HIDE DEF new
  <2>1. SetToSeq(new) \in Seq(new) /\ ToSet(SetToSeq(new)) = new
    BY Zenon, <1>4, SetToSeqLists
  <2>2. SetToSeq(new) \in Seq(Work)
    BY SMTT(30), <1>4, <2>1 DEF Work
  <2>3. prepare \in Seq(Work)
    BY Zenon DEF FlowInv, TypeInv
  <2> QED
    BY <1>2, <2>1, <2>2, <2>3, ToSetConcat
<1> HIDE DEF m, new
<1>6. a \notin Read /\ left_abstract_tasks # 0
  <2>1. a \notin Read
    BY Zenon, <1>1 DEF Read
  <2>2. Cardinality(Atask \ Read) # 0
    BY ZenonT(30), <1>1, <2>1, Elements, FiniteEmpty DEF FlowInv
  <2> QED
    BY Zenon, <2>1, <2>2 DEF FlowInv, Counted
<1>7. \A t \in F : worker[t] = "none" /\ t \notin ToSet(prepare) /\ verdict[t] = "none"
  BY Zenon, <1>6 DEF FlowInv, Families
<1>8. CASE setting.single
  <2>1. Expected = Task /\ Expected' = Task /\ total_message' = total_message
    BY Zenon, <1>1, <1>2, <1>8 DEF Expected
  <2>2. CASE UNCHANGED <<tasks_messages, verdict>>
    <3>1. \A v : Verdicts(v)' = Verdicts(v)
      BY Zenon, <2>2 DEF Verdicts
    <3>2. LedgerInv'
      BY Zenon, <1>2, <1>8, <2>1, <2>2, <3>1 DEF LedgerInv
    <3> QED
      BY Zenon, <1>2, <2>1, <2>2, <3>2
  <2>3. CASE /\ tasks_messages' = [tasks_messages EXCEPT !.failed = @ + c]
             /\ verdict' = [t \in Task |-> IF t.atask = a THEN "failed" ELSE verdict[t]]
    <3>1. IsFiniteSet(F) /\ Cardinality(F) = c /\ c \in Nat
      <4>1. Cardinality(Envmodel) = 1
        BY Zenon, <1>8, CoreConstants DEF FlowInv, TypeInv
      <4>2. IsFiniteSet(F) /\ Cardinality(F) = c
        BY Zenon, <1>1, <4>1, FamilySize
      <4> QED
        BY Zenon, <4>2, FiniteSize
    <3> HIDE DEF c
    <3>2. Verdicts("finished")' = Verdicts("finished")
      BY Zenon, <1>7, <2>3 DEF Verdicts
    <3>3. Verdicts("failed")' = Verdicts("failed") \cup F /\ Verdicts("failed") \cap F = {}
      BY Zenon, <1>7, <2>3 DEF Verdicts
    <3>4. Cardinality(Verdicts("failed")') = Cardinality(Verdicts("failed")) + c
      BY ZenonT(30), <3>1, <3>3, LedgerSets, DisjointUnion
    <3>5. tasks_messages'.finished = tasks_messages.finished /\ tasks_messages'.failed = tasks_messages.failed + c
      BY Zenon, <2>3 DEF FlowInv, TypeInv
    <3>6. pw.failed + tasks_messages'.failed = Cardinality(Verdicts("failed")')
      BY <3>1, <3>4, <3>5, LedgerSets DEF LedgerInv
    <3>7. LedgerInv'
      BY Zenon, <1>2, <1>8, <2>1, <3>2, <3>5, <3>6 DEF LedgerInv
    <3>8. F \in SUBSET {t \in Expected : verdict[t] = "none"}
      BY Zenon, <1>7, <2>1
    <3>9. verdict' = [t \in Task |-> IF t \in F THEN "failed" ELSE verdict[t]]
      BY Zenon, <2>3
    <3> QED
      BY Zenon, <1>2, <2>1, <3>7, <3>8, <3>9
  <2> QED
    BY Zenon, <1>3, <2>2, <2>3
<1>9. CASE ~setting.single
  <2>1. Expected' = Expected \cup new /\ Expected \cap new = {}
    BY Zenon, <1>2, <1>4, <1>5, <1>7, <1>9 DEF Expected
  <2>2. Cardinality(Expected') = Cardinality(Expected) + Cardinality(new) /\ IsFiniteSet(Expected')
    BY Zenon, <1>4, <2>1, LedgerSets, DisjointUnion
  <2>3. total_tasks' = Cardinality(Expected')
    BY Zenon, <1>2, <1>9, <2>2 DEF LedgerInv
  <2>4. UNCHANGED <<tasks_messages, verdict>> /\ total_message = Null
    BY Zenon, <1>3, <1>6, <1>9 DEF LedgerInv
  <2>5. \A v : Verdicts(v)' = Verdicts(v)
    BY Zenon, <2>4 DEF Verdicts
  <2>6. total_message' \in {Null, Cardinality(Expected')} /\ (total_message' # Null => left = 0)
    BY Zenon, <1>2, <1>9, <2>3, <2>4
  <2>7. pw'.total \in {Null, total_message'}
    BY Zenon, <1>2, <2>4 DEF LedgerInv
  <2>8. \A t \in Task : verdict'[t] # "none" => t \in Expected'
    BY Zenon, <2>1, <2>4 DEF LedgerInv
  <2>9. /\ pw'.finished + tasks_messages'.finished = Cardinality(Verdicts("finished")')
        /\ pw'.failed + tasks_messages'.failed = Cardinality(Verdicts("failed")')
    BY Zenon, <1>2, <2>4, <2>5 DEF LedgerInv
  <2>10. LedgerInv'
    BY ZenonT(30), <1>2, <2>3, <2>6, <2>7, <2>8, <2>9 DEF LedgerInv
  <2> QED
    BY ZenonT(30), <1>2, <1>4, <2>1, <2>4, <2>6, <2>10, LedgerSets
<1> QED
  BY Zenon, <1>8, <1>9, LedgerSets

(* VTG reads the answer for a verification task.                           *)
LEMMA TaskLedgerStep ==
  ASSUME Counting, FlowInv, LedgerInv, VTGTask
  PROVE  /\ LedgerInv'
         /\ UNCHANGED <<Expected, total_message, pw>>
         /\ \E t \in {u \in Expected : verdict[u] = "none"}, v \in {"finished", "failed"} :
               verdict' = [u \in Task |-> IF u \in {t} THEN v ELSE verdict[u]]
<1> DEFINE m == Head(processed)
           t == m.work
           status == IF m.other THEN "finished" ELSE "failed"
<1>1. t \in Answered /\ t \in Task /\ vtg = "get" /\ vtg' # "start"
  BY Zenon, TakenAnswer DEF VTGTask
<1>2. PICK v \in {"finished", "failed"} : v = status
  BY Zenon
<1> DEFINE k == tasks_messages[v] + 1
<1>3. /\ tasks_messages' = [tasks_messages EXCEPT ![v] = k]
      /\ verdict' = [verdict EXCEPT ![t] = v]
      /\ UNCHANGED <<setting, prepare, left_abstract_tasks, total_tasks, total_message, pw, worker>>
  BY Zenon, <1>2 DEF VTGTask
<1> HIDE DEF m, status
<1>4. worker[t] # "none" /\ verdict[t] = "none"
  BY Zenon, <1>1 DEF FlowInv, Places, Families, Settled
<1>5. Expected' = Expected /\ t \in Expected
  BY Zenon, <1>1, <1>3, <1>4 DEF Expected
<1>6. verdict' = [u \in Task |-> IF u \in {t} THEN v ELSE verdict[u]]
  BY Zenon, <1>1, <1>3 DEF FlowInv, TypeInv
<1>7. /\ Verdicts(v)' = Verdicts(v) \cup {t} /\ t \notin Verdicts(v)
      /\ \A x \in {"finished", "failed"} \ {v} : Verdicts(x)' = Verdicts(x)
  BY Zenon, <1>1, <1>4, <1>6 DEF Verdicts
<1>8. Cardinality(Verdicts(v)') = Cardinality(Verdicts(v)) + 1
  <2>1. IsFiniteSet(Verdicts(v))
    BY Zenon, LedgerSets
  <2> QED
    BY Zenon, <1>7, <2>1, FiniteAdd
<1>9. /\ tasks_messages'[v] = tasks_messages[v] + 1
      /\ \A x \in {"finished", "failed"} \ {v} : tasks_messages'[x] = tasks_messages[x]
  BY Zenon, <1>3 DEF FlowInv, TypeInv
<1>10. /\ pw.finished + tasks_messages'.finished = Cardinality(Verdicts("finished")')
       /\ pw.failed + tasks_messages'.failed = Cardinality(Verdicts("failed")')
  <2>0. /\ pw.finished + tasks_messages.finished = Cardinality(Verdicts("finished"))
        /\ pw.failed + tasks_messages.failed = Cardinality(Verdicts("failed"))
    BY Zenon DEF LedgerInv
  <2>1. CASE v = "finished"
    <3>1. Verdicts("failed")' = Verdicts("failed") /\ tasks_messages'.failed = tasks_messages.failed
      BY Zenon, <1>7, <1>9, <2>1
    <3>2. Cardinality(Verdicts("finished")') = Cardinality(Verdicts("finished")) + 1
          /\ tasks_messages'.finished = tasks_messages.finished + 1
      BY Zenon, <1>8, <1>9, <2>1
    <3> QED
      BY SMTT(30), <2>0, <3>1, <3>2, LedgerSets
  <2>2. CASE v = "failed"
    <3>1. Verdicts("finished")' = Verdicts("finished") /\ tasks_messages'.finished = tasks_messages.finished
      BY Zenon, <1>7, <1>9, <2>2
    <3>2. Cardinality(Verdicts("failed")') = Cardinality(Verdicts("failed")) + 1
          /\ tasks_messages'.failed = tasks_messages.failed + 1
      BY Zenon, <1>8, <1>9, <2>2
    <3> QED
      BY <2>0, <3>1, <3>2, LedgerSets
  <2> QED
    BY Zenon, <2>1, <2>2
<1>11. \A u \in Task : verdict'[u] # "none" => u \in Expected
  BY Zenon, <1>5, <1>6 DEF LedgerInv
<1>12. LedgerInv'
  BY Zenon, <1>3, <1>5, <1>10, <1>11 DEF LedgerInv
<1> QED
  BY ZenonT(30), <1>1, <1>3, <1>4, <1>5, <1>6, <1>12

(* A hundred per cent means that every task has been counted.              *)
LEMMA HundredPercent ==
  ASSUME NEW f \in Nat, NEW d \in Nat, d # 0, f <= d, (100 * f) \div d = 100
  PROVE  f = d
  OBVIOUS

(* The watcher takes the messages over and ends when the tasks it knows    *)
(* to be solved or failed are all that were announced.                     *)
LEMMA WatchLedger ==
  ASSUME Counting, FlowInv, LedgerInv, WatchProgress
  PROVE  /\ LedgerInv'
         /\ UNCHANGED <<Expected, verdict, total_message>>
         /\ pw.at = "watch"
         /\ pw'.finished = Cardinality(Verdicts("finished")) /\ pw.finished <= pw'.finished
         /\ pw'.failed = Cardinality(Verdicts("failed")) /\ pw.failed <= pw'.failed
         /\ pw'.at = "over" => total_message = pw'.finished + pw'.failed
<1> DEFINE f == pw.finished + tasks_messages.finished
           g == pw.failed + tasks_messages.failed
           total == IF pw.total = Null THEN total_message ELSE pw.total
           now == [pw EXCEPT !.finished = f, !.failed = g, !.total = total, !.started = @ \/ flag]
           next == CASE TasksProgress(now) = 100 -> "over"
                     [] TasksProgress(now) \in 11 .. 99 /\ ~now.started -> "failed"
                     [] OTHER -> "watch"
<1>1. /\ pw.at = "watch" /\ pw' = [now EXCEPT !.at = next]
      /\ tasks_messages' = [finished |-> 0, failed |-> 0]
      /\ UNCHANGED <<setting, vtgVars, total_message, worker>>
  BY Zenon DEF WatchProgress
<1>2. /\ f = Cardinality(Verdicts("finished")) /\ g = Cardinality(Verdicts("failed")) /\ f \in Nat /\ g \in Nat
      /\ pw.finished <= f /\ pw.failed <= g /\ total = total_message
  BY LedgerSets DEF LedgerInv
<1>3. pw = [at |-> pw.at, finished |-> pw.finished, failed |-> pw.failed, total |-> pw.total, started |-> pw.started]
  BY Zenon DEF FlowInv, TypeInv
<1>4. Expected' = Expected /\ \A v : Verdicts(v)' = Verdicts(v)
  BY Zenon, <1>1 DEF Expected, Verdicts, vtgVars
<1> HIDE DEF f, g, total, next
<1>5. now.finished = f /\ now.failed = g /\ now.total = total
  BY Zenon, <1>3
<1>6. pw'.finished = f /\ pw'.failed = g /\ pw'.total = total /\ pw'.at = next
  BY Zenon, <1>1, <1>3
<1> HIDE DEF now
<1>7. f + g <= Cardinality(Expected)
  <2>1. Verdicts("finished") \cap Verdicts("failed") = {} /\ Verdicts("finished") \cup Verdicts("failed") \subseteq Expected
    BY Zenon DEF Verdicts, LedgerInv
  <2>2. Cardinality(Verdicts("finished") \cup Verdicts("failed")) = f + g
    BY Zenon, <1>2, <2>1, LedgerSets, DisjointUnion
  <2> QED
    BY Zenon, <2>1, <2>2, LedgerSets, FiniteSubset
<1>8. ASSUME next = "over" PROVE total = f + g
  <2>1. TasksProgress(now) = 100
    BY Zenon, <1>8 DEF next
  <2>2. total # Null
    BY <1>5, <2>1, Marks DEF TasksProgress
  <2>3. total = Cardinality(Expected) /\ total \in Nat
    BY Zenon, <1>2, <2>2, LedgerSets DEF LedgerInv
  <2>4. CASE g = total
    BY <1>2, <1>7, <2>3, <2>4
  <2>5. CASE g # total
    <3>1. (100 * f) \div (total - g) = 100
      BY Zenon, <1>5, <2>1, <2>2, <2>5 DEF TasksProgress
    <3>2. total - g \in Nat /\ total - g # 0 /\ f <= total - g
      BY SMTT(30), <1>2, <1>7, <2>3, <2>5
    <3>3. f = total - g
      BY <1>2, <3>1, <3>2, HundredPercent
    <3> QED
      BY <1>2, <2>3, <3>3
  <2> QED
    BY Zenon, <2>4, <2>5
<1>9. LedgerInv'
  <2>1. tasks_messages'.finished = 0 /\ tasks_messages'.failed = 0
    BY Zenon, <1>1
  <2>2. f + 0 = f /\ g + 0 = g
    BY SMTT(30), <1>2
  <2> QED
    BY Zenon, <1>1, <1>2, <1>4, <1>6, <2>1, <2>2 DEF LedgerInv, vtgVars
<1> QED
  BY Zenon, <1>1, <1>2, <1>4, <1>6, <1>8, <1>9 DEF vtgVars

(* Starting VTG changes nothing in the ledger. *)
LEMMA StartLedger ==
  ASSUME Counting, FlowInv, LedgerInv, VTGStart
  PROVE  /\ LedgerInv'
         /\ UNCHANGED <<verdict, pw>>
         /\ total_message = Null /\ Expected \subseteq Expected' /\ Expected' \subseteq Task
         /\ total_message' \in {Null, Cardinality(Expected')}
<1>1. /\ vtg = "start" /\ vtg' = "loop" /\ total_message = Null
      /\ UNCHANGED <<setting, worker, verdict, pw, tasks_messages, left_abstract_tasks>>
  BY Zenon DEF VTGStart, FlowInv, Phases
<1>2. ToSet(prepare') = Atask /\ ToSet(prepare) = {}
  <2>1. prepare' = SetToSeq(Atask) /\ prepare = <<>>
    BY Zenon, <1>1 DEF VTGStart, FlowInv, Phases
  <2> QED
    BY SMTT(30), <2>1, CoreConstants, SetToSeqLists DEF ToSet
<1>3. \A v : Verdicts(v)' = Verdicts(v)
  BY Zenon, <1>1 DEF Verdicts
<1>4. pw.total = Null
  BY Zenon, <1>1 DEF LedgerInv
<1>5. CASE setting.single
  <2>1. Expected' = Task /\ total_tasks' = Cardinality(Task) /\ total_message' = total_tasks'
    BY Zenon, <1>1, <1>5 DEF VTGStart, Expected
  <2>2. Expected \subseteq Task
    BY Zenon DEF Expected
  <2>3. LedgerInv'
    BY Zenon, <1>1, <1>3, <1>4, <1>5, <2>1 DEF LedgerInv
  <2> QED
    BY Zenon, <1>1, <2>1, <2>2, <2>3
<1>6. CASE ~setting.single
  <2>1. UNCHANGED <<total_tasks, total_message>>
    BY Zenon, <1>6 DEF VTGStart
  <2>2. Expected' = Expected
    BY Zenon, <1>1, <1>2, <1>6, Marks DEF Expected
  <2>3. LedgerInv'
    BY Zenon, <1>1, <1>3, <1>4, <1>6, <2>1, <2>2 DEF LedgerInv
  <2> QED
    BY Zenon, <1>1, <2>1, <2>2, <2>3, LedgerSets
<1> QED
  BY Zenon, <1>5, <1>6, LedgerSets

(* Every step keeps what VTG has told PW in line with what it knows. *)
LEMMA LedgerStep ==
  ASSUME Counting PROVE FlowInv /\ FlowInv' /\ LedgerInv /\ [Next]_vars => LedgerInv'
<1> SUFFICES ASSUME FlowInv, FlowInv', LedgerInv, [Next]_vars PROVE LedgerInv'
  BY Zenon
<1>1. CASE Quiet
  BY Zenon, <1>1, QuietLedger DEF LedgerInv, Quiet
<1>2. CASE VTGSubmit
  <2>1. Expected' = Expected /\ \A v : Verdicts(v)' = Verdicts(v)
    BY Zenon, <1>2, SubmitLedger DEF Verdicts, VTGSubmit
  <2> QED
    BY Zenon, <1>2, <2>1 DEF LedgerInv, VTGSubmit, pwVars
<1> QED
  BY Zenon, <1>1, <1>2, OtherStepsQuiet, StartLedger, AbstractLedger, TaskLedgerStep, WatchLedger

(* The ledger starts empty. *)
LEMMA LedgerInitial ==
  ASSUME Counting PROVE Init => LedgerInv /\ Ledger!LedgerInit
<1> SUFFICES ASSUME Init PROVE LedgerInv /\ Ledger!LedgerInit
  BY Zenon
<1>1. Verdicts("finished") = {} /\ Verdicts("failed") = {}
  BY Zenon DEF Init, Verdicts
<1>2. Expected = {}
  <2>1. ToSet(prepare) = {} /\ Task \subseteq Work
    BY DEF Init, ToSet, Work
  <2> QED
    BY Zenon, <2>1 DEF Init, Expected
<1>3. Cardinality({}) = 0
  BY Zenon, FiniteEmpty
<1>4. LedgerInv
  <2>1. pw.finished = 0 /\ pw.failed = 0 /\ pw.total = Null /\ total_message = Null /\ total_tasks = 0
    BY Zenon DEF Init
  <2>2. tasks_messages.finished = 0 /\ tasks_messages.failed = 0
    BY Zenon DEF Init
  <2>3. \A t \in Task : verdict[t] = "none"
    BY Zenon DEF Init
  <2> QED
    BY SMTT(30), <1>1, <1>2, <1>3, <2>1, <2>2, <2>3 DEF LedgerInv
<1>5. Ledger!LedgerInit
  BY Zenon, <1>2 DEF Ledger!LedgerInit, Init
<1> QED
  BY Zenon, <1>4, <1>5

(* The ledger counts as Core does.                                         *)
LEMMA LedgerCardinality == \A S : Ledger!Cardinality(S) = Cardinality(S)
  BY Zenon DEF Ledger!Cardinality, Cardinality

(* Every step of Core is a step of the ledger or leaves it alone.          *)
LEMMA LedgerSimulation ==
  ASSUME Counting PROVE FlowInv /\ FlowInv' /\ LedgerInv /\ [Next]_vars => [Ledger!LedgerNext]_(Ledger!ledgerVars)
<1> SUFFICES ASSUME FlowInv, FlowInv', LedgerInv, [Next]_vars
             PROVE  [Ledger!LedgerNext]_(Ledger!ledgerVars)
  BY Zenon
<1> DEFINE shown == [finished |-> pw.finished, failed |-> pw.failed]
<1>0. pw'.at = pw.at /\ pw'.finished = pw.finished /\ pw'.failed = pw.failed => shown' = shown
  BY Zenon
<1>1. CASE Quiet
  BY Zenon, <1>1, QuietLedger DEF Quiet, Ledger!ledgerVars
<1>2. CASE VTGSubmit
  BY Zenon, <1>2, SubmitLedger DEF VTGSubmit, pwVars, Ledger!ledgerVars
<1>3. CASE VTGStart
  <2>1. Ledger!Expect
    BY Zenon, <1>3, StartLedger, LedgerCardinality DEF Ledger!Expect
  <2> QED
    BY Zenon, <2>1 DEF Ledger!LedgerNext
<1>4. CASE VTGAbstract
  <2>1. CASE /\ total_message = Null /\ Expected \subseteq Expected' /\ Expected' \subseteq Task
             /\ total_message' \in {Null, Cardinality(Expected')}
             /\ UNCHANGED <<verdict, pw>>
    BY Zenon, <2>1, LedgerCardinality DEF Ledger!Expect, Ledger!LedgerNext
  <2>2. CASE UNCHANGED <<Expected, verdict, total_message, pw>>
    BY Zenon, <2>2 DEF Ledger!ledgerVars
  <2>3. CASE /\ UNCHANGED <<Expected, total_message, pw>>
             /\ \E D \in SUBSET {t \in Expected : verdict[t] = "none"} :
                   verdict' = [t \in Task |-> IF t \in D THEN "failed" ELSE verdict[t]]
    BY Zenon, <2>3 DEF Ledger!Decide, Ledger!LedgerNext
  <2> QED
    BY Zenon, <1>4, <2>1, <2>2, <2>3, AbstractLedger
<1>5. CASE VTGTask
  <2>1. PICK t \in {u \in Expected : verdict[u] = "none"}, v \in {"finished", "failed"} :
           verdict' = [u \in Task |-> IF u \in {t} THEN v ELSE verdict[u]]
    BY Zenon, <1>5, TaskLedgerStep
  <2>2. {t} \in SUBSET {u \in Expected : verdict[u] = "none"}
    BY Zenon
  <2>3. UNCHANGED <<Expected, total_message, pw>>
    BY Zenon, <1>5, TaskLedgerStep
  <2> QED
    BY ZenonT(30), <2>1, <2>2, <2>3 DEF Ledger!Decide, Ledger!LedgerNext
<1>6. CASE WatchProgress
  <2>1. /\ UNCHANGED <<Expected, verdict, total_message>>
        /\ pw.at = "watch"
        /\ pw'.finished = Cardinality(Verdicts("finished")) /\ pw.finished <= pw'.finished
        /\ pw'.failed = Cardinality(Verdicts("failed")) /\ pw.failed <= pw'.failed
        /\ pw'.at = "over" => total_message = pw'.finished + pw'.failed
    BY Zenon, <1>6, WatchLedger
  <2>2. /\ pw'.finished \in 0 .. Cardinality(Verdicts("finished")) /\ pw'.failed \in 0 .. Cardinality(Verdicts("failed"))
    BY <2>1, LedgerSets
  <2>3. Verdicts("finished") = Ledger!Decided("finished") /\ Verdicts("failed") = Ledger!Decided("failed")
    BY Zenon DEF Verdicts, Ledger!Decided
  <2>4. PICK a \in 0 .. Ledger!Cardinality(Ledger!Decided("finished")), b \in 0 .. Ledger!Cardinality(Ledger!Decided("failed")) :
           a = pw'.finished /\ b = pw'.failed
    BY Zenon, <2>2, <2>3, LedgerCardinality
  <2>5. (pw'.at = "over") \in (IF total_message = a + b THEN BOOLEAN ELSE {FALSE})
    BY Zenon, <2>1, <2>4
  <2>6. Ledger!Show
    BY Zenon, <2>1, <2>4, <2>5 DEF Ledger!Show
  <2> QED
    BY Zenon, <2>6 DEF Ledger!LedgerNext
<1> QED
  BY Zenon, <1>1, <1>2, <1>3, <1>4, <1>5, <1>6, OtherStepsQuiet
=============================================================================
