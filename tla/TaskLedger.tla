----------------------------- MODULE TaskLedger -----------------------------
(***************************************************************************)
(* What Klever Core promises about the verification tasks of one job: the  *)
(* tasks that are expected get exactly one verdict each, the number of     *)
(* tasks is announced once, what the progress watcher shows never exceeds  *)
(* the verdicts there are, and the watcher ends only when it has shown a   *)
(* verdict for every task.  CoreTasks implements this specification.       *)
(***************************************************************************)
EXTENDS Naturals, FiniteSets

CONSTANTS Task,     \* verification tasks that may be expected
          Unknown   \* the number of tasks before it is announced

VARIABLES expected, \* tasks that are to be decided
          verdict,  \* task -> "none", "finished" or "failed"
          total,    \* the announced number of tasks or Unknown
          shown,    \* numbers of finished and failed tasks that are shown
          over      \* the progress watcher has ended

ledgerVars == <<expected, verdict, total, shown, over>>

Decided(v) == {t \in Task : verdict[t] = v}

LedgerInit == /\ expected = {}
              /\ verdict = [t \in Task |-> "none"]
              /\ total = Unknown
              /\ shown = [finished |-> 0, failed |-> 0]
              /\ over = FALSE

(* More tasks are expected, or their number is announced, or both.         *)
Expect == /\ total = Unknown
          /\ expected' \in SUBSET Task
          /\ expected \subseteq expected'
          /\ total' \in {Unknown, Cardinality(expected')}
          /\ UNCHANGED <<verdict, shown, over>>

(* Expected tasks without a verdict get one; the step that learns that     *)
(* nothing more is to be expected may announce the number as well.         *)
Decide == /\ \E D \in SUBSET {t \in expected : verdict[t] = "none"}, v \in {"finished", "failed"} :
                verdict' = [t \in Task |-> IF t \in D THEN v ELSE verdict[t]]
          /\ total' \in {total} \cup (IF total = Unknown THEN {Cardinality(expected)} ELSE {})
          /\ UNCHANGED <<expected, shown, over>>

(* The watcher shows more of the verdicts, and ends when it shows all.     *)
Show == /\ ~over
        /\ \E a \in 0 .. Cardinality(Decided("finished")), b \in 0 .. Cardinality(Decided("failed")) :
              /\ shown.finished <= a
              /\ shown.failed <= b
              /\ shown' = [finished |-> a, failed |-> b]
              /\ over' \in (IF total = a + b THEN BOOLEAN ELSE {FALSE})
        /\ UNCHANGED <<expected, verdict, total>>

LedgerNext == Expect \/ Decide \/ Show

LedgerSpec == LedgerInit /\ [][LedgerNext]_ledgerVars
=============================================================================
