---------------------------- MODULE MCExecLocker ----------------------------
(* Three requests over two names: two that share each name with a third. *)
EXTENDS ExecLocker, TLC

CONSTANTS r1, r2, r3, decision, job

MCRequest == {r1, r2, r3}

MCName == {decision, job}

(* Views that lock Decision, Job, and Job together with its decisions. *)
MCNames == (r1 :> {decision}) @@ (r2 :> {decision, job}) @@ (r3 :> {job})
=============================================================================
