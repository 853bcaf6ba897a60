--------------------------- MODULE MCBridgeService ---------------------------
(* Instances of the service part of Bridge for TLC. *)
EXTENDS BridgeService, TLC

CONSTANTS t1, t2

(* What Klever Core and the scheduler send while tasks are being solved. *)
Solving == {"start", "create", "update", "destroy", "progress", "solution"}

(* Everything that can interrupt the decision; a report that cannot be     *)
(* processed acts as a failure, and the progress as an update.             *)
Breaking == RequestKind \ {"progress", "corrupted"}

MCPermutations == Permutations(Task)
=============================================================================
