-------------------------- MODULE MCWorkflowQueue --------------------------
(***************************************************************************)
(* Small instances of WorkflowQueue for TLC.                               *)
(***************************************************************************)
EXTENDS WorkflowQueue, TLC

CONSTANTS j1, j2, w1, w2, r1

MCRunOf == [j \in Jobs |-> r1]

(* resume_run is enqueued with priority 40, execute_step with 100.         *)
MCPrio == [j \in Jobs |-> IF j = j1 THEN 40 ELSE 100]

MCSymmetry == Permutations(Workers)
=============================================================================
