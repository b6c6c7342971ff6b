------------------------ MODULE MCWorkflowEnrollment ------------------------
(***************************************************************************)
(* Small instances of WorkflowEnrollment for TLC.                          *)
(***************************************************************************)
EXTENDS WorkflowEnrollment, TLC

CONSTANTS s1, s2, a1, a2, q1, q2, t1, t2

(* s2 may be a regeneration of s1.                                         *)
NoAncestors == [s \in Strategies |-> {}]
Revision    == [s \in Strategies |-> IF s = s2 THEN {s1} ELSE {}]

(* Every two strategies have the same segment.                             *)
SameSegment == [s \in Strategies |-> Strategies \ {s}]

Everybody == [s \in Strategies |-> Accounts]

Symmetry == Permutations(Accounts) \cup Permutations(Threads)

RequestSymmetry == Permutations(Requests)
=============================================================================
