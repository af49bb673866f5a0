---------------------------- MODULE MCSwitchPort ----------------------------
(***************************************************************************)
(* Small instances of SwitchPort: two queues.                              *)
(***************************************************************************)
EXTENDS SwitchPort

CONSTANTS p1, p2, p3, p4, q1, q2

OneApart == [p \in Packets |-> IF p = p1 THEN q2 ELSE q1]

(***************************************************************************)
(* One packet larger than the others.                                      *)
(***************************************************************************)
Sizes == [p \in Packets |-> IF p = p2 THEN 4 ELSE 2]
=============================================================================
