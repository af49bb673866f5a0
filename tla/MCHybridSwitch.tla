--------------------------- MODULE MCHybridSwitch ---------------------------
(***************************************************************************)
(* Small instances of HybridSwitch: one port with one queue.               *)
(***************************************************************************)
EXTENDS HybridSwitch

CONSTANTS p1, p2, p3, p4

OneQueue == {[port |-> 0, pri |-> 0, index |-> 0]}
AllInOne == [p \in Packets |-> [port |-> 0, pri |-> 0, index |-> 0]]

(***************************************************************************)
(* A packet of two atomic operations, one that ends in a part-full burst   *)
(* and one that is an ACK or the shortest.                                 *)
(***************************************************************************)
Sizes == [p \in Packets |-> CASE p = p1 -> 5 [] p = p2 -> 3 [] OTHER -> 2]

NoWred == [pri \in {q.pri : q \in Queues} |-> 0]

NoHw ==
  [q \in Queues |->
    [cgMax |-> 0, cgMin |-> 0, longCgQlen |-> 0, wcacheFullTh |-> 0, wcacheCgTh |-> 0,
     alphaOfQueue |-> 0, alphaOfPriority |-> 0, alphaOfPort |-> 0]]
=============================================================================
