----------------------------- MODULE MCSwitchMmu -----------------------------
(***************************************************************************)
(* Small instances of SwitchMmu.                                           *)
(***************************************************************************)
EXTENDS SwitchMmu

CONSTANTS p1, p2, p3, p4

Queue(port, pri) == [port |-> port, pri |-> pri, index |-> 0]

(***************************************************************************)
(* Two priorities of a port, one of them for p4 only.                      *)
(***************************************************************************)
TwoPriorities == {Queue(0, 0), Queue(0, 1)}
AllButLast == [p \in Packets |-> IF p = p4 THEN Queue(0, 1) ELSE Queue(0, 0)]

(***************************************************************************)
(* Packets of two atomic operations, one that ends in a part-full burst    *)
(* and an ACK.                                                             *)
(***************************************************************************)
Sizes == [p \in Packets |-> CASE p = p1 -> 5 [] p = p2 -> 3 [] p = p3 -> 4 [] OTHER -> 2]

NoWred == [pri \in {q.pri : q \in Queues} |-> 0]
SomeWred == [pri \in {q.pri : q \in Queues} |-> 8]

(***************************************************************************)
(* HW's wcacheFullTh is larger than the write cache for the first          *)
(* priority, in the proportion of the code's defaults, and leaves room for *)
(* a packet for the second.                                                *)
(***************************************************************************)
HwThresholds ==
  [q \in Queues |->
    [cgMax |-> 4, cgMin |-> 3, longCgQlen |-> 4, wcacheFullTh |-> IF q.pri = 0 THEN 56 ELSE 6,
     wcacheCgTh |-> 3, alphaOfQueue |-> 1, alphaOfPriority |-> 2, alphaOfPort |-> 2]]
=============================================================================
