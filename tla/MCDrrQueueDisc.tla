--------------------------- MODULE MCDrrQueueDisc ---------------------------
(***************************************************************************)
(* Small instances of DrrQueueDisc.                                        *)
(***************************************************************************)
EXTENDS DrrQueueDisc

(***************************************************************************)
(* The weights 2 and 1 of the switch, and a third class.                  *)
(***************************************************************************)
Weights == [i \in Classes |-> IF i = 0 THEN 2 ELSE 1]

(***************************************************************************)
(* Packets smaller than the credit of class 0, larger than that of class 1 *)
(* and equal to that of class 2.  Classes 0 and 2 send alike, and in the   *)
(* range of the counter class 2 gets further ahead of its weight than it   *)
(* could with packets no smaller than the credits.                         *)
(***************************************************************************)
UnlikePackets == [i \in Classes |-> IF i = 1 THEN {3} ELSE {1}]
=============================================================================
