--------------------------- MODULE MCOffChipBuffer ---------------------------
(***************************************************************************)
(* Small instances of OffChipBuffer.                                       *)
(***************************************************************************)
EXTENDS OffChipBuffer

CONSTANTS p1, p2, p3

(***************************************************************************)
(* One packet that needs two atomic operations and ends in a part-full     *)
(* burst, and packets that need one.                                       *)
(***************************************************************************)
MixedSizes == [p \in Packets |-> IF p = p1 THEN 5 ELSE 2]

(***************************************************************************)
(* All packets of one size, two atomic operations each.                    *)
(***************************************************************************)
EqualSizes == [p \in Packets |-> 5]
=============================================================================
