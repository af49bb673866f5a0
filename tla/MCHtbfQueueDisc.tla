-------------------------- MODULE MCHtbfQueueDisc --------------------------
(***************************************************************************)
(* Small instances of HtbfQueueDisc: two classes under a root.             *)
(***************************************************************************)
EXTENDS HtbfQueueDisc

(***************************************************************************)
(* Classes with different bursts and together faster than the root, whose  *)
(* second bucket takes one large packet.                                   *)
(***************************************************************************)
Bursts == [s \in Shapers |-> CASE s = Root -> 4 [] s = 0 -> 3 [] OTHER -> 2]
Mtus == [s \in Shapers |-> 2]
Rates == [s \in Shapers |-> IF s = 0 THEN 2 ELSE 3]
PeakRates == [s \in Shapers |-> IF s = Root THEN 4 ELSE 0]

(***************************************************************************)
(* Rates above two bytes a tick: 24 Gb/s.                                  *)
(***************************************************************************)
FastRates == [s \in Shapers |-> 3]
NoPeak == [s \in Shapers |-> 0]
=============================================================================
