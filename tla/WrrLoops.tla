------------------------------ MODULE WrrLoops ------------------------------
(***************************************************************************)
(* The loops of DoReadWriteClassicalWrr and DoReadWriteInterleavedWrr,     *)
(* iteration by iteration: the reference the decisions of WrrArbiter are   *)
(* compared with, in every state the arbiter reaches in WrrRounds.         *)
(***************************************************************************)
EXTENDS WrrRounds

(***************************************************************************)
(* An iteration looks at one position of the scan: it returns a result and *)
(* the counters it leaves, or goes on from another position.               *)
(***************************************************************************)
GoesOn(scan) == [result |-> "NONE", wrr |-> scan]

ClassicalLoop(scan, w, r) ==
  IF scan.index = 2 THEN GoesOn(ScanAt(0, 0, scan.round))
  ELSE IF scan.index = 0 /\ w /\ scan.count < WriteWeight
    THEN [result |-> "PKTWRITE",
          wrr |-> IF scan.count + 1 >= WriteWeight THEN ScanAt(1, 0, scan.round)
                                                   ELSE ScanAt(0, scan.count + 1, scan.round)]
  ELSE IF scan.index = 1 /\ r /\ scan.count < ReadWeight
    THEN [result |-> "PKTREAD",
          wrr |-> IF scan.count + 1 >= ReadWeight THEN ScanAt(0, 0, scan.round)
                                                  ELSE ScanAt(1, scan.count + 1, scan.round)]
  ELSE GoesOn(ScanAt(scan.index + 1, scan.count, scan.round))

InterleavedLoop(scan, w, r) ==
  IF scan.round = Rounds THEN GoesOn(ScanAt(0, scan.count, 0))
  ELSE IF scan.index = 2 THEN GoesOn(ScanAt(0, scan.count, scan.round + 1))
  ELSE IF scan.index = 0 /\ w /\ scan.round < WriteWeight
    THEN [result |-> "PKTWRITE", wrr |-> ScanAt(1, scan.count, scan.round)]
  ELSE IF scan.index = 1 /\ r /\ scan.round < ReadWeight
    THEN [result |-> "PKTREAD", wrr |-> ScanAt(2, scan.count, scan.round)]
  ELSE GoesOn(ScanAt(scan.index + 1, scan.count, scan.round))

Iteration(alg, scan, w, r) ==
  IF alg = "CLASSICALWRR" THEN ClassicalLoop(scan, w, r) ELSE InterleavedLoop(scan, w, r)

(***************************************************************************)
(* Where a call is after n iterations; it stays where it returned.         *)
(***************************************************************************)
Loop(alg, start, w, r) ==
  LET run[n \in Nat] ==
        IF n = 0 THEN GoesOn(start)
        ELSE LET last == run[n - 1]
             IN IF last.result # "NONE" THEN last ELSE Iteration(alg, last.wrr, w, r)
  IN run

(***************************************************************************)
(* No call takes more: the scan passes three positions per round, and once *)
(* it is back in the first round it serves whoever has requests.           *)
(***************************************************************************)
LoopBound == 3 * Rounds + 4

-----------------------------------------------------------------------------
(***************************************************************************)
(* The place WrrArbiter stops at is the one the code's nested loops stop   *)
(* at, and leaves the same counters, whatever the backlog; and they stop.  *)
(***************************************************************************)
DecisionIsTheLoops ==
  Loop(algorithm, wrr, writes, reads)[LoopBound] = WrrDecision(algorithm, wrr, writes, reads)
=============================================================================
