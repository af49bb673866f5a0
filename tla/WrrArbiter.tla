----------------------------- MODULE WrrArbiter -----------------------------
(***************************************************************************)
(* The arbiter of the off-chip buffer's HBM engine: which of the two       *)
(* request vectors, write (0) or read (1), the next cycle serves.          *)
(* OffChipBuffer::DoReadWriteInterleavedWrr and DoReadWriteClassicalWrr    *)
(* scan the two queues in nested loops that resume where the last call     *)
(* stopped; here each scan is written as the place it stops at.            *)
(*                                                                         *)
(* The scan position is a record of the three counters of the class:       *)
(*   index  m_wrrQueIndex                                                  *)
(*   count  m_classicalWrrPacketCnt                                        *)
(*   round  m_interleavedWrrRoundCnt                                       *)
(***************************************************************************)
EXTENDS Integers

CONSTANTS WriteWeight,  \* m_wrrWWeight
          ReadWeight    \* m_wrrRWeight

(***************************************************************************)
(* The attributes accept a weight of 0; with one, and requests in that     *)
(* queue only, both scans of the code loop forever, so the model leaves    *)
(* the weight 0 out.                                                       *)
(***************************************************************************)
ASSUME ArbiterAssumption ==
  /\ WriteWeight \in Nat \ {0}
  /\ ReadWeight \in Nat \ {0}

ArbAlgorithms == {"INTERLEAVEDWRR", "CLASSICALWRR"}

Rounds == IF WriteWeight > ReadWeight THEN WriteWeight ELSE ReadWeight

WrrState == [index : 0 .. 2, count : Nat, round : Nat]

ScanAt(index, count, round) == [index |-> index, count |-> count, round |-> round]

InitWrr == ScanAt(0, 0, 0)

-----------------------------------------------------------------------------
(***************************************************************************)
(* Classical WRR: the write queue is served until WriteWeight packets are  *)
(* counted, then the read queue until ReadWeight are.  The count is reset  *)
(* when a turn is used up and when the scan passes the read queue, but not *)
(* when it leaves an empty write queue for the read queue.                 *)
(***************************************************************************)
ClassicalWrite(wrr, count) ==
  [result |-> "PKTWRITE",
   wrr |-> IF count + 1 >= WriteWeight
             THEN ScanAt(1, 0, wrr.round)
             ELSE ScanAt(0, count + 1, wrr.round)]

WrongClassicalRead(wrr, count) ==  \* mutant: one read more than the weight
  [result |-> "PKTREAD",
   wrr |-> IF count >= ReadWeight
             THEN ScanAt(0, 0, wrr.round)
             ELSE ScanAt(1, count + 1, wrr.round)]

ClassicalRead(wrr, count) ==
  [result |-> "PKTREAD",
   wrr |-> IF count + 1 >= ReadWeight
             THEN ScanAt(0, 0, wrr.round)
             ELSE ScanAt(1, count + 1, wrr.round)]

WrongDoReadWriteClassicalWrr(wrr, writes, reads) ==  \* mutant: reads start a new count
  IF wrr.index = 0 /\ writes /\ wrr.count < WriteWeight
    THEN ClassicalWrite(wrr, wrr.count)
    ELSE IF reads THEN ClassicalRead(wrr, IF wrr.index = 1 THEN wrr.count ELSE 0)
                  ELSE ClassicalWrite(wrr, 0)

DoReadWriteClassicalWrr(wrr, writes, reads) ==
  IF wrr.index = 0 /\ writes /\ wrr.count < WriteWeight
    THEN ClassicalWrite(wrr, wrr.count)
    ELSE IF wrr.index < 2 /\ reads /\ wrr.count < ReadWeight
           THEN ClassicalRead(wrr, wrr.count)
           ELSE IF writes THEN ClassicalWrite(wrr, 0)
                          ELSE ClassicalRead(wrr, 0)

-----------------------------------------------------------------------------
(***************************************************************************)
(* Interleaved WRR: each round offers one cycle to the write queue, then   *)
(* one to the read queue, to each as long as the round is below its        *)
(* weight.  One round, scanned from index on:                              *)
(***************************************************************************)
WrongInterleavedRound(wrr, round, index, writes, reads, otherwise) ==  \* mutant: no weight for writes
  IF index = 0 /\ writes
    THEN [result |-> "PKTWRITE", wrr |-> ScanAt(1, wrr.count, round)]
    ELSE IF index < 2 /\ reads /\ round < ReadWeight
           THEN [result |-> "PKTREAD", wrr |-> ScanAt(2, wrr.count, round)]
           ELSE otherwise

InterleavedRound(wrr, round, index, writes, reads, otherwise) ==
  IF index = 0 /\ writes /\ round < WriteWeight
    THEN [result |-> "PKTWRITE", wrr |-> ScanAt(1, wrr.count, round)]
    ELSE IF index < 2 /\ reads /\ round < ReadWeight
           THEN [result |-> "PKTREAD", wrr |-> ScanAt(2, wrr.count, round)]
           ELSE otherwise

(***************************************************************************)
(* A later round offers no more than an earlier one, so the scan stops in  *)
(* the round it resumes, in the next one, or back in the first.            *)
(***************************************************************************)
WrongDoReadWriteInterleavedWrr(wrr, writes, reads) ==  \* mutant: the round is not remembered
  InterleavedRound(wrr, 0, 0, writes, reads, [result |-> "NONE", wrr |-> wrr])

DoReadWriteInterleavedWrr(wrr, writes, reads) ==
  LET first == InterleavedRound(wrr, 0, 0, writes, reads, [result |-> "NONE", wrr |-> wrr])
      next == InterleavedRound(wrr, wrr.round + 1, 0, writes, reads, first)
  IN InterleavedRound(wrr, wrr.round, wrr.index, writes, reads, next)

-----------------------------------------------------------------------------
(***************************************************************************)
(* The switch at the end of OffChipBuffer::ArbitrateWR; writes and reads   *)
(* say whether the vectors hold requests, and one of them does.            *)
(***************************************************************************)
WrrDecision(algorithm, wrr, writes, reads) ==
  IF algorithm = "CLASSICALWRR"
    THEN DoReadWriteClassicalWrr(wrr, writes, reads)
    ELSE DoReadWriteInterleavedWrr(wrr, writes, reads)
=============================================================================
