-------------------------- MODULE WrrRounds_proofs --------------------------
(***************************************************************************)
(* The arbiter at work, for all weights: where the scan may stand, that    *)
(* nobody waits longer than the other queue's weight, that the share is    *)
(* that of the weights, and that the closed form decides as the loops do.  *)
(***************************************************************************)
EXTENDS WrrLoops, WellFoundedInduction, TLAPS

(***************************************************************************)
(* A decision picks a vector that holds requests and keeps the types of    *)
(* the counters (ArbitrateWR asks for one only when there is work).        *)
(***************************************************************************)
LEMMA DecisionSound ==
  ASSUME NEW alg,
         NEW scan \in WrrState, NEW w \in BOOLEAN, NEW r \in BOOLEAN,
         w \/ r
  PROVE  LET d == WrrDecision(alg, scan, w, r)
         IN /\ d.wrr \in WrrState
            /\ \/ d.result = "PKTWRITE" /\ w
               \/ d.result = "PKTREAD" /\ r
<1> DEFINE d == WrrDecision(alg, scan, w, r)
<1>1. \A i \in 0 .. 2, c, n \in Nat : ScanAt(i, c, n) \in WrrState
  BY DEF WrrState, ScanAt
<1>2. /\ scan.index \in 0 .. 2 /\ scan.count \in Nat /\ scan.round \in Nat
      /\ 0 < WriteWeight /\ 0 < ReadWeight
  BY ArbiterAssumption DEF WrrState
<1>3. CASE alg = "CLASSICALWRR"
  BY <1>1, <1>2, <1>3 DEF WrrDecision, DoReadWriteClassicalWrr, ClassicalWrite, ClassicalRead
<1>4. CASE alg # "CLASSICALWRR"
  BY <1>1, <1>2, <1>4 DEF WrrDecision, DoReadWriteInterleavedWrr, InterleavedRound
<1> QED BY <1>3, <1>4

(***************************************************************************)
(* The counters a served packet leaves behind.                             *)
(***************************************************************************)
LEMMA ClassicalWriteIs ==
  ASSUME NEW scan \in WrrState, NEW count \in Nat
  PROVE  LET d == ClassicalWrite(scan, count)
         IN /\ d.result = "PKTWRITE"
            /\ d.wrr \in WrrState
            /\ d.wrr.round = scan.round
            /\ \/ count + 1 >= WriteWeight /\ d.wrr.index = 1 /\ d.wrr.count = 0
               \/ count + 1 < WriteWeight /\ d.wrr.index = 0 /\ d.wrr.count = count + 1
BY ArbiterAssumption DEF ClassicalWrite, ScanAt, WrrState

LEMMA ClassicalReadIs ==
  ASSUME NEW scan \in WrrState, NEW count \in Nat
  PROVE  LET d == ClassicalRead(scan, count)
         IN /\ d.result = "PKTREAD"
            /\ d.wrr \in WrrState
            /\ d.wrr.round = scan.round
            /\ \/ count + 1 >= ReadWeight /\ d.wrr.index = 0 /\ d.wrr.count = 0
               \/ count + 1 < ReadWeight /\ d.wrr.index = 1 /\ d.wrr.count = count + 1
BY ArbiterAssumption DEF ClassicalRead, ScanAt, WrrState

(***************************************************************************)
(* The four ways a classical decision can go.                              *)
(***************************************************************************)
LEMMA ClassicalCases ==
  ASSUME NEW scan \in WrrState, NEW w \in BOOLEAN, NEW r \in BOOLEAN,
         w \/ r
  PROVE  LET d == DoReadWriteClassicalWrr(scan, w, r)
         IN \/ /\ scan.index = 0 /\ w /\ scan.count < WriteWeight
               /\ d = ClassicalWrite(scan, scan.count)
            \/ /\ ~(scan.index = 0 /\ w /\ scan.count < WriteWeight)
               /\ scan.index < 2 /\ r /\ scan.count < ReadWeight
               /\ d = ClassicalRead(scan, scan.count)
            \/ /\ ~(scan.index = 0 /\ w /\ scan.count < WriteWeight)
               /\ ~(scan.index < 2 /\ r /\ scan.count < ReadWeight)
               /\ w
               /\ d = ClassicalWrite(scan, 0)
            \/ /\ ~(scan.index < 2 /\ r /\ scan.count < ReadWeight)
               /\ ~w /\ r
               /\ d = ClassicalRead(scan, 0)
BY Zenon DEF DoReadWriteClassicalWrr

(***************************************************************************)
(* An interleaved decision stops in the current round, the next, or back   *)
(* in the first.                                                           *)
(***************************************************************************)
LEMMA InterleavedCases ==
  ASSUME NEW scan \in WrrState, NEW w \in BOOLEAN, NEW r \in BOOLEAN,
         w \/ r
  PROVE  LET d == DoReadWriteInterleavedWrr(scan, w, r)
             Serves(round, index) ==
               \/ /\ index = 0 /\ w /\ round < WriteWeight
                  /\ d = [result |-> "PKTWRITE", wrr |-> ScanAt(1, scan.count, round)]
               \/ /\ ~(index = 0 /\ w /\ round < WriteWeight)
                  /\ index < 2 /\ r /\ round < ReadWeight
                  /\ d = [result |-> "PKTREAD", wrr |-> ScanAt(2, scan.count, round)]
             Skipped(round, index) ==
               /\ ~(index = 0 /\ w /\ round < WriteWeight)
               /\ ~(index < 2 /\ r /\ round < ReadWeight)
         IN \/ Serves(scan.round, scan.index)
            \/ Skipped(scan.round, scan.index) /\ Serves(scan.round + 1, 0)
            \/ /\ Skipped(scan.round, scan.index) /\ Skipped(scan.round + 1, 0)
               /\ Serves(0, 0)
<1>1. 0 < WriteWeight /\ 0 < ReadWeight /\ 0 < 2
  BY ArbiterAssumption
<1> QED BY <1>1, Zenon DEF DoReadWriteInterleavedWrr, InterleavedRound

-----------------------------------------------------------------------------
(***************************************************************************)
(* The inductive invariants.  A waiting queue has lost no more decisions   *)
(* than the scan position shows: in the classical scan the packets counted *)
(* in the current turn, in the interleaved one the rounds gone by (the     *)
(* writes wrap to the first round before a read may follow).               *)
(***************************************************************************)
Counters ==
  /\ algorithm \in ArbAlgorithms
  /\ wrr \in WrrState
  /\ writes \in BOOLEAN
  /\ reads \in BOOLEAN
  /\ writes \/ reads
  /\ writesWait \in Nat
  /\ readsWait \in Nat
  /\ lead \in Int
  /\ writesWait > 0 => writes
  /\ readsWait > 0 => reads

ClassicalInv ==
  /\ wrr.round = 0
  /\ \/ /\ wrr.index = 0
        /\ wrr.count < WriteWeight
        /\ readsWait <= wrr.count
        /\ writesWait <= ReadWeight
     \/ /\ wrr.index = 1
        /\ wrr.count < ReadWeight
        /\ writesWait <= wrr.count
        /\ readsWait <= WriteWeight

InterleavedInv ==
  /\ wrr.count = 0
  /\ \/ /\ wrr.index = 0
        /\ wrr.round = 0
        /\ writesWait = 0
        /\ readsWait = 0
     \/ /\ wrr.index = 1
        /\ wrr.round < WriteWeight
        /\ writesWait = 0
        /\ readsWait <= IF wrr.round = 0 THEN WriteWeight ELSE wrr.round
     \/ /\ wrr.index = 2
        /\ wrr.round < ReadWeight
        /\ writesWait <= wrr.round + 1
        /\ readsWait = 0

RoundsInv ==
  /\ Counters
  /\ IF algorithm = "CLASSICALWRR" THEN ClassicalInv ELSE InterleavedInv

LEMMA InitRoundsInv == Init => RoundsInv
BY ArbiterAssumption
DEF Init, InitWrr, ScanAt, RoundsInv, Counters, ClassicalInv, InterleavedInv, WrrState

LEMMA DecideCounters == Counters /\ Decide => Counters'
<1> SUFFICES ASSUME Counters, Decide
             PROVE  Counters'
  OBVIOUS
<1> DEFINE d == WrrDecision(algorithm, wrr, writes, reads)
<1>1. d.wrr \in WrrState
  BY DecisionSound DEF Counters
<1>2. /\ algorithm' = algorithm
      /\ wrr' = d.wrr
      /\ NextBacklog(d.result)
      /\ writesWait' = IF writes /\ writes' /\ d.result = "PKTREAD" THEN writesWait + 1 ELSE 0
      /\ readsWait' = IF reads /\ d.result = "PKTWRITE" THEN readsWait + 1 ELSE 0
      /\ lead' = IF ~(writes /\ reads /\ writes' /\ reads') THEN 0
                 ELSE IF d.result = "PKTWRITE" THEN lead + ReadWeight
                                               ELSE lead - WriteWeight
  BY Zenon DEF Decide
<1> HIDE DEF d
<1>3. writesWait' \in Nat /\ (writesWait' > 0 => writes')
  BY <1>2 DEF Counters
<1>4. readsWait' \in Nat /\ (readsWait' > 0 => reads')
  BY <1>2 DEF Counters, NextBacklog
<1>5. lead' \in Int
  BY <1>2, ArbiterAssumption DEF Counters
<1>6. writes' \in BOOLEAN /\ reads' \in BOOLEAN /\ (writes' \/ reads')
  BY <1>2, Zenon DEF NextBacklog
<1> QED BY <1>1, <1>2, <1>3, <1>4, <1>5, <1>6, Zenon DEF Counters

LEMMA DecideRoundsInv == RoundsInv /\ Decide => RoundsInv'
<1> SUFFICES ASSUME RoundsInv, Decide
             PROVE  RoundsInv'
  OBVIOUS
<1> DEFINE d == WrrDecision(algorithm, wrr, writes, reads)
<1>1. /\ wrr \in WrrState
      /\ writes \in BOOLEAN
      /\ reads \in BOOLEAN
      /\ writes \/ reads
      /\ writesWait \in Nat
      /\ readsWait \in Nat
      /\ writesWait > 0 => writes
      /\ readsWait > 0 => reads
  BY DEF RoundsInv, Counters
<1>2. /\ algorithm' = algorithm
      /\ wrr' = d.wrr
      /\ writesWait' = IF writes /\ writes' /\ d.result = "PKTREAD" THEN writesWait + 1 ELSE 0
      /\ readsWait' = IF reads /\ d.result = "PKTWRITE" THEN readsWait + 1 ELSE 0
  BY Zenon DEF Decide
<1>3. Counters'
  BY DecideCounters DEF RoundsInv
<1>4. /\ d.result = "PKTWRITE" => writesWait' = 0 /\ readsWait' \in {0, readsWait + 1}
                                  /\ (~reads => readsWait' = 0)
      /\ d.result = "PKTREAD" => readsWait' = 0 /\ writesWait' \in {0, writesWait + 1}
                                 /\ (~writes => writesWait' = 0)
  BY <1>2
<1> HIDE DEF d
<1>5. CASE algorithm = "CLASSICALWRR"
  <2>1. d = DoReadWriteClassicalWrr(wrr, writes, reads)
    BY <1>5, Zenon DEF d, WrrDecision
  <2>2. ClassicalInv
    BY <1>5 DEF RoundsInv
  <2>3. wrr.count \in Nat /\ wrr.round = 0 /\ wrr.index \in {0, 1}
    BY <1>1, <2>2 DEF ClassicalInv, WrrState
  <2>4. ClassicalInv'
    <3>1. CASE wrr.index = 0 /\ writes /\ wrr.count < WriteWeight /\ d = ClassicalWrite(wrr, wrr.count)
      BY <1>1, <1>2, <1>4, <2>2, <2>3, <3>1, ClassicalWriteIs, ArbiterAssumption DEF ClassicalInv
    <3>2. CASE /\ ~(wrr.index = 0 /\ writes /\ wrr.count < WriteWeight)
               /\ wrr.index < 2 /\ reads /\ wrr.count < ReadWeight
               /\ d = ClassicalRead(wrr, wrr.count)
      BY <1>1, <1>2, <1>4, <2>2, <2>3, <3>2, ClassicalReadIs, ArbiterAssumption DEF ClassicalInv
    <3>3. CASE /\ ~(wrr.index = 0 /\ writes /\ wrr.count < WriteWeight)
               /\ ~(wrr.index < 2 /\ reads /\ wrr.count < ReadWeight)
               /\ writes
               /\ d = ClassicalWrite(wrr, 0)
      BY <1>1, <1>2, <1>4, <2>2, <2>3, <3>3, ClassicalWriteIs, ArbiterAssumption DEF ClassicalInv
    <3>4. CASE /\ ~(wrr.index < 2 /\ reads /\ wrr.count < ReadWeight)
               /\ ~writes /\ reads
               /\ d = ClassicalRead(wrr, 0)
      BY <1>1, <1>2, <1>4, <2>2, <2>3, <3>4, ClassicalReadIs, ArbiterAssumption DEF ClassicalInv
    <3> QED BY <1>1, <2>1, <3>1, <3>2, <3>3, <3>4, ClassicalCases, Zenon
  <2> QED BY <1>2, <1>3, <1>5, <2>4, Zenon DEF RoundsInv
<1>6. CASE algorithm # "CLASSICALWRR"
  <2>1. d = DoReadWriteInterleavedWrr(wrr, writes, reads)
    BY <1>6, Zenon DEF d, WrrDecision
  <2>2. InterleavedInv
    BY <1>6 DEF RoundsInv
  <2> DEFINE Serves(round, index) ==
               \/ /\ index = 0 /\ writes /\ round < WriteWeight
                  /\ d = [result |-> "PKTWRITE", wrr |-> ScanAt(1, wrr.count, round)]
               \/ /\ ~(index = 0 /\ writes /\ round < WriteWeight)
                  /\ index < 2 /\ reads /\ round < ReadWeight
                  /\ d = [result |-> "PKTREAD", wrr |-> ScanAt(2, wrr.count, round)]
             Skipped(round, index) ==
               /\ ~(index = 0 /\ writes /\ round < WriteWeight)
               /\ ~(index < 2 /\ reads /\ round < ReadWeight)
  <2>3. wrr.round \in Nat /\ wrr.index \in 0 .. 2
    BY <1>1 DEF WrrState
  <2>4. InterleavedInv'
    <3>1. CASE Serves(wrr.round, wrr.index)
      BY <1>1, <1>2, <1>4, <2>2, <2>3, <3>1, ArbiterAssumption DEF InterleavedInv, ScanAt
    <3>2. CASE Skipped(wrr.round, wrr.index) /\ Serves(wrr.round + 1, 0)
      BY <1>1, <1>2, <1>4, <2>2, <2>3, <3>2, ArbiterAssumption DEF InterleavedInv, ScanAt
    <3>3. CASE /\ Skipped(wrr.round, wrr.index) /\ Skipped(wrr.round + 1, 0)
               /\ Serves(0, 0)
      BY <1>1, <1>2, <1>4, <2>2, <2>3, <3>3, ArbiterAssumption DEF InterleavedInv, ScanAt
    <3> QED BY <1>1, <2>1, <3>1, <3>2, <3>3, InterleavedCases, Zenon
  <2> QED BY <1>2, <1>3, <1>6, <2>4, Zenon DEF RoundsInv
<1> QED BY <1>5, <1>6

LEMMA RoundsInvStable == RoundsInv /\ [Decide]_vars => RoundsInv'
<1>1. RoundsInv /\ UNCHANGED vars => RoundsInv'
  BY DEF RoundsInv, Counters, ClassicalInv, InterleavedInv, vars
<1> QED BY <1>1, DecideRoundsInv

(***************************************************************************)
(* The counters of DoReadWriteClassicalWrr and DoReadWriteInterleavedWrr   *)
(* stay inside the rounds the weights make.                                *)
(***************************************************************************)
THEOREM ArbiterTypes == Spec => []TypeOK
<1>1. RoundsInv => TypeOK
  BY ArbiterAssumption
  DEF RoundsInv, Counters, ClassicalInv, InterleavedInv, TypeOK, WrrState, Rounds
<1> QED BY <1>1, InitRoundsInv, RoundsInvStable, PTL DEF Spec

(***************************************************************************)
(* Neither vector is starved by ArbitrateWR's scan: whatever the weights   *)
(* and however the vectors fill and empty, waiting requests lose at most   *)
(* as many decisions in a row as the other queue has weight.               *)
(***************************************************************************)
THEOREM ArbiterFairness == Spec => []WaitIsBounded
<1>1. RoundsInv => WaitIsBounded
  BY ArbiterAssumption
  DEF RoundsInv, Counters, ClassicalInv, InterleavedInv, WaitIsBounded, WrrState
<1> QED BY <1>1, InitRoundsInv, RoundsInvStable, PTL DEF Spec

-----------------------------------------------------------------------------
(***************************************************************************)
(* The share.  A position of the scan stands for the writes and reads it   *)
(* has served since its cycle began; a full cycle serves WriteWeight and   *)
(* ReadWeight of them.                                                     *)
(***************************************************************************)
UpTo(i, j) == IF i < j THEN i ELSE j

WritesDone ==
  IF algorithm = "CLASSICALWRR"
    THEN IF wrr.index = 0 THEN wrr.count ELSE WriteWeight
    ELSE IF wrr.index = 0 THEN 0 ELSE UpTo(wrr.round + 1, WriteWeight)

ReadsDone ==
  IF algorithm = "CLASSICALWRR"
    THEN IF wrr.index = 0 THEN 0 ELSE wrr.count
    ELSE IF wrr.index = 0 THEN 0
         ELSE UpTo(IF wrr.index = 1 THEN wrr.round ELSE wrr.round + 1, ReadWeight)

Lead(w, r) == w * ReadWeight - r * WriteWeight

(***************************************************************************)
(* The least lead a position of the scan may have: the writes go first in  *)
(* a classical cycle, the queue of the smaller weight is done first in an  *)
(* interleaved one.                                                        *)
(***************************************************************************)
LeastLead ==
  IF algorithm = "CLASSICALWRR" \/ WriteWeight <= ReadWeight
    THEN 0
    ELSE ReadWeight * ReadWeight - ReadWeight * WriteWeight

LeadSpan == WriteWeight * ReadWeight

(***************************************************************************)
(* The inductive invariant: lead is how far the scan has come from some    *)
(* position, the one at which both vectors last began to hold requests.    *)
(***************************************************************************)
ShareInv ==
  Lead(WritesDone, ReadsDone) - lead \in LeastLead .. LeastLead + LeadSpan

LEMMA Products ==
  \A i, j, k \in Nat : i * k \in Nat /\ (i <= j => i * k <= j * k)
<1> SUFFICES ASSUME NEW i \in Nat, NEW j \in Nat, NEW k \in Nat
             PROVE  i * k \in Nat /\ (i <= j => i * k <= j * k)
  OBVIOUS
<1>1. \A n \in Nat : n * k \in Nat
  OBVIOUS
<1>2. ASSUME i <= j
      PROVE  i * k <= j * k
  <2>1. PICK n \in Nat : j = i + n
    <3>1. j - i \in Nat /\ j = i + (j - i)
      BY <1>2
    <3> QED BY <3>1
  <2>2. j * k = i * k + n * k /\ n * k \in Nat /\ i * k \in Nat
    BY <1>1, <2>1
  <2> QED BY <2>2
<1> QED BY <1>1, <1>2

(***************************************************************************)
(* How many packets of each queue a position may stand for.                *)
(***************************************************************************)
LEMMA DoneBounds ==
  ASSUME RoundsInv
  PROVE  /\ WritesDone \in 0 .. WriteWeight /\ ReadsDone \in 0 .. ReadWeight
         /\ algorithm = "CLASSICALWRR" => WritesDone = WriteWeight \/ ReadsDone = 0
         /\ algorithm # "CLASSICALWRR" =>
              \/ WritesDone \in {ReadsDone, ReadsDone + 1}
              \/ WritesDone = WriteWeight /\ ReadsDone >= WriteWeight
              \/ ReadsDone = ReadWeight /\ WritesDone >= ReadWeight
<1>1. /\ wrr.index \in 0 .. 2 /\ wrr.count \in Nat /\ wrr.round \in Nat
      /\ WriteWeight \in Nat \ {0} /\ ReadWeight \in Nat \ {0}
  BY ArbiterAssumption DEF RoundsInv, Counters, WrrState
<1>2. CASE algorithm = "CLASSICALWRR"
  BY <1>1, <1>2 DEF RoundsInv, ClassicalInv, WritesDone, ReadsDone
<1>3. CASE algorithm # "CLASSICALWRR"
  BY <1>1, <1>3 DEF RoundsInv, InterleavedInv, WritesDone, ReadsDone, UpTo
<1> QED BY <1>2, <1>3

LEMMA LeadBounds ==
  ASSUME RoundsInv
  PROVE  Lead(WritesDone, ReadsDone) \in LeastLead .. LeastLead + LeadSpan
<1> WriteWeight \in Nat \ {0} /\ ReadWeight \in Nat \ {0}
  BY ArbiterAssumption
<1> WritesDone \in 0 .. WriteWeight /\ ReadsDone \in 0 .. ReadWeight
  BY DoneBounds
<1>1. PICK W, R, w, r \in Nat :
        /\ W = WriteWeight /\ R = ReadWeight /\ w = WritesDone /\ r = ReadsDone
        /\ W > 0 /\ R > 0 /\ w <= W /\ r <= R
  <2>1. PICK W : W = WriteWeight
    OBVIOUS
  <2>2. PICK R : R = ReadWeight
    OBVIOUS
  <2>3. PICK w : w = WritesDone
    OBVIOUS
  <2>4. PICK r : r = ReadsDone
    OBVIOUS
  <2>5. W \in Nat /\ R \in Nat /\ w \in Nat /\ r \in Nat /\ W > 0 /\ R > 0 /\ w <= W /\ r <= R
    BY <2>1, <2>2, <2>3, <2>4
  <2> QED BY <2>1, <2>2, <2>3, <2>4, <2>5, Zenon
<1> DEFINE wR == w * R
           rW == r * W
           WR == W * R
           RR == R * R
           rR == r * R
           wW == w * W
           WW == W * W
<1>2. /\ wR \in Nat /\ rW \in Nat /\ WR \in Nat /\ RR \in Nat /\ rR \in Nat
      /\ wR <= WR /\ rW <= WR
  <2>1. r * W <= R * W /\ R * W = W * R
    BY <1>1, Products
  <2> QED BY <1>1, <2>1, Products
<1>3. Lead(WritesDone, ReadsDone) = wR - rW /\ LeadSpan = WR
  BY <1>1 DEF Lead, LeadSpan
<1>4. LeastLead = IF algorithm = "CLASSICALWRR" \/ W <= R THEN 0 ELSE RR - WR
  <2>1. R * W = W * R
    BY <1>1
  <2> QED BY <1>1, <2>1 DEF LeastLead
<1>5. CASE algorithm = "CLASSICALWRR"
  <2>1. w = W \/ r = 0
    BY <1>1, <1>5, DoneBounds
  <2>2. (w = W => wR = WR) /\ (r = 0 => rW = 0)
    BY <1>1
  <2> HIDE DEF wR, rW, WR, RR, rR
  <2> QED BY <1>2, <1>3, <1>4, <1>5, <2>1, <2>2
<1>6. CASE algorithm # "CLASSICALWRR"
  <2>1. w \in {r, r + 1} \/ (w = W /\ r >= W) \/ (r = R /\ w >= R)
    BY <1>1, <1>6, DoneBounds
  <2>2. CASE W <= R
    <3>1. rW <= wR
      <4>1. w = W => wR = WR
        BY <1>1
      <4>2. r <= w => r * W <= w * W /\ w * W <= w * R
        <5>1. w * W = W * w /\ w * R = R * w
          BY <1>1
        <5> QED BY <1>1, <2>2, <5>1, Products
      <4>3. \/ r <= w
            \/ w = W
        BY <1>1, <2>1, <2>2
      <4>4. w * W \in Nat
        BY <1>1, Products
      <4> QED BY <1>2, <4>1, <4>2, <4>3, <4>4
    <3> HIDE DEF wR, rW, WR, RR, rR
    <3> QED BY <1>2, <1>3, <1>4, <1>6, <2>2, <3>1
  <2>3. CASE W > R
    <3>1. rR <= rW /\ WR - RR \in Nat
      <4>1. r * R = R * r /\ r * W = W * r
        BY <1>1
      <4>2. R * R <= W * R /\ R * r <= W * r
        BY <1>1, <2>3, Products
      <4> QED BY <1>2, <4>1, <4>2
    <3>2. wR - rW <= RR
      <4>1. w <= r + 1 \/ r = R
        BY <1>1, <2>1, <2>3
      <4>2. w <= r + 1 => wR <= rR + R
        <5>1. (r + 1) * R = r * R + R
          BY <1>1
        <5>2. w <= r + 1 => w * R <= (r + 1) * R
          BY <1>1, Products
        <5> QED BY <5>1, <5>2
      <4>3. R <= RR
        <5>1. 1 * R <= R * R
          BY <1>1, Products
        <5> QED BY <1>1, <5>1
      <4>4. r = R => rW = WR
        BY <1>1
      <4> HIDE DEF wR, rW, WR, RR, rR
      <4> QED BY <1>1, <1>2, <3>1, <4>1, <4>2, <4>3, <4>4
    <3>3. RR - WR <= wR - rW
      <4>1. r <= w
        BY <1>1, <2>1, <2>3
      <4>2. rR <= wR
        BY <1>1, <4>1, Products
      <4>3. rW - rR <= WR - RR
        <5>1. PICK n \in Nat : W = R + n
          <6>1. W - R \in Nat /\ W = R + (W - R)
            BY <1>1, <2>3
          <6> QED BY <6>1
        <5>2. r * W = r * R + r * n /\ W * R = R * R + R * n
          BY <1>1, <5>1
        <5>3. r * n <= R * n /\ r * n \in Nat /\ R * n \in Nat
          BY <1>1, <5>1, Products
        <5> QED BY <1>2, <5>2, <5>3
      <4> HIDE DEF wR, rW, WR, RR, rR
      <4> QED BY <1>2, <4>2, <4>3
    <3>4. RR <= RR - WR + WR
      BY <1>2
    <3> HIDE DEF wR, rW, WR, RR, rR
    <3> QED BY <1>2, <1>3, <1>4, <1>6, <2>3, <3>2, <3>3
  <2> QED BY <1>1, <2>2, <2>3
<1> QED BY <1>5, <1>6

(***************************************************************************)
(* What a decision with requests in both vectors does to the scan.         *)
(***************************************************************************)
LEMMA ServedIs ==
  \A res, i, c, n : LET e == [result |-> res, wrr |-> ScanAt(i, c, n)]
                    IN e.result = res /\ e.wrr.index = i /\ e.wrr.round = n
BY DEF ScanAt

LEMMA ClassicalMoves ==
  ASSUME NEW scan \in WrrState, NEW w \in BOOLEAN, NEW r \in BOOLEAN, w, r,
         NEW d, d = DoReadWriteClassicalWrr(scan, w, r),
         \/ scan.index = 0 /\ scan.count < WriteWeight
         \/ scan.index = 1 /\ scan.count < ReadWeight
  PROVE  \/ /\ scan.index = 0 /\ d.result = "PKTWRITE"
            /\ \/ scan.count + 1 >= WriteWeight /\ d.wrr.index = 1 /\ d.wrr.count = 0
               \/ scan.count + 1 < WriteWeight /\ d.wrr.index = 0 /\ d.wrr.count = scan.count + 1
         \/ /\ scan.index = 1 /\ d.result = "PKTREAD"
            /\ \/ scan.count + 1 >= ReadWeight /\ d.wrr.index = 0 /\ d.wrr.count = 0
               \/ scan.count + 1 < ReadWeight /\ d.wrr.index = 1 /\ d.wrr.count = scan.count + 1
<1>1. scan.count \in Nat
  BY DEF WrrState
<1>2. CASE scan.index = 0 /\ scan.count < WriteWeight
  <2>1. d = ClassicalWrite(scan, scan.count)
    BY <1>2, Zenon DEF DoReadWriteClassicalWrr
  <2>2. LET c == ClassicalWrite(scan, scan.count)
       IN /\ c.result = "PKTWRITE"
          /\ \/ scan.count + 1 >= WriteWeight /\ c.wrr.index = 1 /\ c.wrr.count = 0
             \/ scan.count + 1 < WriteWeight /\ c.wrr.index = 0 /\ c.wrr.count = scan.count + 1
    BY <1>1, ClassicalWriteIs
  <2> QED BY <1>2, <2>1, <2>2, Zenon
<1>3. CASE scan.index = 1 /\ scan.count < ReadWeight
  <2>1. ~(scan.index = 0) /\ scan.index < 2
    BY <1>3
  <2>2. d = ClassicalRead(scan, scan.count)
    BY <1>3, <2>1, Zenon DEF DoReadWriteClassicalWrr
  <2>3. LET c == ClassicalRead(scan, scan.count)
       IN /\ c.result = "PKTREAD"
          /\ \/ scan.count + 1 >= ReadWeight /\ c.wrr.index = 0 /\ c.wrr.count = 0
             \/ scan.count + 1 < ReadWeight /\ c.wrr.index = 1 /\ c.wrr.count = scan.count + 1
    BY <1>1, ClassicalReadIs
  <2> QED BY <1>3, <2>2, <2>3, Zenon
<1> QED BY <1>2, <1>3

Resumes(scan, d) ==
  \E round \in Nat, index \in 0 .. 2 :
    /\ \/ round = scan.round /\ index = scan.index
       \/ /\ round = scan.round + 1 /\ index = 0
          /\ ~(scan.index = 0 /\ scan.round < WriteWeight)
          /\ ~(scan.index < 2 /\ scan.round < ReadWeight)
       \/ /\ round = 0 /\ index = 0
          /\ ~(scan.index = 0 /\ scan.round < WriteWeight)
          /\ ~(scan.index < 2 /\ scan.round < ReadWeight)
          /\ ~(scan.round + 1 < WriteWeight) /\ ~(scan.round + 1 < ReadWeight)
    /\ \/ /\ index = 0 /\ round < WriteWeight /\ d.result = "PKTWRITE"
          /\ d.wrr.index = 1 /\ d.wrr.round = round
       \/ /\ ~(index = 0 /\ round < WriteWeight)
          /\ index < 2 /\ round < ReadWeight /\ d.result = "PKTREAD"
          /\ d.wrr.index = 2 /\ d.wrr.round = round

LEMMA InterleavedMoves ==
  ASSUME NEW scan \in WrrState, NEW w \in BOOLEAN, NEW r \in BOOLEAN, w, r,
         NEW d, d = DoReadWriteInterleavedWrr(scan, w, r)
  PROVE  Resumes(scan, d)
<1> DEFINE Serves(round, index) ==
             \/ /\ index = 0 /\ w /\ round < WriteWeight
                /\ d = [result |-> "PKTWRITE", wrr |-> ScanAt(1, scan.count, round)]
             \/ /\ ~(index = 0 /\ w /\ round < WriteWeight)
                /\ index < 2 /\ r /\ round < ReadWeight
                /\ d = [result |-> "PKTREAD", wrr |-> ScanAt(2, scan.count, round)]
           Skipped(round, index) ==
             /\ ~(index = 0 /\ w /\ round < WriteWeight)
             /\ ~(index < 2 /\ r /\ round < ReadWeight)
           Is(round, index) ==
             \/ /\ index = 0 /\ round < WriteWeight /\ d.result = "PKTWRITE"
                /\ d.wrr.index = 1 /\ d.wrr.round = round
             \/ /\ ~(index = 0 /\ round < WriteWeight)
                /\ index < 2 /\ round < ReadWeight /\ d.result = "PKTREAD"
                /\ d.wrr.index = 2 /\ d.wrr.round = round
<1>1. scan.round \in Nat /\ scan.index \in 0 .. 2 /\ scan.round + 1 \in Nat
      /\ 0 \in Nat /\ 0 \in 0 .. 2 /\ 0 = 0 /\ 0 < 2
  BY DEF WrrState
<1>2. ASSUME NEW round, NEW index, Serves(round, index)
      PROVE  Is(round, index)
  <2>1. CASE /\ index = 0 /\ w /\ round < WriteWeight
             /\ d = [result |-> "PKTWRITE", wrr |-> ScanAt(1, scan.count, round)]
    <3> DEFINE e == [result |-> "PKTWRITE", wrr |-> ScanAt(1, scan.count, round)]
    <3>1. e.result = "PKTWRITE" /\ e.wrr.index = 1 /\ e.wrr.round = round
      BY ServedIs
    <3>2. d = e
      BY <2>1
    <3> HIDE DEF e
    <3> QED BY <2>1, <3>1, <3>2, Zenon
  <2>2. CASE /\ ~(index = 0 /\ w /\ round < WriteWeight)
             /\ index < 2 /\ r /\ round < ReadWeight
             /\ d = [result |-> "PKTREAD", wrr |-> ScanAt(2, scan.count, round)]
    <3> DEFINE e == [result |-> "PKTREAD", wrr |-> ScanAt(2, scan.count, round)]
    <3>1. e.result = "PKTREAD" /\ e.wrr.index = 2 /\ e.wrr.round = round
      BY ServedIs
    <3>2. d = e
      BY <2>2
    <3> HIDE DEF e
    <3> QED BY <2>2, <3>1, <3>2, Zenon
  <2> QED BY <1>2, <2>1, <2>2
<1>3. \/ Serves(scan.round, scan.index)
      \/ Skipped(scan.round, scan.index) /\ Serves(scan.round + 1, 0)
      \/ Skipped(scan.round, scan.index) /\ Skipped(scan.round + 1, 0) /\ Serves(0, 0)
  BY InterleavedCases, Zenon
<1>4. CASE Serves(scan.round, scan.index)
  <2>1. Is(scan.round, scan.index)
    BY <1>2, <1>4, Zenon
  <2> QED BY <1>1, <2>1, Zenon DEF Resumes
<1>5. CASE Skipped(scan.round, scan.index) /\ Serves(scan.round + 1, 0)
  <2>1. Is(scan.round + 1, 0)
    BY <1>2, <1>5, Zenon
  <2> QED BY <1>1, <1>5, <2>1, Zenon DEF Resumes
<1>6. CASE Skipped(scan.round, scan.index) /\ Skipped(scan.round + 1, 0) /\ Serves(0, 0)
  <2>1. Is(0, 0)
    BY <1>2, <1>6, Zenon
  <2> QED BY <1>1, <1>6, <2>1, Zenon DEF Resumes
<1> QED BY <1>3, <1>4, <1>5, <1>6, Zenon

Decision == WrrDecision(algorithm, wrr, writes, reads)

Backlogged == writes /\ reads

(***************************************************************************)
(* With requests in both vectors a decision moves the scan by the packet   *)
(* it serves; a full cycle is as good as none.                             *)
(***************************************************************************)
LEMMA DoneMoves ==
  ASSUME RoundsInv, Decide, Backlogged
  PROVE  \/ /\ Decision.result = "PKTWRITE"
            /\ \/ WritesDone' = WritesDone + 1 /\ ReadsDone' = ReadsDone
               \/ /\ WritesDone = WriteWeight /\ ReadsDone = ReadWeight
                  /\ WritesDone' = 1 /\ ReadsDone' = 0
         \/ /\ Decision.result = "PKTREAD"
            /\ \/ WritesDone' = WritesDone /\ ReadsDone' = ReadsDone + 1
               \/ /\ WritesDone = WriteWeight /\ ReadsDone + 1 = ReadWeight
                  /\ WritesDone' = 0 /\ ReadsDone' = 0
<1>1. /\ wrr \in WrrState /\ wrr.index \in 0 .. 2 /\ wrr.count \in Nat /\ wrr.round \in Nat
      /\ WriteWeight \in Nat \ {0} /\ ReadWeight \in Nat \ {0}
  BY ArbiterAssumption DEF RoundsInv, Counters, WrrState
<1>2. algorithm' = algorithm /\ wrr' = Decision.wrr
  BY Zenon DEF Decide, Decision
<1>5. wrr \in WrrState /\ writes \in BOOLEAN /\ reads \in BOOLEAN /\ writes /\ reads
  BY Zenon DEF RoundsInv, Counters, Backlogged
<1>3. CASE algorithm = "CLASSICALWRR"
  <2>1. Decision = DoReadWriteClassicalWrr(wrr, writes, reads)
    BY <1>3, Zenon DEF WrrDecision, Decision
  <2>2. \/ wrr.index = 0 /\ wrr.count < WriteWeight
        \/ wrr.index = 1 /\ wrr.count < ReadWeight
    BY <1>3 DEF RoundsInv, ClassicalInv
  <2>3. \/ /\ wrr.index = 0 /\ Decision.result = "PKTWRITE"
           /\ \/ wrr.count + 1 >= WriteWeight /\ Decision.wrr.index = 1 /\ Decision.wrr.count = 0
              \/ wrr.count + 1 < WriteWeight /\ Decision.wrr.index = 0 /\ Decision.wrr.count = wrr.count + 1
        \/ /\ wrr.index = 1 /\ Decision.result = "PKTREAD"
           /\ \/ wrr.count + 1 >= ReadWeight /\ Decision.wrr.index = 0 /\ Decision.wrr.count = 0
              \/ wrr.count + 1 < ReadWeight /\ Decision.wrr.index = 1 /\ Decision.wrr.count = wrr.count + 1
    BY <1>5, <2>1, <2>2, ClassicalMoves, Zenon
  <2>4. /\ WritesDone = IF wrr.index = 0 THEN wrr.count ELSE WriteWeight
        /\ ReadsDone = IF wrr.index = 0 THEN 0 ELSE wrr.count
        /\ WritesDone' = IF Decision.wrr.index = 0 THEN Decision.wrr.count ELSE WriteWeight
        /\ ReadsDone' = IF Decision.wrr.index = 0 THEN 0 ELSE Decision.wrr.count
    BY <1>2, <1>3 DEF WritesDone, ReadsDone
  <2>6. PICK i : i = Decision.wrr.index
    OBVIOUS
  <2>7. PICK c : c = Decision.wrr.count
    OBVIOUS
  <2>8. PICK nw : nw = WritesDone'
    OBVIOUS
  <2>9. PICK nr : nr = ReadsDone'
    OBVIOUS
  <2>10. PICK res : res = Decision.result
    OBVIOUS
  <2>11. \/ res = "PKTWRITE" /\ nw = WritesDone + 1 /\ nr = ReadsDone
         \/ res = "PKTREAD" /\ nw = WritesDone /\ nr = ReadsDone + 1
         \/ res = "PKTREAD" /\ WritesDone = WriteWeight /\ ReadsDone + 1 = ReadWeight
            /\ nw = 0 /\ nr = 0
    <3>1. i \in Nat /\ c \in Nat /\ nw \in Nat /\ nr \in Nat
      BY <1>1, <2>3, <2>4, <2>6, <2>7, <2>8, <2>9
    <3> QED BY <1>1, <2>2, <2>3, <2>4, <2>6, <2>7, <2>8, <2>9, <2>10, <3>1
  <2> QED BY <2>8, <2>9, <2>10, <2>11, Zenon
<1>4. CASE algorithm # "CLASSICALWRR"
  <2>1. Decision = DoReadWriteInterleavedWrr(wrr, writes, reads)
    BY <1>4, Zenon DEF WrrDecision, Decision
  <2>2. \/ wrr.index = 0 /\ wrr.round = 0
        \/ wrr.index = 1 /\ wrr.round < WriteWeight
        \/ wrr.index = 2 /\ wrr.round < ReadWeight
    BY <1>4 DEF RoundsInv, InterleavedInv
  <2>3. PICK round \in Nat, index \in 0 .. 2 :
          /\ \/ round = wrr.round /\ index = wrr.index
             \/ /\ round = wrr.round + 1 /\ index = 0
                /\ ~(wrr.index = 0 /\ wrr.round < WriteWeight)
                /\ ~(wrr.index < 2 /\ wrr.round < ReadWeight)
             \/ /\ round = 0 /\ index = 0
                /\ ~(wrr.index = 0 /\ wrr.round < WriteWeight)
                /\ ~(wrr.index < 2 /\ wrr.round < ReadWeight)
                /\ ~(wrr.round + 1 < WriteWeight) /\ ~(wrr.round + 1 < ReadWeight)
          /\ \/ /\ index = 0 /\ round < WriteWeight /\ Decision.result = "PKTWRITE"
                /\ Decision.wrr.index = 1 /\ Decision.wrr.round = round
             \/ /\ ~(index = 0 /\ round < WriteWeight)
                /\ index < 2 /\ round < ReadWeight /\ Decision.result = "PKTREAD"
                /\ Decision.wrr.index = 2 /\ Decision.wrr.round = round
    <3>1. Resumes(wrr, Decision)
      BY <1>5, <2>1, InterleavedMoves, Zenon
    <3> QED BY <3>1, Zenon DEF Resumes
  <2>4. /\ WritesDone = IF wrr.index = 0 THEN 0
                        ELSE IF wrr.round + 1 < WriteWeight THEN wrr.round + 1 ELSE WriteWeight
        /\ ReadsDone = IF wrr.index = 0 THEN 0
                       ELSE IF wrr.index = 1
                              THEN IF wrr.round < ReadWeight THEN wrr.round ELSE ReadWeight
                              ELSE IF wrr.round + 1 < ReadWeight THEN wrr.round + 1 ELSE ReadWeight
    BY <1>4 DEF WritesDone, ReadsDone, UpTo
  <2>5. /\ WritesDone' = IF Decision.wrr.index = 0 THEN 0
                         ELSE IF Decision.wrr.round + 1 < WriteWeight THEN Decision.wrr.round + 1 ELSE WriteWeight
        /\ ReadsDone' = IF Decision.wrr.index = 0 THEN 0
                        ELSE IF Decision.wrr.index = 1
                               THEN IF Decision.wrr.round < ReadWeight THEN Decision.wrr.round ELSE ReadWeight
                               ELSE IF Decision.wrr.round + 1 < ReadWeight THEN Decision.wrr.round + 1
                                                                    ELSE ReadWeight
    BY <1>2, <1>4 DEF WritesDone, ReadsDone, UpTo
  <2>6. PICK i : i = Decision.wrr.index
    OBVIOUS
  <2>7. PICK c : c = Decision.wrr.round
    OBVIOUS
  <2>8. PICK nw : nw = WritesDone'
    OBVIOUS
  <2>9. PICK nr : nr = ReadsDone'
    OBVIOUS
  <2>10. PICK res : res = Decision.result
    OBVIOUS
  <2>11. \/ res = "PKTWRITE" /\ nw = WritesDone + 1 /\ nr = ReadsDone
         \/ res = "PKTREAD" /\ nw = WritesDone /\ nr = ReadsDone + 1
         \/ res = "PKTWRITE" /\ WritesDone = WriteWeight /\ ReadsDone = ReadWeight
            /\ nw = 1 /\ nr = 0
    <3>1. i \in Nat /\ c \in Nat /\ nw \in Nat /\ nr \in Nat
      BY <1>1, <2>3, <2>5, <2>6, <2>7, <2>8, <2>9
    <3> QED BY <1>1, <2>2, <2>3, <2>4, <2>5, <2>6, <2>7, <2>8, <2>9, <2>10, <3>1
  <2> QED BY <2>8, <2>9, <2>10, <2>11, Zenon
<1> QED BY <1>3, <1>4

LEMMA LeadMoves ==
  ASSUME RoundsInv, Decide, Backlogged
  PROVE  Lead(WritesDone, ReadsDone)' =
           Lead(WritesDone, ReadsDone) + IF Decision.result = "PKTWRITE" THEN ReadWeight ELSE -WriteWeight
<1>1. /\ WriteWeight \in Nat /\ ReadWeight \in Nat /\ WritesDone \in Nat /\ ReadsDone \in Nat
  BY DoneBounds, ArbiterAssumption
<1>2. PICK w, r : w = WritesDone' /\ r = ReadsDone'
  OBVIOUS
<1>3. Lead(WritesDone, ReadsDone)' = w * ReadWeight - r * WriteWeight
  BY <1>2 DEF Lead
<1>4. Lead(WritesDone, ReadsDone) = WritesDone * ReadWeight - ReadsDone * WriteWeight
  BY DEF Lead
<1>5. PICK i, j, W, R \in Nat : i = WritesDone /\ j = ReadsDone /\ W = WriteWeight /\ R = ReadWeight
  BY <1>1, Zenon
<1>6. /\ (i + 1) * R - j * W = i * R - j * W + R
      /\ i * R - (j + 1) * W = i * R - j * W - W
      /\ 1 * R - 0 * W = W * R - R * W + R
  OBVIOUS
<1>7. j + 1 = R => 0 * R - 0 * W = W * R - j * W - W
  OBVIOUS
<1>8. \/ /\ Decision.result = "PKTWRITE"
         /\ (w = i + 1 /\ r = j) \/ (i = W /\ j = R /\ w = 1 /\ r = 0)
      \/ /\ Decision.result = "PKTREAD"
         /\ (w = i /\ r = j + 1) \/ (i = W /\ j + 1 = R /\ w = 0 /\ r = 0)
  BY <1>2, <1>5, DoneMoves
<1>9. i * R - j * W \in Int
  OBVIOUS
<1> QED BY <1>3, <1>4, <1>5, <1>6, <1>7, <1>8, <1>9

PositionInSpan == Lead(WritesDone, ReadsDone) \in LeastLead .. LeastLead + LeadSpan

LEMMA LeadInSpan == RoundsInv => PositionInSpan
BY LeadBounds DEF PositionInSpan

LEMMA NextLeadInSpan ==
  RoundsInv' => Lead(WritesDone, ReadsDone)' \in (LeastLead .. LeastLead + LeadSpan)'
<1>1. RoundsInv' => PositionInSpan'
  BY LeadInSpan, PTL
<1> QED BY <1>1 DEF PositionInSpan

LEMMA ShareInvStable == RoundsInv /\ ShareInv /\ [Decide]_vars => ShareInv'
<1> SUFFICES ASSUME RoundsInv, ShareInv, [Decide]_vars
             PROVE  ShareInv'
  OBVIOUS
<1>1. RoundsInv'
  BY RoundsInvStable
<1>2. Lead(WritesDone, ReadsDone)' \in (LeastLead .. LeastLead + LeadSpan)'
  BY <1>1, NextLeadInSpan
<1>3. LeadSpan \in Nat /\ LeastLead \in Int /\ lead \in Int
      /\ WriteWeight \in Nat /\ ReadWeight \in Nat
  <2>1. WriteWeight * ReadWeight \in Nat /\ ReadWeight * ReadWeight - ReadWeight * WriteWeight \in Int
    BY ArbiterAssumption
  <2> QED BY <2>1, ArbiterAssumption DEF LeadSpan, LeastLead, RoundsInv, Counters
<1>4. CASE UNCHANGED vars
  BY <1>4 DEF vars, ShareInv, Lead, WritesDone, ReadsDone, LeastLead
<1>5. CASE Decide
  <2>2. /\ algorithm' = algorithm
        /\ lead' = IF ~(Backlogged /\ Backlogged') THEN 0
                   ELSE IF Decision.result = "PKTWRITE" THEN lead + ReadWeight
                                                        ELSE lead - WriteWeight
    BY <1>5, Zenon DEF Decide, Decision, Backlogged
  <2>3. LeastLead' = LeastLead /\ LeadSpan' = LeadSpan
    BY <2>2 DEF LeastLead, LeadSpan
  <2>4. PICK before, after \in Int :
          before = Lead(WritesDone, ReadsDone) /\ after = Lead(WritesDone, ReadsDone)'
    <3>1. Lead(WritesDone, ReadsDone) \in Int
      BY <1>3, LeadBounds
    <3>2. Lead(WritesDone, ReadsDone)' \in Int
      BY <1>2, <1>3, <2>3
    <3> QED BY <3>1, <3>2
  <2>5. CASE ~(Backlogged /\ Backlogged')
    <3>1. after \in LeastLead .. LeastLead + LeadSpan
      BY <1>2, <2>3, <2>4
    <3>2. lead' = 0
      BY <2>2, <2>5, Zenon
    <3>3. after - lead' = after
      BY <2>4, <3>2
    <3> QED BY <2>3, <2>4, <3>1, <3>3 DEF ShareInv
  <2>6. CASE Backlogged /\ Backlogged'
    <3>1. after = before + IF Decision.result = "PKTWRITE" THEN ReadWeight ELSE -WriteWeight
      BY <1>5, <2>4, <2>6, LeadMoves
    <3>2. lead' = lead + IF Decision.result = "PKTWRITE" THEN ReadWeight ELSE -WriteWeight
      BY <1>3, <2>2, <2>6
    <3>3. after - lead' = before - lead
      BY <1>3, <2>4, <3>1, <3>2
    <3> QED BY <2>3, <2>4, <3>3 DEF ShareInv
  <2> QED BY <2>5, <2>6
<1> QED BY <1>4, <1>5

(***************************************************************************)
(* While both vectors hold requests the engine serves them in the          *)
(* proportion of their weights, to within one cycle of the scan, for any   *)
(* weights and from wherever the scan stood when the backlog began.        *)
(***************************************************************************)
THEOREM ArbiterShare == Spec => []ShareFollowsWeights
<1>1. Init => ShareInv
  <2> SUFFICES ASSUME Init
               PROVE  ShareInv
    OBVIOUS
  <2>1. lead = 0 /\ Lead(WritesDone, ReadsDone) \in LeastLead .. LeastLead + LeadSpan
    BY InitRoundsInv, LeadBounds DEF Init
  <2>2. LeadSpan \in Nat /\ LeastLead \in Int
    BY ArbiterAssumption DEF LeadSpan, LeastLead
  <2> QED BY <2>1, <2>2 DEF ShareInv
<1>2. RoundsInv /\ ShareInv => ShareFollowsWeights
  <2> SUFFICES ASSUME RoundsInv, ShareInv
               PROVE  ShareFollowsWeights
    OBVIOUS
  <2>1. LeadSpan \in Nat /\ LeastLead \in Int /\ lead \in Int
    BY ArbiterAssumption DEF LeadSpan, LeastLead, RoundsInv, Counters
  <2>2. lead \in -LeadSpan .. LeadSpan
    BY <2>1, LeadBounds DEF ShareInv
  <2> QED BY <2>2 DEF ShareFollowsWeights, LeadSpan
<1> QED BY <1>1, <1>2, InitRoundsInv, RoundsInvStable, ShareInvStable, PTL DEF Spec

-----------------------------------------------------------------------------
(***************************************************************************)
(* The loops.  Induction over the naturals is the library's                *)
(* well-foundedness of <, used with a set of good numbers in place of a    *)
(* predicate; it gives the iterates of a function, which a recursive       *)
(* definition only describes.                                              *)
(***************************************************************************)
LEMMA NaturalInduction ==
  ASSUME NEW Good, 0 \in Good, \A n \in Nat : n \in Good => n + 1 \in Good
  PROVE  \A n \in Nat : n \in Good
<1> SUFFICES ASSUME NEW m \in Nat, m \notin Good
             PROVE  FALSE
  OBVIOUS
<1> DEFINE Bad == {n \in Nat : n \notin Good}
<1>1. PICK n \in Bad : \A k \in Bad : ~(<<k, n>> \in OpToRel(<, Nat))
  <2>1. Bad \subseteq Nat /\ Bad # {}
    OBVIOUS
  <2> HIDE DEF Bad
  <2> QED BY <2>1, NatLessThanWellFounded, WFMin
<1>2. n \in Nat /\ n \notin Good
  OBVIOUS
<1>3. n # 0
  BY <1>2
<1>4. n - 1 \in Nat /\ n - 1 < n /\ n = (n - 1) + 1
  BY <1>2, <1>3
<1>5. <<n - 1, n>> \in OpToRel(<, Nat)
  BY <1>2, <1>4 DEF OpToRel
<1>6. n - 1 \in Good
  BY <1>1, <1>4, <1>5
<1> QED BY <1>2, <1>4, <1>6

(***************************************************************************)
(* The first n iterates of next from s, and no more.                       *)
(***************************************************************************)
Iterates(n, s, next, g) ==
  g[0] = s /\ \A m \in 0 .. n - 1 : g[m + 1] = next[g[m]]

LEMMA IteratesAgree ==
  ASSUME NEW S, NEW s \in S, NEW next \in [S -> S], NEW n \in Nat, NEW g, NEW h,
         Iterates(n, s, next, g), Iterates(n, s, next, h)
  PROVE  \A m \in 0 .. n : g[m] = h[m]
<1> DEFINE Good == {m \in Nat : m <= n => g[m] = h[m]}
<1>1. 0 \in Good
  BY DEF Iterates
<1>2. ASSUME NEW m \in Nat, m \in Good
      PROVE  m + 1 \in Good
  <2> SUFFICES ASSUME m + 1 <= n
               PROVE  g[m + 1] = h[m + 1]
    OBVIOUS
  <2>1. m \in 0 .. n - 1 /\ g[m] = h[m]
    BY <1>2
  <2> QED BY <2>1 DEF Iterates
<1>3. \A m \in Nat : m \in Good
  <2> HIDE DEF Good
  <2> QED BY <1>1, <1>2, NaturalInduction
<1> QED BY <1>3

HasIterates(S, s, next) ==
  \E f \in [Nat -> S] : f[0] = s /\ \A n \in Nat : f[n + 1] = next[f[n]]

LEMMA IteratesExist ==
  ASSUME NEW S, NEW s \in S, NEW next \in [S -> S]
  PROVE  HasIterates(S, s, next)
<1> DEFINE Has(n) == \E g \in [0 .. n -> S] : Iterates(n, s, next, g)
           Good == {n \in Nat : Has(n)}
<1>1. 0 \in Good
  <2>1. [m \in 0 .. 0 |-> s] \in [0 .. 0 -> S] /\ Iterates(0, s, next, [m \in 0 .. 0 |-> s])
    BY DEF Iterates
  <2> QED BY <2>1
<1>2. ASSUME NEW n \in Nat, n \in Good
      PROVE  n + 1 \in Good
  <2>1. PICK g \in [0 .. n -> S] : Iterates(n, s, next, g)
    BY <1>2
  <2> DEFINE h == [m \in 0 .. n + 1 |-> IF m = n + 1 THEN next[g[n]] ELSE g[m]]
  <2>2. h \in [0 .. n + 1 -> S]
    OBVIOUS
  <2>3. \A m \in 0 .. n : h[m] = g[m]
    OBVIOUS
  <2>4. h[n + 1] = next[g[n]]
    OBVIOUS
  <2> HIDE DEF h
  <2>5. ASSUME NEW m \in 0 .. (n + 1) - 1
        PROVE  h[m + 1] = next[h[m]]
    <3>1. CASE m = n
      BY <2>3, <2>4, <3>1
    <3>2. CASE m # n
      BY <2>1, <2>3, <3>2 DEF Iterates
    <3> QED BY <3>1, <3>2
  <2>6. h[0] = s
    BY <2>1, <2>3 DEF Iterates
  <2>7. Iterates(n + 1, s, next, h)
    BY <2>5, <2>6 DEF Iterates
  <2> QED BY <2>2, <2>7
<1>3. \A n \in Nat : Has(n)
  <2>1. \A n \in Nat : n \in Good
    <3> HIDE DEF Good
    <3> QED BY <1>1, <1>2, NaturalInduction
  <2> QED BY <2>1
<1> DEFINE Upto(n) == CHOOSE g \in [0 .. n -> S] : Iterates(n, s, next, g)
           f == [n \in Nat |-> Upto(n)[n]]
<1>4. \A n \in Nat : Upto(n) \in [0 .. n -> S] /\ Iterates(n, s, next, Upto(n))
  BY <1>3
<1> HIDE DEF Upto
<1>5. f \in [Nat -> S]
  BY <1>4
<1>6. f[0] = s
  BY <1>4 DEF Iterates
<1>7. ASSUME NEW n \in Nat
      PROVE  f[n + 1] = next[f[n]]
  <2>1. Iterates(n + 1, s, next, Upto(n + 1)) /\ Iterates(n, s, next, Upto(n))
    BY <1>4
  <2>2. Iterates(n, s, next, Upto(n + 1))
    BY <2>1 DEF Iterates
  <2>3. Upto(n + 1)[n] = Upto(n)[n]
    BY <2>1, <2>2, IteratesAgree
  <2>4. Upto(n + 1)[n + 1] = next[Upto(n + 1)[n]]
    BY <2>1 DEF Iterates
  <2> QED BY <2>3, <2>4
<1> QED BY <1>5, <1>6, <1>7 DEF HasIterates

(***************************************************************************)
(* The iterations of a call.                                               *)
(***************************************************************************)
Outcomes == [result : {"NONE", "PKTWRITE", "PKTREAD"}, wrr : WrrState]

LEMMA OutcomeFacts ==
  ASSUME NEW i \in 0 .. 2, NEW c \in Nat, NEW n \in Nat
  PROVE  /\ ScanAt(i, c, n) \in WrrState
         /\ ScanAt(i, c, n).index = i /\ ScanAt(i, c, n).count = c /\ ScanAt(i, c, n).round = n
         /\ GoesOn(ScanAt(i, c, n)) \in Outcomes
         /\ GoesOn(ScanAt(i, c, n)).result = "NONE"
         /\ GoesOn(ScanAt(i, c, n)).wrr = ScanAt(i, c, n)
BY DEF ScanAt, WrrState, GoesOn, Outcomes

LEMMA ScanIsAt ==
  ASSUME NEW scan \in WrrState
  PROVE  /\ scan.index \in 0 .. 2 /\ scan.count \in Nat /\ scan.round \in Nat
         /\ scan = ScanAt(scan.index, scan.count, scan.round)
BY DEF ScanAt, WrrState

LEMMA IterationTypes ==
  ASSUME NEW alg, NEW scan \in WrrState, NEW w, NEW r
  PROVE  Iteration(alg, scan, w, r) \in Outcomes
<1>1. scan.index \in 0 .. 2 /\ scan.count \in Nat /\ scan.round \in Nat
  BY ScanIsAt
<1>2. \A i \in 0 .. 2, c, n \in Nat : ScanAt(i, c, n) \in WrrState
  BY OutcomeFacts
<1>3. \A s \in WrrState, o \in {"NONE", "PKTWRITE", "PKTREAD"} :
        [result |-> o, wrr |-> s] \in Outcomes
  BY DEF Outcomes
<1>4. /\ ScanAt(0, 0, scan.round) \in WrrState
      /\ ScanAt(1, 0, scan.round) \in WrrState
      /\ ScanAt(0, scan.count + 1, scan.round) \in WrrState
      /\ ScanAt(1, scan.count + 1, scan.round) \in WrrState
      /\ ScanAt(1, scan.count, scan.round) \in WrrState
      /\ ScanAt(2, scan.count, scan.round) \in WrrState
      /\ ScanAt(0, scan.count, 0) \in WrrState
      /\ ScanAt(0, scan.count, scan.round + 1) \in WrrState
  BY <1>1, <1>2
<1>5. scan.index # 2 => ScanAt(scan.index + 1, scan.count, scan.round) \in WrrState
  BY <1>1, <1>2
<1>6. ClassicalLoop(scan, w, r) \in Outcomes
  <2>1. CASE scan.index = 2
    BY <1>3, <1>4, <2>1 DEF ClassicalLoop, GoesOn
  <2>2. CASE scan.index = 0 /\ w /\ scan.count < WriteWeight
    <3> DEFINE left == IF scan.count + 1 >= WriteWeight THEN ScanAt(1, 0, scan.round)
                       ELSE ScanAt(0, scan.count + 1, scan.round)
    <3>1. left \in WrrState
      BY <1>4
    <3>2. ClassicalLoop(scan, w, r) = [result |-> "PKTWRITE", wrr |-> left]
      BY <2>2 DEF ClassicalLoop
    <3> HIDE DEF left
    <3> QED BY <1>3, <3>1, <3>2
  <2>3. CASE scan.index = 1 /\ r /\ scan.count < ReadWeight
    <3> DEFINE left == IF scan.count + 1 >= ReadWeight THEN ScanAt(0, 0, scan.round)
                       ELSE ScanAt(1, scan.count + 1, scan.round)
    <3>1. left \in WrrState
      BY <1>4
    <3>2. ClassicalLoop(scan, w, r) = [result |-> "PKTREAD", wrr |-> left]
      BY <2>3 DEF ClassicalLoop
    <3> HIDE DEF left
    <3> QED BY <1>3, <3>1, <3>2
  <2>4. CASE /\ scan.index # 2
             /\ ~(scan.index = 0 /\ w /\ scan.count < WriteWeight)
             /\ ~(scan.index = 1 /\ r /\ scan.count < ReadWeight)
    BY <1>3, <1>5, <2>4 DEF ClassicalLoop, GoesOn
  <2> QED BY <2>1, <2>2, <2>3, <2>4
<1>7. InterleavedLoop(scan, w, r) \in Outcomes
  <2>1. CASE scan.round = Rounds \/ scan.index = 2
    BY <1>3, <1>4, <2>1 DEF InterleavedLoop, GoesOn
  <2>2. CASE ~(scan.round = Rounds \/ scan.index = 2)
    BY <1>3, <1>4, <1>5, <2>2 DEF InterleavedLoop, GoesOn
  <2> QED BY <2>1, <2>2
<1> QED BY <1>6, <1>7 DEF Iteration

RunsLoop(alg, start, w, r, run) ==
  run = [n \in Nat |->
           IF n = 0 THEN GoesOn(start)
           ELSE LET last == run[n - 1]
                IN IF last.result # "NONE" THEN last ELSE Iteration(alg, last.wrr, w, r)]

LEMMA LoopIs ==
  ASSUME NEW alg, NEW start \in WrrState, NEW w, NEW r
  PROVE  LET run == Loop(alg, start, w, r)
         IN /\ run[0] = GoesOn(start)
            /\ \A n \in Nat :
                 /\ run[n] \in Outcomes
                 /\ run[n + 1] = IF run[n].result # "NONE" THEN run[n]
                                 ELSE Iteration(alg, run[n].wrr, w, r)
<1> DEFINE Goes(o) == IF o.result # "NONE" THEN o ELSE Iteration(alg, o.wrr, w, r)
           next == [o \in Outcomes |-> Goes(o)]
<1>1. GoesOn(start) \in Outcomes
  BY DEF GoesOn, Outcomes
<1>2. next \in [Outcomes -> Outcomes]
  <2>1. \A o \in Outcomes : o.wrr \in WrrState
    BY DEF Outcomes
  <2> QED BY <2>1, IterationTypes
<1>3. PICK f \in [Nat -> Outcomes] : f[0] = GoesOn(start) /\ \A n \in Nat : f[n + 1] = next[f[n]]
  <2> HIDE DEF next
  <2>1. HasIterates(Outcomes, GoesOn(start), next)
    BY <1>1, <1>2, IteratesExist
  <2> QED BY <2>1 DEF HasIterates
<1>4. \A n \in Nat : f[n + 1] = Goes(f[n])
  BY <1>3
<1>5. RunsLoop(alg, start, w, r, f)
  <2>1. f = [n \in Nat |-> f[n]]
    BY <1>3
  <2>2. \A n \in Nat : n # 0 => n - 1 \in Nat /\ (n - 1) + 1 = n
    OBVIOUS
  <2>3. \A n \in Nat : n # 0 => f[n] = Goes(f[n - 1])
    BY <1>4, <2>2
  <2>4. \A n \in Nat : f[n] = IF n = 0 THEN GoesOn(start) ELSE Goes(f[n - 1])
    BY <1>3, <2>3
  <2>5. f = [n \in Nat |-> IF n = 0 THEN GoesOn(start) ELSE Goes(f[n - 1])]
    BY <2>1, <2>4
  <2> QED BY <2>5 DEF RunsLoop
<1>6. PICK run : run = Loop(alg, start, w, r)
  OBVIOUS
<1>7. RunsLoop(alg, start, w, r, run)
  <2>1. Loop(alg, start, w, r) = CHOOSE g : RunsLoop(alg, start, w, r, g)
    BY DEF Loop, RunsLoop
  <2> QED BY <1>5, <1>6, <2>1
<1>8. run[0] = GoesOn(start) /\ \A n \in Nat : run[n + 1] = Goes(run[n])
  <2>1. run = [n \in Nat |-> IF n = 0 THEN GoesOn(start) ELSE Goes(run[n - 1])]
    BY <1>7 DEF RunsLoop
  <2>2. \A n \in Nat : n + 1 \in Nat /\ n + 1 # 0 /\ (n + 1) - 1 = n
    OBVIOUS
  <2> HIDE DEF Goes
  <2>3. run[0] = GoesOn(start)
    BY <2>1
  <2>4. \A n \in Nat : run[n] = IF n = 0 THEN GoesOn(start) ELSE Goes(run[n - 1])
    BY <2>1
  <2>5. ASSUME NEW n \in Nat
        PROVE  run[n + 1] = Goes(run[n])
    <3>1. run[n + 1] = IF n + 1 = 0 THEN GoesOn(start) ELSE Goes(run[(n + 1) - 1])
      BY <2>2, <2>4
    <3> QED BY <2>2, <3>1
  <2> QED BY <2>3, <2>5
<1>9. \A n \in Nat : run[n] \in Outcomes
  <2> DEFINE Good == {n \in Nat : run[n] \in Outcomes}
  <2>1. 0 \in Good
    BY <1>1, <1>8
  <2>2. \A n \in Nat : n \in Good => n + 1 \in Good
    BY <1>2, <1>8
  <2>3. \A n \in Nat : n \in Good
    <3> HIDE DEF Good
    <3> QED BY <2>1, <2>2, NaturalInduction
  <2> QED BY <2>3
<1> QED BY <1>6, <1>8, <1>9
-----------------------------------------------------------------------------
(***************************************************************************)
(* What the iterations come to.                                            *)
(***************************************************************************)
IsCall(run, alg, w, r) ==
  \A n \in Nat : run[n + 1] = IF run[n].result # "NONE" THEN run[n]
                              ELSE Iteration(alg, run[n].wrr, w, r)

LEMMA CallGoesOn ==
  ASSUME NEW alg, NEW w, NEW r, NEW run, IsCall(run, alg, w, r),
         NEW n \in Nat, NEW scan, run[n] = GoesOn(scan)
  PROVE  run[n + 1] = Iteration(alg, scan, w, r)
<1>1. run[n].result = "NONE" /\ run[n].wrr = scan
  BY DEF GoesOn
<1> QED BY <1>1 DEF IsCall

LEMMA CallStays ==
  ASSUME NEW alg, NEW w, NEW r, NEW run, IsCall(run, alg, w, r),
         NEW n \in Nat, run[n].result # "NONE", NEW m \in Nat, n <= m
  PROVE  run[m] = run[n]
<1> DEFINE Good == {k \in Nat : run[n + k] = run[n]}
<1>1. 0 \in Good
  OBVIOUS
<1>2. ASSUME NEW k \in Nat, k \in Good
      PROVE  k + 1 \in Good
  <2>1. n + k \in Nat /\ n + (k + 1) = (n + k) + 1
    OBVIOUS
  <2>2. run[n + k] = run[n]
    BY <1>2
  <2>3. run[(n + k) + 1] = run[n + k]
    BY <2>1, <2>2 DEF IsCall
  <2> QED BY <2>1, <2>2, <2>3
<1>3. \A k \in Nat : k \in Good
  <2> HIDE DEF Good
  <2> QED BY <1>1, <1>2, NaturalInduction
<1>4. m - n \in Nat /\ n + (m - n) = m
  OBVIOUS
<1> QED BY <1>3, <1>4

LEMMA RoundsFacts ==
  /\ WriteWeight \in Nat /\ ReadWeight \in Nat /\ 0 < WriteWeight /\ 0 < ReadWeight
  /\ Rounds \in Nat /\ 1 <= Rounds /\ WriteWeight <= Rounds /\ ReadWeight <= Rounds
  /\ Rounds = WriteWeight \/ Rounds = ReadWeight
  /\ LoopBound \in Nat /\ 7 <= LoopBound
BY ArbiterAssumption DEF Rounds, LoopBound

(***************************************************************************)
(* Classical: one iteration at a known place, the way from the first       *)
(* place with a new count, and the way there.                              *)
(***************************************************************************)
LEMMA ClassicalIteration ==
  ASSUME NEW scan \in WrrState, NEW w \in BOOLEAN, NEW r \in BOOLEAN,
         NEW i \in 0 .. 2, NEW c \in Nat
  PROVE  LET next == Iteration("CLASSICALWRR", ScanAt(i, c, scan.round), w, r)
         IN /\ i = 2 => next = GoesOn(ScanAt(0, 0, scan.round))
            /\ i = 0 /\ w /\ c < WriteWeight => next = ClassicalWrite(scan, c)
            /\ i = 0 /\ ~(w /\ c < WriteWeight) => next = GoesOn(ScanAt(1, c, scan.round))
            /\ i = 1 /\ r /\ c < ReadWeight => next = ClassicalRead(scan, c)
            /\ i = 1 /\ ~(r /\ c < ReadWeight) => next = GoesOn(ScanAt(2, c, scan.round))
<1> DEFINE here == ScanAt(i, c, scan.round)
<1>1. here.index = i /\ here.count = c /\ here.round = scan.round
  BY ScanIsAt, OutcomeFacts
<1> HIDE DEF here
<1>2. Iteration("CLASSICALWRR", here, w, r) = ClassicalLoop(here, w, r)
  BY DEF Iteration
<1>3. i = 2 => ClassicalLoop(here, w, r) = GoesOn(ScanAt(0, 0, scan.round))
  BY <1>1 DEF ClassicalLoop
<1>4. i = 0 /\ w /\ c < WriteWeight => ClassicalLoop(here, w, r) = ClassicalWrite(scan, c)
  BY <1>1 DEF ClassicalLoop, ClassicalWrite
<1>5. i = 0 /\ ~(w /\ c < WriteWeight) => ClassicalLoop(here, w, r) = GoesOn(ScanAt(1, c, scan.round))
  BY <1>1 DEF ClassicalLoop
<1>6. i = 1 /\ r /\ c < ReadWeight => ClassicalLoop(here, w, r) = ClassicalRead(scan, c)
  BY <1>1 DEF ClassicalLoop, ClassicalRead
<1>7. i = 1 /\ ~(r /\ c < ReadWeight) => ClassicalLoop(here, w, r) = GoesOn(ScanAt(2, c, scan.round))
  BY <1>1 DEF ClassicalLoop
<1> QED BY <1>2, <1>3, <1>4, <1>5, <1>6, <1>7 DEF here

LEMMA ClassicalRestart ==
  ASSUME NEW scan \in WrrState, NEW w \in BOOLEAN, NEW r \in BOOLEAN, w \/ r,
         NEW run, IsCall(run, "CLASSICALWRR", w, r),
         NEW n \in Nat, run[n] = GoesOn(ScanAt(0, 0, scan.round))
  PROVE  \E m \in n + 1 .. n + 2 :
           run[m] = IF w THEN ClassicalWrite(scan, 0) ELSE ClassicalRead(scan, 0)
<1>1. run[n + 1] = Iteration("CLASSICALWRR", ScanAt(0, 0, scan.round), w, r)
  BY CallGoesOn
<1>2. CASE w
  <2>1. 0 \in 0 .. 2 /\ 0 \in Nat /\ 0 < WriteWeight
    BY RoundsFacts
  <2>2. run[n + 1] = ClassicalWrite(scan, 0)
    BY <1>1, <1>2, <2>1, ClassicalIteration
  <2> QED BY <1>2, <2>2
<1>3. CASE ~w
  <2>1. run[n + 1] = GoesOn(ScanAt(1, 0, scan.round))
    BY <1>1, <1>3, ClassicalIteration
  <2>2. n + 1 \in Nat /\ (n + 1) + 1 = n + 2
    OBVIOUS
  <2>3. run[n + 2] = Iteration("CLASSICALWRR", ScanAt(1, 0, scan.round), w, r)
    BY <2>1, <2>2, CallGoesOn
  <2>4. run[n + 2] = ClassicalRead(scan, 0)
    BY <1>3, <2>3, ClassicalIteration, RoundsFacts
  <2> QED BY <1>3, <2>4
<1> QED BY <1>2, <1>3

LEMMA ClassicalCall ==
  ASSUME NEW scan \in WrrState, NEW w \in BOOLEAN, NEW r \in BOOLEAN, w \/ r,
         NEW run, IsCall(run, "CLASSICALWRR", w, r), run[0] = GoesOn(scan)
  PROVE  \E m \in 0 .. 5 : run[m] = DoReadWriteClassicalWrr(scan, w, r)
<1> DEFINE i == scan.index
           c == scan.count
           k == scan.round
           Step(j) == Iteration("CLASSICALWRR", ScanAt(j, c, k), w, r)
           restart == IF w THEN ClassicalWrite(scan, 0) ELSE ClassicalRead(scan, 0)
<1>0. PICK d : d = DoReadWriteClassicalWrr(scan, w, r)
  OBVIOUS
<1> SUFFICES \E m \in 0 .. 5 : run[m] = d
  BY <1>0
<1>1. i \in 0 .. 2 /\ c \in Nat /\ scan = ScanAt(i, c, k)
  BY ScanIsAt
<1>2. run[1] = Step(i)
  <2>1. run[0 + 1] = Iteration("CLASSICALWRR", scan, w, r)
    BY CallGoesOn
  <2> QED BY <1>1, <2>1
<1>3. ASSUME NEW n \in 1 .. 3, run[n] = GoesOn(ScanAt(0, 0, k)), d = restart
      PROVE  \E m \in 0 .. 5 : run[m] = d
  <2>1. PICK m \in n + 1 .. n + 2 : run[m] = restart
    BY <1>3, ClassicalRestart
  <2>2. m \in 0 .. 5
    OBVIOUS
  <2> QED BY <1>3, <2>1, <2>2
<1>4. ASSUME NEW n \in 1 .. 2, run[n] = GoesOn(ScanAt(2, c, k)), d = restart
      PROVE  \E m \in 0 .. 5 : run[m] = d
  <2>1. n + 1 \in 1 .. 3 /\ n \in Nat
    OBVIOUS
  <2>2. run[n + 1] = Step(2)
    BY <1>4, <2>1, CallGoesOn
  <2>3. run[n + 1] = GoesOn(ScanAt(0, 0, k))
    BY <1>1, <2>2, ClassicalIteration
  <2> QED BY <1>3, <1>4, <2>1, <2>3
<1>5. ASSUME NEW n \in 0 .. 1, run[n + 1] = Step(1),
             d = IF r /\ c < ReadWeight THEN ClassicalRead(scan, c) ELSE restart
      PROVE  \E m \in 0 .. 5 : run[m] = d
  <2>1. n + 1 \in 0 .. 5 /\ n + 1 \in 1 .. 2
    OBVIOUS
  <2>2. CASE r /\ c < ReadWeight
    <3>1. 1 \in 0 .. 2
      OBVIOUS
    <3>2. Step(1) = ClassicalRead(scan, c)
      BY <1>1, <2>2, <3>1, ClassicalIteration
    <3> QED BY <1>5, <2>1, <2>2, <3>2
  <2>3. CASE ~(r /\ c < ReadWeight)
    <3>1. run[n + 1] = GoesOn(ScanAt(2, c, k))
      BY <1>1, <1>5, <2>3, ClassicalIteration
    <3> QED BY <1>4, <1>5, <2>1, <2>3, <3>1
  <2> QED BY <2>2, <2>3
<1>6. CASE i = 2
  <2>1. d = restart
    BY <1>0, <1>6 DEF DoReadWriteClassicalWrr
  <2>2. run[1] = GoesOn(ScanAt(0, 0, k))
    BY <1>1, <1>2, <1>6, ClassicalIteration
  <2> QED BY <1>3, <2>1, <2>2
<1>7. CASE i = 1
  <2>1. d = IF r /\ c < ReadWeight THEN ClassicalRead(scan, c) ELSE restart
    BY <1>0, <1>7 DEF DoReadWriteClassicalWrr
  <2>2. 0 \in 0 .. 1 /\ 0 + 1 = 1
    OBVIOUS
  <2> HIDE DEF Step
  <2> QED BY <1>2, <1>5, <1>7, <2>1, <2>2
<1>8. CASE i = 0 /\ w /\ c < WriteWeight
  <2>1. d = ClassicalWrite(scan, c)
    BY <1>0, <1>8 DEF DoReadWriteClassicalWrr
  <2>2. run[1] = ClassicalWrite(scan, c)
    BY <1>1, <1>2, <1>8, ClassicalIteration
  <2> QED BY <2>1, <2>2
<1>9. CASE i = 0 /\ ~(w /\ c < WriteWeight)
  <2>1. d = IF r /\ c < ReadWeight THEN ClassicalRead(scan, c) ELSE restart
    BY <1>0, <1>9 DEF DoReadWriteClassicalWrr
  <2>2. run[1] = GoesOn(ScanAt(1, c, k))
    BY <1>1, <1>2, <1>9, ClassicalIteration
  <2>3. 1 \in 0 .. 1 /\ 1 \in Nat
    OBVIOUS
  <2>4. run[1 + 1] = Step(1)
    BY <2>2, <2>3, CallGoesOn
  <2> HIDE DEF Step
  <2> QED BY <1>5, <2>1, <2>3, <2>4
<1>10. i = 0 \/ i = 1 \/ i = 2
  BY <1>1
<1> QED BY <1>6, <1>7, <1>8, <1>9, <1>10
(***************************************************************************)
(* Interleaved: one iteration at a known place, a round from any place of  *)
(* it, and the idle rounds that end the scan.                              *)
(***************************************************************************)
Offers(i, w, r, k) == (i = 0 /\ w /\ k < WriteWeight) \/ (i < 2 /\ r /\ k < ReadWeight)

Takes(i, w, r, k) == (i = 0 /\ w /\ k < WriteWeight) \/ (i = 1 /\ r /\ k < ReadWeight)

Served(i, c, w, k) ==
  IF i = 0 /\ w /\ k < WriteWeight THEN [result |-> "PKTWRITE", wrr |-> ScanAt(1, c, k)]
                                   ELSE [result |-> "PKTREAD", wrr |-> ScanAt(2, c, k)]

LEMMA RoundIs ==
  ASSUME NEW scan, NEW w \in BOOLEAN, NEW r \in BOOLEAN, NEW otherwise,
         NEW i \in 0 .. 2, NEW k \in Nat
  PROVE  InterleavedRound(scan, k, i, w, r, otherwise) =
           IF Offers(i, w, r, k) THEN Served(i, scan.count, w, k) ELSE otherwise
<1>1. CASE i = 0 /\ w /\ k < WriteWeight
  BY <1>1 DEF InterleavedRound, Offers, Served
<1>2. CASE ~(i = 0 /\ w /\ k < WriteWeight) /\ i < 2 /\ r /\ k < ReadWeight
  BY <1>2 DEF InterleavedRound, Offers, Served
<1>3. CASE ~(i = 0 /\ w /\ k < WriteWeight) /\ ~(i < 2 /\ r /\ k < ReadWeight)
  BY <1>3 DEF InterleavedRound, Offers
<1> QED BY <1>1, <1>2, <1>3

LEMMA InterleavedIteration ==
  ASSUME NEW w \in BOOLEAN, NEW r \in BOOLEAN,
         NEW i \in 0 .. 2, NEW c \in Nat, NEW k \in Nat
  PROVE  LET next == Iteration("INTERLEAVEDWRR", ScanAt(i, c, k), w, r)
         IN /\ k = Rounds => next = GoesOn(ScanAt(0, c, 0))
            /\ k # Rounds =>
                 /\ i = 2 => next = GoesOn(ScanAt(0, c, k + 1))
                 /\ i = 0 /\ ~(w /\ k < WriteWeight) => next = GoesOn(ScanAt(1, c, k))
                 /\ i = 1 /\ ~(r /\ k < ReadWeight) => next = GoesOn(ScanAt(2, c, k))
<1> DEFINE here == ScanAt(i, c, k)
<1>1. here.index = i /\ here.count = c /\ here.round = k
  BY DEF ScanAt
<1> HIDE DEF here
<1>2. Iteration("INTERLEAVEDWRR", here, w, r) = InterleavedLoop(here, w, r)
  BY DEF Iteration
<1>3. k = Rounds => InterleavedLoop(here, w, r) = GoesOn(ScanAt(0, c, 0))
  BY <1>1 DEF InterleavedLoop
<1>4. k # Rounds /\ i = 2 => InterleavedLoop(here, w, r) = GoesOn(ScanAt(0, c, k + 1))
  BY <1>1 DEF InterleavedLoop
<1>5. k # Rounds /\ i = 0 /\ ~(w /\ k < WriteWeight) =>
        InterleavedLoop(here, w, r) = GoesOn(ScanAt(1, c, k))
  BY <1>1 DEF InterleavedLoop
<1>6. k # Rounds /\ i = 1 /\ ~(r /\ k < ReadWeight) =>
        InterleavedLoop(here, w, r) = GoesOn(ScanAt(2, c, k))
  BY <1>1 DEF InterleavedLoop
<1> QED BY <1>2, <1>3, <1>4, <1>5, <1>6 DEF here

LEMMA InterleavedServes ==
  ASSUME NEW w \in BOOLEAN, NEW r \in BOOLEAN,
         NEW i \in 0 .. 1, NEW c \in Nat, NEW k \in Nat, k < Rounds, Takes(i, w, r, k)
  PROVE  Iteration("INTERLEAVEDWRR", ScanAt(i, c, k), w, r) = Served(i, c, w, k)
<1>1. PICK here : here = ScanAt(i, c, k)
  OBVIOUS
<1>2. here.index = i /\ here.count = c /\ here.round = k
  BY <1>1 DEF ScanAt
<1>3. k # Rounds
  BY RoundsFacts
<1>4. CASE i = 0 /\ w /\ k < WriteWeight
  <2>1. InterleavedLoop(here, w, r) = [result |-> "PKTWRITE", wrr |-> ScanAt(1, c, k)]
    BY <1>2, <1>3, <1>4 DEF InterleavedLoop
  <2>2. Served(i, c, w, k) = [result |-> "PKTWRITE", wrr |-> ScanAt(1, c, k)]
    BY <1>4 DEF Served
  <2> QED BY <1>1, <2>1, <2>2 DEF Iteration
<1>5. CASE i = 1 /\ r /\ k < ReadWeight
  <2>1. InterleavedLoop(here, w, r) = [result |-> "PKTREAD", wrr |-> ScanAt(2, c, k)]
    BY <1>2, <1>3, <1>5 DEF InterleavedLoop
  <2>2. Served(i, c, w, k) = [result |-> "PKTREAD", wrr |-> ScanAt(2, c, k)]
    BY <1>5 DEF Served
  <2> QED BY <1>1, <2>1, <2>2 DEF Iteration
<1> QED BY <1>4, <1>5 DEF Takes

(***************************************************************************)
(* A round that offers nothing takes one iteration per place left; one     *)
(* that does stops where InterleavedRound says.                            *)
(***************************************************************************)
LEMMA RoundIdles ==
  ASSUME NEW w \in BOOLEAN, NEW r \in BOOLEAN,
         NEW run, IsCall(run, "INTERLEAVEDWRR", w, r),
         NEW i \in 0 .. 2, NEW c \in Nat, NEW k \in Nat, k < Rounds, ~Offers(i, w, r, k),
         NEW n \in Nat, run[n] = GoesOn(ScanAt(i, c, k))
  PROVE  run[n + 3 - i] = GoesOn(ScanAt(0, c, k + 1))
<1> DEFINE Step(j) == Iteration("INTERLEAVEDWRR", ScanAt(j, c, k), w, r)
<1>1. k # Rounds /\ 0 \in 0 .. 2 /\ 1 \in 0 .. 2 /\ 2 \in 0 .. 2
  BY RoundsFacts
<1>2. \A m \in Nat, j \in 0 .. 2 : run[m] = GoesOn(ScanAt(j, c, k)) => run[m + 1] = Step(j)
  BY CallGoesOn
<1>3. Step(2) = GoesOn(ScanAt(0, c, k + 1))
  BY <1>1, InterleavedIteration
<1>4. i <= 1 => Step(1) = GoesOn(ScanAt(2, c, k))
  BY <1>1, InterleavedIteration DEF Offers
<1>5. i = 0 => Step(0) = GoesOn(ScanAt(1, c, k))
  BY <1>1, InterleavedIteration DEF Offers
<1> HIDE DEF Step
<1>6. CASE i = 2
  BY <1>2, <1>3, <1>6
<1>7. CASE i = 1
  <2>1. run[n + 1] = GoesOn(ScanAt(2, c, k))
    BY <1>1, <1>2, <1>4, <1>7
  <2>2. run[n + 1 + 1] = GoesOn(ScanAt(0, c, k + 1))
    BY <1>1, <1>2, <1>3, <2>1
  <2>3. n + 1 + 1 = n + 3 - i
    BY <1>7
  <2> QED BY <2>2, <2>3
<1>8. CASE i = 0
  <2>1. run[n + 1] = GoesOn(ScanAt(1, c, k))
    BY <1>1, <1>2, <1>5, <1>8
  <2>2. run[n + 1 + 1] = GoesOn(ScanAt(2, c, k))
    BY <1>1, <1>2, <1>4, <1>8, <2>1
  <2>3. run[n + 1 + 1 + 1] = GoesOn(ScanAt(0, c, k + 1))
    BY <1>1, <1>2, <1>3, <2>2
  <2>4. n + 1 + 1 + 1 = n + 3 - i
    BY <1>8
  <2> QED BY <2>3, <2>4
<1> QED BY <1>6, <1>7, <1>8

ServedFrom(run, n, i, c, w, k) == \E m \in n + 1 .. n + 2 : run[m] = Served(i, c, w, k)

LEMMA RoundServes ==
  ASSUME NEW w \in BOOLEAN, NEW r \in BOOLEAN,
         NEW run, IsCall(run, "INTERLEAVEDWRR", w, r),
         NEW i \in 0 .. 2, NEW c \in Nat, NEW k \in Nat, k < Rounds, Offers(i, w, r, k),
         NEW n \in Nat, run[n] = GoesOn(ScanAt(i, c, k))
  PROVE  ServedFrom(run, n, i, c, w, k)
<1> SUFFICES \E m \in n + 1 .. n + 2 : run[m] = Served(i, c, w, k)
  BY DEF ServedFrom
<1> DEFINE Step(j) == Iteration("INTERLEAVEDWRR", ScanAt(j, c, k), w, r)
<1>1. k # Rounds /\ 0 \in 0 .. 2 /\ 1 \in 0 .. 2
  BY RoundsFacts
<1>2. run[n + 1] = Step(i)
  BY CallGoesOn
<1>3. CASE i = 0 /\ w /\ k < WriteWeight
  <2>1. Step(0) = Served(0, c, w, k)
    <3>1. Takes(0, w, r, k) /\ 0 \in 0 .. 1
      BY <1>3 DEF Takes
    <3> QED BY <3>1, InterleavedServes
  <2> HIDE DEF Step
  <2>2. run[n + 1] = Served(i, c, w, k)
    BY <1>2, <1>3, <2>1
  <2> QED BY <2>2
<1>4. CASE ~(i = 0 /\ w /\ k < WriteWeight)
  <2>1. i < 2 /\ r /\ k < ReadWeight
    BY <1>4 DEF Offers
  <2>2. Step(1) = Served(1, c, w, k)
    <3>1. Takes(1, w, r, k) /\ 1 \in 0 .. 1
      BY <2>1 DEF Takes
    <3> QED BY <3>1, InterleavedServes
  <2>3. CASE i = 1
    <3> HIDE DEF Step
    <3>1. run[n + 1] = Served(i, c, w, k)
      BY <1>2, <2>2, <2>3
    <3> QED BY <3>1
  <2>4. CASE i = 0
    <3>1. Step(0) = GoesOn(ScanAt(1, c, k))
      BY <1>1, <1>4, <2>4, InterleavedIteration
    <3>2. n + 1 \in Nat /\ n + 1 + 1 = n + 2
      OBVIOUS
    <3>3. run[n + 1] = GoesOn(ScanAt(1, c, k))
      <4> HIDE DEF Step
      <4> QED BY <1>2, <2>4, <3>1
    <3>4. run[n + 2] = Step(1)
      BY <3>2, <3>3, CallGoesOn
    <3>5. Served(i, c, w, k) = Served(1, c, w, k)
      BY <1>4 DEF Served
    <3> HIDE DEF Step
    <3>6. run[n + 2] = Served(i, c, w, k)
      BY <2>2, <3>4, <3>5
    <3> QED BY <3>6
  <2> QED BY <2>1, <2>3, <2>4
<1> QED BY <1>3, <1>4

LEMMA RoundsIdle ==
  ASSUME NEW w \in BOOLEAN, NEW r \in BOOLEAN,
         NEW run, IsCall(run, "INTERLEAVEDWRR", w, r),
         NEW c \in Nat, NEW k \in Nat, k <= Rounds, ~Offers(0, w, r, k),
         NEW n \in Nat, run[n] = GoesOn(ScanAt(0, c, k))
  PROVE  run[n + 3 * (Rounds - k)] = GoesOn(ScanAt(0, c, Rounds))
<1> DEFINE At(j) == run[n + 3 * j] = GoesOn(ScanAt(0, c, k + j))
           Good == {j \in Nat : k + j <= Rounds => At(j)}
<1>1. Rounds \in Nat /\ WriteWeight \in Nat /\ ReadWeight \in Nat /\ 0 \in 0 .. 2
  BY RoundsFacts
<1>2. 0 \in Good
  OBVIOUS
<1>3. ASSUME NEW j \in Nat, j \in Good
      PROVE  j + 1 \in Good
  <2> SUFFICES ASSUME k + (j + 1) <= Rounds
               PROVE  At(j + 1)
    OBVIOUS
  <2>1. run[n + 3 * j] = GoesOn(ScanAt(0, c, k + j))
    BY <1>1, <1>3
  <2>2. k + j \in Nat /\ k + j < Rounds /\ n + 3 * j \in Nat
    BY <1>1
  <2>3. ~Offers(0, w, r, k + j)
    BY <1>1 DEF Offers
  <2>4. run[(n + 3 * j) + 3 - 0] = GoesOn(ScanAt(0, c, (k + j) + 1))
    BY <1>1, <2>1, <2>2, <2>3, RoundIdles
  <2>5. (n + 3 * j) + 3 - 0 = n + 3 * (j + 1) /\ (k + j) + 1 = k + (j + 1)
    OBVIOUS
  <2> QED BY <2>4, <2>5
<1>4. \A j \in Nat : j \in Good
  <2> HIDE DEF Good
  <2> QED BY <1>2, <1>3, NaturalInduction
<1>5. Rounds - k \in Nat /\ k + (Rounds - k) = Rounds
  BY <1>1
<1>6. At(Rounds - k)
  BY <1>1, <1>4, <1>5
<1> QED BY <1>5, <1>6

LEMMA InterleavedCall ==
  ASSUME NEW scan \in WrrState, scan.round < Rounds,
         NEW w \in BOOLEAN, NEW r \in BOOLEAN, w \/ r,
         NEW run, IsCall(run, "INTERLEAVEDWRR", w, r), run[0] = GoesOn(scan)
  PROVE  \E m \in 0 .. LoopBound : run[m] = DoReadWriteInterleavedWrr(scan, w, r)
<1> DEFINE i == scan.index
           c == scan.count
           k == scan.round
           first == InterleavedRound(scan, 0, 0, w, r, [result |-> "NONE", wrr |-> scan])
           second == InterleavedRound(scan, k + 1, 0, w, r, first)
<1>0. PICK d : d = DoReadWriteInterleavedWrr(scan, w, r)
  OBVIOUS
<1> SUFFICES \E m \in 0 .. LoopBound : run[m] = d
  BY <1>0
<1>1. i \in 0 .. 2 /\ c \in Nat /\ k \in Nat /\ scan = ScanAt(i, c, k)
  BY ScanIsAt
<1>2. Rounds \in Nat /\ LoopBound = 3 * Rounds + 4 /\ 1 <= Rounds /\ 0 \in 0 .. 2
  BY RoundsFacts DEF LoopBound
<1>3. d = InterleavedRound(scan, k, i, w, r, second)
  BY <1>0 DEF DoReadWriteInterleavedWrr
<1>4. /\ d = IF Offers(i, w, r, k) THEN Served(i, c, w, k) ELSE second
      /\ second = IF Offers(0, w, r, k + 1) THEN Served(0, c, w, k + 1) ELSE first
      /\ Offers(0, w, r, 0) => first = Served(0, c, w, 0)
  <2>1. k + 1 \in Nat /\ 0 \in Nat
    BY <1>1
  <2>2. d = IF Offers(i, w, r, k) THEN Served(i, c, w, k) ELSE second
    <3> HIDE DEF second
    <3> QED BY <1>1, <1>3, RoundIs
  <2>3. second = IF Offers(0, w, r, k + 1) THEN Served(0, c, w, k + 1) ELSE first
    <3> HIDE DEF first
    <3> QED BY <1>2, <2>1, RoundIs
  <2>4. Offers(0, w, r, 0) => first = Served(0, c, w, 0)
    BY <1>2, <2>1, RoundIs
  <2> QED BY <2>2, <2>3, <2>4
<1> HIDE DEF first, second
<1>5. CASE Offers(i, w, r, k)
  <2>1. PICK n \in Nat : n = 0 /\ run[n] = GoesOn(ScanAt(i, c, k))
    BY <1>1
  <2>2. PICK m \in n + 1 .. n + 2 : run[m] = Served(i, c, w, k)
    <3>1. ServedFrom(run, n, i, c, w, k)
      BY <1>1, <1>5, <2>1, RoundServes
    <3> QED BY <3>1 DEF ServedFrom
  <2>3. m \in 0 .. LoopBound
    BY <1>2, <2>1
  <2> QED BY <1>4, <1>5, <2>2, <2>3
<1>6. CASE ~Offers(i, w, r, k)
  <2>1. d = second
    BY <1>4, <1>6
  <2>2. run[0 + 3 - i] = GoesOn(ScanAt(0, c, k + 1))
    BY <1>1, <1>6, RoundIdles
  <2>3. PICK n \in 1 .. 3 : run[n] = GoesOn(ScanAt(0, c, k + 1))
    <3>1. 0 + 3 - i \in 1 .. 3
      BY <1>1
    <3> QED BY <2>2, <3>1
  <2>4. CASE Offers(0, w, r, k + 1)
    <3>1. k + 1 \in Nat /\ k + 1 < Rounds /\ n \in Nat
      BY <1>1, <1>2, <2>4, RoundsFacts DEF Offers
    <3>2. PICK m \in n + 1 .. n + 2 : run[m] = second
      <4>1. ServedFrom(run, n, 0, c, w, k + 1)
        BY <1>1, <1>2, <2>3, <2>4, <3>1, RoundServes
      <4> QED BY <1>4, <2>4, <4>1 DEF ServedFrom
    <3>3. m \in 0 .. LoopBound
      BY <1>2
    <3> QED BY <2>1, <3>2, <3>3
  <2>5. CASE ~Offers(0, w, r, k + 1)
    <3>1. k + 1 \in Nat /\ k + 1 <= Rounds /\ n \in Nat
      BY <1>1, <1>2
    <3>2. d = first
      BY <1>4, <2>1, <2>5
    <3>3. run[n + 3 * (Rounds - (k + 1))] = GoesOn(ScanAt(0, c, Rounds))
      BY <1>1, <2>3, <2>5, <3>1, RoundsIdle
    <3>4. PICK last \in Nat : last = n + 3 * (Rounds - (k + 1))
      BY <1>1, <1>2
    <3>5. last + 1 \in Nat /\ last + 3 <= LoopBound
      BY <1>1, <1>2, <3>4
    <3>6. run[last + 1] = Iteration("INTERLEAVEDWRR", ScanAt(0, c, Rounds), w, r)
      BY <3>3, <3>4, CallGoesOn
    <3>7. run[last + 1] = GoesOn(ScanAt(0, c, 0))
      BY <1>1, <1>2, <3>6, InterleavedIteration
    <3>8. Offers(0, w, r, 0)
      BY RoundsFacts DEF Offers
    <3>9. 0 < Rounds /\ 0 \in Nat
      BY <1>2
    <3>10. PICK m \in (last + 1) + 1 .. (last + 1) + 2 : run[m] = first
      <4>1. ServedFrom(run, last + 1, 0, c, w, 0)
        BY <1>1, <1>2, <3>5, <3>7, <3>8, <3>9, RoundServes
      <4> QED BY <1>4, <3>8, <4>1 DEF ServedFrom
    <3>11. m \in 0 .. LoopBound
      BY <1>2, <3>5
    <3> QED BY <3>2, <3>10, <3>11
  <2> QED BY <2>4, <2>5
<1> QED BY <1>5, <1>6
(***************************************************************************)
(* Whatever loops there are and wherever they resume, they end within      *)
(* LoopBound iterations, at the place and with the counters the decision   *)
(* names: DoReadWriteClassicalWrr and DoReadWriteInterleavedWrr return.    *)
(***************************************************************************)
LEMMA LoopsDecide ==
  ASSUME NEW alg \in ArbAlgorithms, NEW scan \in WrrState, scan.round < Rounds,
         NEW w \in BOOLEAN, NEW r \in BOOLEAN, w \/ r
  PROVE  Loop(alg, scan, w, r)[LoopBound] = WrrDecision(alg, scan, w, r)
<1>1. PICK run : run = Loop(alg, scan, w, r)
  OBVIOUS
<1>2. PICK d : d = WrrDecision(alg, scan, w, r)
  OBVIOUS
<1>3. IsCall(run, alg, w, r) /\ run[0] = GoesOn(scan)
  BY <1>1, LoopIs DEF IsCall
<1>4. \E m \in 0 .. LoopBound : run[m] = d
  <2>1. CASE alg = "CLASSICALWRR"
    <3>1. d = DoReadWriteClassicalWrr(scan, w, r)
      BY <1>2, <2>1 DEF WrrDecision
    <3>2. IsCall(run, "CLASSICALWRR", w, r)
      BY <1>3, <2>1
    <3>3. \E m \in 0 .. 5 : run[m] = DoReadWriteClassicalWrr(scan, w, r)
      BY <1>3, <3>2, ClassicalCall
    <3> QED BY <3>1, <3>3, RoundsFacts
  <2>2. CASE alg = "INTERLEAVEDWRR"
    <3>1. d = DoReadWriteInterleavedWrr(scan, w, r)
      BY <1>2, <2>2 DEF WrrDecision
    <3>2. IsCall(run, "INTERLEAVEDWRR", w, r)
      BY <1>3, <2>2
    <3>3. \E m \in 0 .. LoopBound : run[m] = DoReadWriteInterleavedWrr(scan, w, r)
      BY <1>3, <3>2, InterleavedCall
    <3> QED BY <3>1, <3>3
  <2> QED BY <2>1, <2>2 DEF ArbAlgorithms
<1>5. PICK m \in 0 .. LoopBound : run[m] = d
  BY <1>4
<1>6. m \in Nat /\ LoopBound \in Nat /\ m <= LoopBound
  BY RoundsFacts
<1>7. d.result # "NONE"
  BY <1>2, DecisionSound
<1>8. run[LoopBound] = run[m]
  BY <1>3, <1>5, <1>6, <1>7, CallStays
<1> QED BY <1>1, <1>2, <1>5, <1>8

(***************************************************************************)
(* DecisionIsTheLoops for all weights: in every state the arbiter reaches, *)
(* the code's nested loops end within LoopBound iterations, where and with *)
(* the counters the decision of WrrArbiter says.                           *)
(***************************************************************************)
THEOREM ArbiterIsTheLoops == Spec => []DecisionIsTheLoops
<1>1. RoundsInv => DecisionIsTheLoops
  <2> SUFFICES ASSUME RoundsInv
               PROVE  DecisionIsTheLoops
    OBVIOUS
  <2>1. /\ algorithm \in ArbAlgorithms /\ wrr \in WrrState
        /\ writes \in BOOLEAN /\ reads \in BOOLEAN /\ (writes \/ reads)
    BY DEF RoundsInv, Counters
  <2>2. wrr.round < Rounds
    <3>1. wrr.round \in Nat
      BY <2>1, ScanIsAt
    <3>2. wrr.round = 0 \/ wrr.round < WriteWeight \/ wrr.round < ReadWeight
      BY DEF RoundsInv, ClassicalInv, InterleavedInv
    <3> QED BY <3>1, <3>2, RoundsFacts
  <2> QED BY <2>1, <2>2, LoopsDecide DEF DecisionIsTheLoops
<1> QED BY <1>1, InitRoundsInv, RoundsInvStable, PTL DEF Spec
=============================================================================
