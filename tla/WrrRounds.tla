------------------------------ MODULE WrrRounds ------------------------------
(***************************************************************************)
(* The WRR arbiter at work: the engine asks for one decision per cycle,    *)
(* while the request vectors fill and empty as the switch pleases.         *)
(***************************************************************************)
EXTENDS WrrArbiter

VARIABLES algorithm,   \* m_arbAlgorithm, an attribute of the buffer
          wrr,         \* the arbiter's counters
          writes,      \* m_writeRequestVec is not empty
          reads,       \* m_readRequestVec is not empty
          writesWait,  \* decisions the waiting write requests have lost in a row
          readsWait,   \* decisions the waiting read requests have lost in a row
          lead         \* weighted lead of the writes while both vectors hold requests

vars == <<algorithm, wrr, writes, reads, writesWait, readsWait, lead>>

-----------------------------------------------------------------------------
Init ==
  /\ algorithm \in ArbAlgorithms
  /\ wrr = InitWrr
  /\ writes \in BOOLEAN
  /\ reads \in BOOLEAN
  /\ writes \/ reads
  /\ writesWait = 0
  /\ readsWait = 0
  /\ lead = 0

(***************************************************************************)
(* The vectors after a cycle: any backlog but none.  Read requests that    *)
(* were not served stay; a waiting write request may also be cancelled.    *)
(***************************************************************************)
NextBacklog(result) ==
  /\ writes' \in BOOLEAN
  /\ reads' \in BOOLEAN
  /\ writes' \/ reads'
  /\ reads /\ result = "PKTWRITE" => reads'

Decide ==
  LET d == WrrDecision(algorithm, wrr, writes, reads)
  IN /\ UNCHANGED algorithm
     /\ wrr' = d.wrr
     /\ NextBacklog(d.result)
     /\ writesWait' = IF writes /\ writes' /\ d.result = "PKTREAD" THEN writesWait + 1 ELSE 0
     /\ readsWait' = IF reads /\ d.result = "PKTWRITE" THEN readsWait + 1 ELSE 0
     /\ lead' = IF ~(writes /\ reads /\ writes' /\ reads') THEN 0
                ELSE IF d.result = "PKTWRITE" THEN lead + ReadWeight
                                              ELSE lead - WriteWeight

Spec == Init /\ [][Decide]_vars

-----------------------------------------------------------------------------
(***************************************************************************)
(* Types; the counters stay inside the rounds the weights make.            *)
(***************************************************************************)
TypeOK ==
  /\ algorithm \in ArbAlgorithms
  /\ wrr \in [index : 0 .. 2, count : 0 .. Rounds - 1, round : 0 .. Rounds - 1]
  /\ writes \in BOOLEAN /\ reads \in BOOLEAN
  /\ writesWait \in Nat /\ readsWait \in Nat
  /\ lead \in Int

(***************************************************************************)
(* No starvation, with the bound the weights promise: waiting requests of  *)
(* one queue never lose more decisions in a row than the other queue's     *)
(* weight, also when the other queue emptied in the middle of its turn.    *)
(***************************************************************************)
WaitIsBounded ==
  /\ readsWait <= WriteWeight
  /\ writesWait <= ReadWeight

(***************************************************************************)
(* The share W : R of the weights: as long as both vectors hold requests   *)
(* the writes are never ahead or behind by more than one round's worth,    *)
(* from whatever position the backlog began at.                            *)
(***************************************************************************)
ShareFollowsWeights ==
  lead \in -(WriteWeight * ReadWeight) .. WriteWeight * ReadWeight
=============================================================================
