---------------------------- MODULE PacketBuffer ----------------------------
(***************************************************************************)
(* What the memory management unit (MMU) promises its callers, whatever    *)
(* memory a packet is in: a stored packet is kept until its queue disc     *)
(* asks for it, a packet asked for is fetched once, soon or later, and     *)
(* its queue is charged for it until then.                                 *)
(***************************************************************************)
EXTENDS Integers, FiniteSets

CONSTANTS Packets,   \* the packet objects alive at the same time
          Size,      \* bytes of each packet
          Queues,    \* the egress queues
          QueueOf    \* the queue of each packet

ASSUME PacketBufferAssumption ==
  /\ IsFiniteSet(Packets)
  /\ Size \in [Packets -> Nat \ {0}]
  /\ QueueOf \in [Packets -> Queues]

VARIABLES status,    \* where each packet is in its life
          charged    \* bytes each queue is charged for

bufferVars == <<status, charged>>

Statuses == {"out", "held", "asked", "fetched"}

PacketBufferTypeOK ==
  /\ status \in [Packets -> Statuses]
  /\ charged \in [Queues -> Nat]

Moves(p, from, to) ==
  /\ status[p] = from
  /\ status' = [status EXCEPT ![p] = to]

Charge(p, bytes) ==
  charged' = [charged EXCEPT ![QueueOf[p]] = @ + bytes]

PacketBufferInit ==
  /\ status = [p \in Packets |-> "out"]
  /\ charged = [q \in Queues |-> 0]

Keep(p) == Moves(p, "out", "held") /\ Charge(p, Size[p])

(***************************************************************************)
(* A packet in fast memory is fetched while the caller waits.              *)
(***************************************************************************)
AskHit(p) == Moves(p, "held", "fetched") /\ Charge(p, -Size[p])

WrongAskMiss(p) ==  \* mutant: the queue is discharged now and again when the packet comes
  Moves(p, "held", "asked") /\ Charge(p, -Size[p])

AskMiss(p) == Moves(p, "held", "asked") /\ UNCHANGED charged

Complete(p) == Moves(p, "asked", "fetched") /\ Charge(p, -Size[p])

Release(p) == Moves(p, "fetched", "out") /\ UNCHANGED charged

PacketBufferNext ==
  \E p \in Packets : Keep(p) \/ AskHit(p) \/ AskMiss(p) \/ Complete(p) \/ Release(p)

(***************************************************************************)
(* Every packet asked for is fetched.                                      *)
(***************************************************************************)
FetchedInTheEnd ==
  \A p \in Packets : status[p] = "asked" ~> status[p] = "fetched"

PacketBufferSafety == PacketBufferInit /\ [][PacketBufferNext]_bufferVars

PacketBufferSpec == PacketBufferSafety /\ FetchedInTheEnd
=============================================================================
