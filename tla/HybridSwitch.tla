---------------------------- MODULE HybridSwitch ----------------------------
(***************************************************************************)
(* The switch put together: SwitchMmu with its off-chip buffer behind the  *)
(* traffic control layer, queue disc and reorder device of one port.       *)
(* SwitchPort speaks of the MMU as a PacketBuffer; here its status and     *)
(* charges are those of the MMU, and every step is one of both sides.      *)
(*                                                                         *)
(* Here the link stays up and the queue disc drops nothing, so no packet   *)
(* is lost; the fetch status of a packet starts unset (SwitchPort has runs *)
(* for the contrary); and a transmission outlasts the HBM channel, so that *)
(* no request is under way for a packet that has been sent.                *)
(***************************************************************************)
EXTENDS SwitchMmu

CONSTANTS DevUnit, DevLimit, Mtu, Quota  \* of SwitchPort

(***************************************************************************)
(* A device queue limited in bytes takes any one packet: Mtu is the size   *)
(* of the largest, with its link header.                                   *)
(***************************************************************************)
ASSUME SwitchAssumption ==
  /\ DevUnit \in {"PACKETS", "BYTES"}
  /\ DevLimit \in Nat \ {0}
  /\ Mtu \in Nat
  /\ Quota \in Nat \ {0}
  /\ DevUnit = "BYTES" => Mtu <= DevLimit /\ \A p \in Packets : Size[p] <= Mtu

VARIABLES  \* of SwitchPort
  qdisc, quotaLeft, devQueue, stopped, wake, currentPkt, fetchStatus, linkUp, lost

portVars   == <<qdisc, quotaLeft, devQueue, stopped, wake, currentPkt, fetchStatus, linkUp, lost>>
switchVars == <<mmuVars, portVars>>

Port == INSTANCE SwitchPort WITH
  status <- [p \in Packets |-> Status(p)], charged <- qUsed, FreshFlags <- {FALSE},
  QdiscMayDrop <- FALSE, LinkMayFail <- FALSE

SwitchInit == MmuInit /\ Port!Init

-----------------------------------------------------------------------------
(***************************************************************************)
(* TrafficControlLayer::Send: a packet the MMU refuses is gone, one it     *)
(* stores is enqueued and the queue disc is run.                           *)
(***************************************************************************)
ArriveAtSwitch(p) ==
  /\ quotaLeft = 0
  /\ Ingress(p)
  /\ IF stage'[p] = "new" THEN UNCHANGED portVars ELSE Port!Arrive(p)

(***************************************************************************)
(* SwitchMmu::Fetch, called by the device for a packet it queues.          *)
(***************************************************************************)
FetchPacket(p) ==
  FetchOnChip(p) \/ FetchFromWcache(p) \/ FetchBeingWritten(p) \/ FetchFromDram(p)

RunQueueDisc(q) ==
  /\ quotaLeft # 0
  /\ qdisc[q] # <<>>
  /\ FetchPacket(qdisc[q][1])
  /\ Port!Restart(q)

(***************************************************************************)
(* An event of the HBM engine; the end of a read calls the device.         *)
(***************************************************************************)
EngineStep ==
  /\ quotaLeft = 0
  /\ MmuRequestArrives \/ MmuStartWriteCycle \/ MmuStartReadCycle \/ MmuNextAtomic
  /\ IF \E p \in Packets : Fetched(p)' /\ ~Fetched(p)
       THEN \E p \in Packets : Port!FetchCompletes(p)
       ELSE UNCHANGED portVars

TransmissionEnds == \E p \in Packets : currentPkt = p /\ MmuDepart(p) /\ Port!TransmitComplete

DiscStep == UNCHANGED mmuVars /\ (Port!RunEnd \/ Port!WakeRun)

Scheduled == (\E q \in Queues : RunQueueDisc(q)) \/ DiscStep \/ EngineStep \/ TransmissionEnds

SwitchNext ==
  \/ \E p \in Packets : ArriveAtSwitch(p)
  \/ Scheduled

(***************************************************************************)
(* While anything is scheduled the simulator runs it; arrivals, also those *)
(* that are refused, do not keep it from that for ever.                    *)
(***************************************************************************)
SwitchFairness == WF_switchVars(Scheduled)

SwitchSpec == SwitchInit /\ [][SwitchNext]_switchVars
SwitchFairSpec == SwitchSpec /\ SwitchFairness

-----------------------------------------------------------------------------
(***************************************************************************)
(* No byte leaks between the parts: the packets the queues are charged for *)
(* are those in the port, and when none waits for its fetch every byte of  *)
(* both memories has come back.                                            *)
(***************************************************************************)
WaitsInPort(p) ==
  \E q \in Queues : Port!Contains(qdisc[q], p) \/ Port!Contains(devQueue, p)

NoLeak ==
  /\ Port!PacketsAccounted
  /\ (\A p \in Packets : ~WaitsInPort(p)) =>
       /\ onChipRemain = OnChipSize
       /\ wcacheUsed = 0
       /\ dramUsed = 0

(***************************************************************************)
(* Every packet the MMU admits is transmitted, whatever memory FBM chose   *)
(* for it and however its fetch met the engine.                            *)
(***************************************************************************)
AdmittedIsSent ==
  \A p \in Packets : stage[p] = "stored" ~> currentPkt = p

(***************************************************************************)
(* The packets of a queue leave the switch in the order they came, though  *)
(* those in SRAM and the write cache are fetched at once and those in DRAM *)
(* late, in the order the engine comes to them.                            *)
(***************************************************************************)
QueueOrder == Port!KeepsOrder

(***************************************************************************)
(* The switch never hangs: whenever it holds a packet, the simulator has   *)
(* something of the switch in its event list.  A run of the disc is under  *)
(* way or scheduled by a wake, a transmission is to end, a request is on   *)
(* its way to the engine, or the engine has its next event.  (What stops   *)
(* in turn: the disc while the device queue is full, the device behind a   *)
(* packet that is not fetched, the engine without work or with DRAM full.) *)
(***************************************************************************)
SomethingIsDue ==
  \/ quotaLeft # 0
  \/ wake
  \/ currentPkt # NoPacket
  \/ channel # <<>>
  \/ events # {}

NeverHangs == (\E p \in Packets : stage[p] # "new") => SomethingIsDue
=============================================================================
