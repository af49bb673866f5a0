----------------------------- MODULE SwitchPort -----------------------------
(***************************************************************************)
(* An egress port of the switch: the traffic control layer stores admitted *)
(* packets in the MMU and queues them in the queue disc, which runs them   *)
(* into the queue of the reorder device while that queue is not stopped;   *)
(* the device asks the MMU for each packet it queues and sends the first   *)
(* one once it is fetched.  The MMU is the abstract PacketBuffer, which    *)
(* SwitchMmu is shown to implement.                                        *)
(*                                                                         *)
(* The simulator is single-threaded: while the queue disc runs (quotaLeft  *)
(* # 0) no other event happens.  Which queue the disc serves next is left  *)
(* open.  The device has one transmission queue, so that a packet the disc *)
(* has taken is never requeued.                                            *)
(***************************************************************************)
EXTENDS PacketBuffer, SequencesExt

CONSTANTS NoPacket,      \* nullptr
          DevUnit,       \* the unit of the device queue's MaxSize
          DevLimit,      \* its value
          Mtu,           \* m_device->GetMtu ()
          Quota,         \* m_quota
          FreshFlags,    \* what m_mmuFetchStatus may hold before the packet is fetched
          QdiscMayDrop,  \* the queue disc drops packets on its own (RED)
          LinkMayFail    \* LinkDown may be called

ASSUME PortAssumption ==
  /\ NoPacket \notin Packets
  /\ DevUnit \in {"PACKETS", "BYTES"}
  /\ DevLimit \in Nat \ {0}
  /\ Mtu \in Nat
  /\ Quota \in Nat \ {0}
  /\ FreshFlags \subseteq BOOLEAN
  /\ FreshFlags # {}
  /\ QdiscMayDrop \in BOOLEAN
  /\ LinkMayFail \in BOOLEAN

VARIABLES
  qdisc,       \* the packets of each queue in the queue disc
  quotaLeft,   \* quota of the Run under way, 0 when m_running is false
  devQueue,    \* the device's m_queue
  stopped,     \* NetDeviceQueue::m_stoppedByDevice
  wake,        \* a wake callback (QueueDisc::Run) is scheduled for now
  currentPkt,  \* m_currentPkt; the device is READY when there is none
  fetchStatus, \* Packet::m_mmuFetchStatus
  linkUp,      \* m_linkUp
  lost         \* packets dropped after they were stored

discVars == <<qdisc, quotaLeft>>
deviceVars == <<devQueue, stopped, wake, currentPkt>>
mmuVars == <<bufferVars, fetchStatus>>
portVars == <<mmuVars, discVars, deviceVars, linkUp, lost>>

Init ==
  /\ PacketBufferInit
  /\ qdisc = [q \in Queues |-> <<>>]
  /\ quotaLeft = 0
  /\ devQueue = <<>>
  /\ stopped = FALSE
  /\ wake = FALSE
  /\ currentPkt = NoPacket
  /\ fetchStatus = [p \in Packets |-> FALSE]
  /\ linkUp = TRUE
  /\ lost = {}

-----------------------------------------------------------------------------
(***************************************************************************)
(* The device queue and its flow control.                                  *)
(***************************************************************************)
Bytes(queue) == SumFunction([i \in DOMAIN queue |-> Size[queue[i]]])

Exceeds(packets, bytes) ==
  IF DevUnit = "PACKETS" THEN packets > DevLimit ELSE bytes > DevLimit

WrongWouldOverflow(queue) == Exceeds(Len(queue), Bytes(queue))  \* mutant: no room for the next one

WouldOverflow(queue) == Exceeds(Len(queue) + 1, Bytes(queue) + Mtu)

HasNoRoomFor(p) == Exceeds(Len(devQueue) + 1, Bytes(devQueue) + Size[p])

(***************************************************************************)
(* PacketDequeued: a queue that was stopped and has room again schedules a *)
(* run of the queue disc.                                                  *)
(***************************************************************************)
WrongWake(stop, queue) ==  \* mutant: the queue is started, the disc is not run
  /\ stopped' = (stop /\ WouldOverflow(queue))
  /\ UNCHANGED wake

Wake(stop, queue) ==
  /\ stopped' = (stop /\ WouldOverflow(queue))
  /\ wake' = (wake \/ (stop /\ ~WouldOverflow(queue)))

(***************************************************************************)
(* The device sends the first packet of its queue if it is not sending     *)
(* already and the fetch status of the packet is set.                      *)
(***************************************************************************)
WrongAttemptTransmission(queue, stop, sending) ==  \* mutant: any fetched packet is sent
  LET ready == {i \in DOMAIN queue : fetchStatus'[queue[i]]}
  IN IF sending = NoPacket /\ ready # {}
       THEN \E i \in ready :
              /\ devQueue' = RemoveAt(queue, i)
              /\ currentPkt' = queue[i]
              /\ Wake(stop, devQueue')
       ELSE devQueue' = queue /\ currentPkt' = sending /\ stopped' = stop /\ UNCHANGED wake

AttemptTransmission(queue, stop, sending) ==
  IF sending = NoPacket /\ queue # <<>> /\ fetchStatus'[queue[1]]
    THEN /\ devQueue' = Tail(queue)
         /\ currentPkt' = queue[1]
         /\ Wake(stop, devQueue')
    ELSE devQueue' = queue /\ currentPkt' = sending /\ stopped' = stop /\ UNCHANGED wake

SetFetchStatus(p) == fetchStatus' = [fetchStatus EXCEPT ![p] = TRUE]

WrongFetch(p) ==  \* mutant: a packet asked for counts as fetched
  (AskHit(p) \/ AskMiss(p)) /\ SetFetchStatus(p)

Fetch(p) ==
  \/ AskHit(p) /\ SetFetchStatus(p)
  \/ AskMiss(p) /\ UNCHANGED fetchStatus

Drop(p) == lost' = lost \cup {p} /\ UNCHANGED mmuVars

(***************************************************************************)
(* Send of the device.  A packet it drops stays in the MMU.                *)
(***************************************************************************)
SendOnDeadLink(p) ==
  /\ ~linkUp
  /\ Drop(p)
  /\ UNCHANGED deviceVars

SendToFullQueue(p) ==
  /\ linkUp
  /\ HasNoRoomFor(p)
  /\ Drop(p)
  /\ stopped' = TRUE
  /\ UNCHANGED <<devQueue, wake, currentPkt>>

SendToDevice(p) ==
  /\ linkUp
  /\ ~HasNoRoomFor(p)
  /\ UNCHANGED lost
  /\ Fetch(p)
  /\ LET queue == Append(devQueue, p)
     IN AttemptTransmission(queue, stopped \/ WouldOverflow(queue), currentPkt)

Send(p) == SendOnDeadLink(p) \/ SendToFullQueue(p) \/ SendToDevice(p)

-----------------------------------------------------------------------------
(***************************************************************************)
(* TrafficControlLayer::Send, for a packet the MMU admits: it is stored,   *)
(* enqueued (the result is not looked at) and the queue disc is run.  No   *)
(* constructor of Packet initializes the fetch status.                     *)
(***************************************************************************)
Arrive(p) ==
  /\ quotaLeft = 0
  /\ p \notin lost
  /\ Keep(p)
  /\ \E flag \in FreshFlags : fetchStatus' = [fetchStatus EXCEPT ![p] = flag]
  /\ quotaLeft' = Quota
  /\ UNCHANGED <<deviceVars, linkUp>>
  /\ \/ /\ qdisc' = [qdisc EXCEPT ![QueueOf[p]] = Append(@, p)]
        /\ UNCHANGED lost
     \/ /\ QdiscMayDrop
        /\ lost' = lost \cup {p}
        /\ UNCHANGED qdisc

(***************************************************************************)
(* One Restart of the run: a packet of queue q is taken and sent, unless   *)
(* the device queue is stopped or no packet is left.  The run goes on if   *)
(* there is more, the queue was not stopped and the quota is not used up.  *)
(***************************************************************************)
NoneQueued(queues) == \A q \in Queues : queues[q] = <<>>

WrongRestart(q) ==  \* mutant: one packet a run
  /\ quotaLeft # 0
  /\ ~stopped
  /\ qdisc[q] # <<>>
  /\ qdisc' = [qdisc EXCEPT ![q] = Tail(@)]
  /\ Send(qdisc[q][1])
  /\ quotaLeft' = 0
  /\ UNCHANGED linkUp

Restart(q) ==
  /\ quotaLeft # 0
  /\ ~stopped
  /\ qdisc[q] # <<>>
  /\ qdisc' = [qdisc EXCEPT ![q] = Tail(@)]
  /\ Send(qdisc[q][1])
  /\ quotaLeft' = IF NoneQueued(qdisc') \/ stopped' THEN 0 ELSE quotaLeft - 1
  /\ UNCHANGED linkUp

RunEnd ==
  /\ quotaLeft # 0
  /\ stopped \/ NoneQueued(qdisc)
  /\ quotaLeft' = 0
  /\ UNCHANGED <<mmuVars, qdisc, deviceVars, linkUp, lost>>

(***************************************************************************)
(* The wake callback runs before the clock moves on.                       *)
(***************************************************************************)
WakeRun ==
  /\ quotaLeft = 0
  /\ wake
  /\ wake' = FALSE
  /\ quotaLeft' = Quota
  /\ UNCHANGED <<mmuVars, qdisc, devQueue, stopped, currentPkt, linkUp, lost>>

(***************************************************************************)
(* The MMU has read a packet out of DRAM and calls the device's handler.   *)
(* A packet that was sent too early lives until then.                      *)
(***************************************************************************)
InDevice(p) == Contains(devQueue, p) \/ currentPkt = p

CompleteAndRelease(p) == Moves(p, "asked", "out") /\ Charge(p, -Size[p])

FetchComplete(p) ==
  /\ IF InDevice(p) THEN Complete(p) ELSE CompleteAndRelease(p)
  /\ SetFetchStatus(p)

WrongHandleRequest(p) ==  \* mutant: the device is not called
  FetchComplete(p) /\ UNCHANGED deviceVars

HandleRequest(p) ==
  FetchComplete(p) /\ AttemptTransmission(devQueue, stopped, currentPkt)

FetchCompletes(p) ==
  /\ quotaLeft = 0
  /\ HandleRequest(p)
  /\ UNCHANGED <<discVars, linkUp, lost>>

ReleaseSent(p) ==
  IF status[p] = "fetched" THEN Release(p) ELSE UNCHANGED bufferVars

WrongTransmitComplete ==  \* mutant: m_currentPkt is kept
  /\ quotaLeft = 0
  /\ currentPkt # NoPacket
  /\ ~wake
  /\ ReleaseSent(currentPkt)
  /\ UNCHANGED fetchStatus
  /\ AttemptTransmission(devQueue, stopped, currentPkt)
  /\ UNCHANGED <<discVars, linkUp, lost>>

TransmitComplete ==
  /\ quotaLeft = 0
  /\ currentPkt # NoPacket
  /\ ~wake
  /\ ReleaseSent(currentPkt)
  /\ UNCHANGED fetchStatus
  /\ AttemptTransmission(devQueue, stopped, NoPacket)
  /\ UNCHANGED <<discVars, linkUp, lost>>

LinkDown ==
  /\ LinkMayFail
  /\ quotaLeft = 0
  /\ linkUp
  /\ linkUp' = FALSE
  /\ UNCHANGED <<mmuVars, discVars, deviceVars, lost>>

Next ==
  \/ \E p \in Packets : Arrive(p)
  \/ \E q \in Queues : Restart(q)
  \/ RunEnd
  \/ WakeRun
  \/ \E p \in Packets : FetchCompletes(p)
  \/ TransmitComplete
  \/ LinkDown

(***************************************************************************)
(* The simulator runs what is scheduled, the MMU fetches what it is asked  *)
(* for (FetchedInTheEnd), and the queue disc serves its queues in rounds.  *)
(* Fairness is strong where a run of the disc, one event of the simulator, *)
(* disables for a while what is scheduled for later.                       *)
(***************************************************************************)
Fairness ==
  /\ \A q \in Queues : SF_portVars(Restart(q))
  /\ WF_portVars(RunEnd)
  /\ WF_portVars(WakeRun)
  /\ \A p \in Packets : SF_portVars(FetchCompletes(p))
  /\ SF_portVars(TransmitComplete)

Spec == Init /\ [][Next]_portVars
FairSpec == Spec /\ Fairness

-----------------------------------------------------------------------------
(***************************************************************************)
(* Types.                                                                  *)
(***************************************************************************)
PortTypeOK ==
  /\ PacketBufferTypeOK
  /\ qdisc \in [Queues -> Seq(Packets)]
  /\ quotaLeft \in 0 .. Quota
  /\ devQueue \in Seq(Packets)
  /\ stopped \in BOOLEAN
  /\ wake \in BOOLEAN
  /\ currentPkt \in Packets \cup {NoPacket}
  /\ fetchStatus \in [Packets -> BOOLEAN]
  /\ linkUp \in BOOLEAN
  /\ lost \subseteq Packets

(***************************************************************************)
(* The stop and wake signals of the device queue and the runs of the queue *)
(* disc never leave a packet behind: packets wait in the disc only while   *)
(* the device queue is stopped or a run is due, and a stopped queue has a  *)
(* packet in it, whose departure will wake the disc.                       *)
(***************************************************************************)
NoLostWakeup ==
  /\ quotaLeft = 0 /\ ~NoneQueued(qdisc) => stopped \/ wake
  /\ stopped => devQueue # <<>>

(***************************************************************************)
(* An idle device does not sit on a fetched packet, whether the fetch came *)
(* at once, during a transmission, or out of order.                        *)
(***************************************************************************)
NoStall ==
  currentPkt = NoPacket /\ devQueue # <<>> => status[devQueue[1]] # "fetched"

(***************************************************************************)
(* The packets in the MMU are those in the port: the disc's are held, the  *)
(* device's asked for or fetched, the one being sent is fetched, each in   *)
(* one place; those lost on the way stay in the MMU for good.  (With fetch *)
(* statuses that start unset, see SentIsFetched.)                          *)
(***************************************************************************)
PacketsAccounted ==
  /\ \A p \in Packets :
       LET inDisc == Cardinality({i \in DOMAIN qdisc[QueueOf[p]] : qdisc[QueueOf[p]][i] = p})
           inDevice == Cardinality({i \in DOMAIN devQueue : devQueue[i] = p})
                         + (IF currentPkt = p THEN 1 ELSE 0)
           inLost == IF p \in lost THEN 1 ELSE 0
       IN CASE status[p] = "out"  -> inDisc + inDevice + inLost = 0
            [] status[p] = "held" -> inDisc + inLost = 1 /\ inDevice = 0
            [] OTHER              -> inDisc + inLost = 0 /\ inDevice = 1
  /\ \A q \in Queues : charged[q] =
       SumFunctionOnSet(Size, {p \in Packets : QueueOf[p] = q /\ status[p] \in {"held", "asked"}})

(***************************************************************************)
(* Packets of a queue leave in the order they came, in whatever order the  *)
(* MMU fetches them: of two that wait, in the disc or in the device, the   *)
(* one ahead stays ahead, a packet that comes is behind those of its queue *)
(* that are there, and the device sends none that another is ahead of (one *)
(* that is dropped leaves a gap, nothing overtakes).                       *)
(***************************************************************************)
Precedes(queue, p, r) == \E i, j \in DOMAIN queue : i < j /\ queue[i] = p /\ queue[j] = r

Waits(p) == Contains(devQueue, p) \/ Contains(qdisc[QueueOf[p]], p)

Ahead(p, r) ==
  \/ Precedes(devQueue, p, r)
  \/ Contains(devQueue, p) /\ Contains(qdisc[QueueOf[r]], r)
  \/ Precedes(qdisc[QueueOf[p]], p, r)

KeepsOrder ==
  [][\A p, r \in Packets : QueueOf[p] = QueueOf[r] /\ p # r =>
       /\ Ahead(p, r) /\ Waits(p)' /\ Waits(r)' => Ahead(p, r)'
       /\ Waits(p) /\ ~Waits(r) /\ Waits(p)' /\ Waits(r)' => Ahead(p, r)'
       /\ Ahead(p, r) => currentPkt' # r]_portVars

(***************************************************************************)
(* A device that is up consumes every packet it is given, because the disc *)
(* gives it one only when its queue has room: while the link is up packets *)
(* are lost on arrival in the disc, never once they wait in it.            *)
(***************************************************************************)
SentIsConsumed ==
  [][\A p \in lost' \ lost : linkUp => status[p] = "out"]_portVars

(***************************************************************************)
(* The device sends no packet the MMU has not fetched.                     *)
(***************************************************************************)
SentIsFetched == currentPkt # NoPacket => status[currentPkt] = "fetched"

(***************************************************************************)
(* Every packet stored is sent, or is lost on the way.                     *)
(***************************************************************************)
StoredIsSent ==
  \A p \in Packets : status[p] # "out" ~> status[p] = "out" \/ p \in lost
=============================================================================
