------------------------- MODULE SwitchPort_proofs -------------------------
(***************************************************************************)
(* Proofs about SwitchPort for any packets, queues and device queue: what  *)
(* the device sends and what it waits for, the signals between the device  *)
(* queue and the queue disc, where every packet is and what is charged for *)
(* it, the order of the queues, and what the device refuses.               *)
(***************************************************************************)
EXTENDS SwitchPort, CollectionLemmas

InQueue(p, queue) == \E i \in 1 .. Len(queue) : queue[i] = p

Distinct(queue) == \A i, j \in 1 .. Len(queue) : queue[i] = queue[j] => i = j

Busy(sending) == IF sending = NoPacket THEN 0 ELSE 1

(***************************************************************************)
(* The type invariant without the charges, which are typed because they    *)
(* are sums (ChargeInv).                                                   *)
(***************************************************************************)
PortTypes ==
  /\ status \in [Packets -> Statuses]
  /\ qdisc \in [Queues -> Seq(Packets)]
  /\ quotaLeft \in 0 .. Quota
  /\ devQueue \in Seq(Packets)
  /\ stopped \in BOOLEAN
  /\ wake \in BOOLEAN
  /\ currentPkt \in Packets \cup {NoPacket}
  /\ fetchStatus \in [Packets -> BOOLEAN]
  /\ linkUp \in BOOLEAN
  /\ lost \subseteq Packets

LEMMA TailFacts ==
  ASSUME NEW queue \in Seq(Packets), queue # <<>>
  PROVE  /\ Tail(queue) \in Seq(Packets)
         /\ Len(Tail(queue)) = Len(queue) - 1
         /\ queue[1] \in Packets
         /\ \A i \in 1 .. Len(Tail(queue)) : Tail(queue)[i] = queue[i + 1]
         /\ \A p : InQueue(p, Tail(queue)) => InQueue(p, queue)
         /\ InQueue(queue[1], queue)
<1>1. /\ Tail(queue) \in Seq(Packets)
      /\ Len(Tail(queue)) = Len(queue) - 1
      /\ queue[1] \in Packets
      /\ \A i \in 1 .. Len(Tail(queue)) : Tail(queue)[i] = queue[i + 1]
      /\ Len(queue) \in Nat /\ Len(queue) >= 1
  OBVIOUS
<1>2. ASSUME NEW p, InQueue(p, Tail(queue)) PROVE InQueue(p, queue)
  <2>1. PICK i \in 1 .. Len(Tail(queue)) : Tail(queue)[i] = p
    BY <1>2 DEF InQueue
  <2>2. i + 1 \in 1 .. Len(queue) /\ queue[i + 1] = p
    BY <1>1, <2>1
  <2> QED BY <2>2 DEF InQueue
<1>3. InQueue(queue[1], queue)
  BY <1>1 DEF InQueue
<1> QED BY <1>1, <1>2, <1>3

LEMMA DistinctTail ==
  ASSUME NEW queue \in Seq(Packets), queue # <<>>, Distinct(queue)
  PROVE  Distinct(Tail(queue)) /\ ~InQueue(queue[1], Tail(queue))
<1>1. /\ Len(Tail(queue)) = Len(queue) - 1 /\ Len(queue) \in Nat /\ Len(queue) >= 1
      /\ \A i \in 1 .. Len(Tail(queue)) : Tail(queue)[i] = queue[i + 1]
  BY TailFacts
<1>2. ASSUME NEW i \in 1 .. Len(Tail(queue)), NEW j \in 1 .. Len(Tail(queue)),
             Tail(queue)[i] = Tail(queue)[j]
      PROVE  i = j
  <2>1. i + 1 \in 1 .. Len(queue) /\ j + 1 \in 1 .. Len(queue) /\ queue[i + 1] = queue[j + 1]
    BY <1>1, <1>2
  <2>2. i + 1 = j + 1
    BY <2>1 DEF Distinct
  <2> QED BY <2>2
<1>3. ASSUME NEW i \in 1 .. Len(Tail(queue)) PROVE Tail(queue)[i] # queue[1]
  <2>1. i + 1 \in 1 .. Len(queue) /\ 1 \in 1 .. Len(queue) /\ i + 1 # 1
    BY <1>1
  <2>2. queue[i + 1] # queue[1]
    BY <2>1 DEF Distinct
  <2> QED BY <1>1, <2>2
<1> QED BY <1>2, <1>3 DEF Distinct, InQueue

LEMMA AppendFacts ==
  ASSUME NEW queue \in Seq(Packets), NEW p \in Packets
  PROVE  /\ Append(queue, p) \in Seq(Packets)
         /\ Len(Append(queue, p)) = Len(queue) + 1
         /\ \A q : InQueue(q, Append(queue, p)) => q = p \/ InQueue(q, queue)
         /\ Distinct(queue) /\ ~InQueue(p, queue) => Distinct(Append(queue, p))
<1> DEFINE longer == Append(queue, p)
<1>1. /\ longer \in Seq(Packets)
      /\ Len(longer) = Len(queue) + 1 /\ Len(queue) \in Nat
      /\ \A i \in 1 .. Len(longer) : longer[i] = IF i = Len(longer) THEN p ELSE queue[i]
  OBVIOUS
<1> HIDE DEF longer
<1>2. ASSUME NEW q, InQueue(q, longer) PROVE q = p \/ InQueue(q, queue)
  BY <1>1, <1>2 DEF InQueue
<1>3. ASSUME Distinct(queue), ~InQueue(p, queue) PROVE Distinct(longer)
  BY <1>1, <1>3 DEF Distinct, InQueue
<1> QED BY <1>1, <1>2, <1>3 DEF longer

-----------------------------------------------------------------------------
(***************************************************************************)
(* AttemptTransmission, called with the queue as it is by then.            *)
(***************************************************************************)
Transmits(queue, sending) == sending = NoPacket /\ queue # <<>> /\ fetchStatus'[queue[1]]

LEMMA AttemptCases ==
  ASSUME NEW queue, NEW stop, NEW sending, AttemptTransmission(queue, stop, sending)
  PROVE  /\ Transmits(queue, sending) =>
              devQueue' = Tail(queue) /\ currentPkt' = queue[1] /\ Wake(stop, devQueue')
         /\ ~Transmits(queue, sending) =>
              devQueue' = queue /\ currentPkt' = sending /\ stopped' = stop /\ wake' = wake
  BY Zenon DEF AttemptTransmission, Transmits

LEMMA AttemptTypes ==
  ASSUME NEW queue \in Seq(Packets), NEW stop \in BOOLEAN, NEW sending \in Packets \cup {NoPacket},
         wake \in BOOLEAN, AttemptTransmission(queue, stop, sending)
  PROVE  /\ devQueue' \in Seq(Packets) /\ currentPkt' \in Packets \cup {NoPacket}
         /\ stopped' \in BOOLEAN /\ wake' \in BOOLEAN
<1>1. CASE Transmits(queue, sending)
  <2>1. devQueue' = Tail(queue) /\ currentPkt' = queue[1] /\ queue # <<>>
    BY <1>1, AttemptCases DEF Transmits
  <2>2. Wake(stop, devQueue')
    BY <1>1, AttemptCases
  <2>3. stopped' \in BOOLEAN /\ wake' \in BOOLEAN
    BY <2>2, Zenon DEF Wake
  <2> QED BY <2>1, <2>3, TailFacts
<1>2. CASE ~Transmits(queue, sending)
  BY <1>2, AttemptCases
<1> QED BY <1>1, <1>2

(***************************************************************************)
(* What the device holds afterwards, and what it does not wait for.        *)
(***************************************************************************)
LEMMA AttemptPackets ==
  ASSUME NEW queue \in Seq(Packets), NEW stop, NEW sending \in Packets \cup {NoPacket},
         Distinct(queue), ~InQueue(sending, queue),
         AttemptTransmission(queue, stop, sending)
  PROVE  /\ Distinct(devQueue')
         /\ currentPkt' # NoPacket => ~InQueue(currentPkt', devQueue')
         /\ \A p : InQueue(p, devQueue') \/ (p # NoPacket /\ currentPkt' = p)
                   => InQueue(p, queue) \/ sending = p
         /\ currentPkt' = NoPacket /\ devQueue' # <<>> => ~fetchStatus'[devQueue'[1]]
         /\ currentPkt' = sending
              \/ (sending = NoPacket /\ InQueue(currentPkt', queue) /\ fetchStatus'[currentPkt'])
<1>1. CASE Transmits(queue, sending)
  <2>1. /\ devQueue' = Tail(queue) /\ currentPkt' = queue[1] /\ queue # <<>>
        /\ fetchStatus'[queue[1]] /\ sending = NoPacket
    BY <1>1, AttemptCases DEF Transmits
  <2>2. Distinct(Tail(queue)) /\ ~InQueue(queue[1], Tail(queue))
    BY <2>1, DistinctTail
  <2>3. /\ queue[1] \in Packets /\ InQueue(queue[1], queue)
        /\ \A p : InQueue(p, Tail(queue)) => InQueue(p, queue)
    BY <2>1, TailFacts
  <2>4. currentPkt' # NoPacket
    BY <2>1, <2>3, PortAssumption
  <2> QED BY <2>1, <2>2, <2>3, <2>4, Zenon
<1>2. CASE ~Transmits(queue, sending)
  <2>1. devQueue' = queue /\ currentPkt' = sending
    BY <1>2, AttemptCases
  <2> QED BY <1>2, <2>1, Zenon DEF Transmits
<1> QED BY <1>1, <1>2

(***************************************************************************)
(* The signals, for a device queue limited in packets: a stop goes on or   *)
(* ends in a wakeup, goes on only while the queue is full, and a queue     *)
(* that is not stopped has room.                                           *)
(***************************************************************************)
Full(queue) == Len(queue) + 1 > DevLimit

LEMMA FullInPackets ==
  ASSUME DevUnit = "PACKETS"
  PROVE  /\ \A queue : WouldOverflow(queue) <=> Full(queue)
         /\ \A p : HasNoRoomFor(p) <=> Full(devQueue)
  BY DEF WouldOverflow, HasNoRoomFor, Exceeds, Full

LEMMA AttemptSignals ==
  ASSUME DevUnit = "PACKETS",
         NEW queue \in Seq(Packets), NEW stop \in BOOLEAN, NEW sending \in Packets \cup {NoPacket},
         wake \in BOOLEAN, AttemptTransmission(queue, stop, sending)
  PROVE  /\ stop => stopped' \/ wake'
         /\ wake => wake'
         /\ (stop => Full(queue)) => (stopped' => Full(devQueue'))
         /\ (~stop => ~Full(queue)) => (~stopped' => ~Full(devQueue'))
         /\ Len(devQueue') + Busy(currentPkt') = Len(queue) + Busy(sending)
<1>1. CASE Transmits(queue, sending)
  <2>1. /\ devQueue' = Tail(queue) /\ currentPkt' = queue[1] /\ queue # <<>> /\ sending = NoPacket
    BY <1>1, AttemptCases DEF Transmits
  <2>2. /\ stopped' = (stop /\ WouldOverflow(devQueue'))
        /\ wake' = (wake \/ (stop /\ ~WouldOverflow(devQueue')))
    BY <1>1, AttemptCases DEF Wake
  <2>3. WouldOverflow(devQueue') <=> Full(devQueue')
    BY FullInPackets
  <2>4. /\ stop => stopped' \/ wake'
        /\ wake => wake'
        /\ stopped' => Full(devQueue')
        /\ ~stopped' => ~stop \/ ~Full(devQueue')
    BY <2>2, <2>3, Zenon
  <2>5. Len(devQueue') = Len(queue) - 1 /\ currentPkt' # NoPacket /\ Len(queue) \in Nat
    BY <2>1, TailFacts, PortAssumption
  <2>6. ~Full(queue) => ~Full(devQueue')
    BY <2>5, PortAssumption DEF Full
  <2>7. Len(devQueue') + Busy(currentPkt') = Len(queue) + Busy(sending)
    BY <2>1, <2>5 DEF Busy
  <2> QED BY <2>4, <2>6, <2>7, Zenon
<1>2. CASE ~Transmits(queue, sending)
  <2>1. devQueue' = queue /\ currentPkt' = sending /\ stopped' = stop /\ wake' = wake
    BY <1>2, AttemptCases
  <2> QED BY <2>1, Zenon
<1> QED BY <1>1, <1>2

-----------------------------------------------------------------------------
(***************************************************************************)
(* Types.                                                                  *)
(***************************************************************************)
LEMMA StatusMoves ==
  ASSUME PortTypes, NEW p \in Packets, NEW from, NEW to \in Statuses, Moves(p, from, to)
  PROVE  /\ status[p] = from /\ status'[p] = to
         /\ status' \in [Packets -> Statuses]
         /\ \A q \in Packets : q # p => status'[q] = status[q]
  BY DEF PortTypes, Moves

LEMMA FetchSets ==
  ASSUME PortTypes, NEW p \in Packets, Fetch(p)
  PROVE  /\ status[p] = "held"
         /\ status' \in [Packets -> Statuses]
         /\ fetchStatus' \in [Packets -> BOOLEAN]
         /\ \/ status'[p] = "fetched" /\ fetchStatus'[p]
            \/ status'[p] = "asked" /\ fetchStatus'[p] = fetchStatus[p]
         /\ \A q \in Packets : q # p => status'[q] = status[q] /\ fetchStatus'[q] = fetchStatus[q]
<1>1. fetchStatus \in [Packets -> BOOLEAN]
  BY DEF PortTypes
<1>2. CASE AskHit(p) /\ SetFetchStatus(p)
  <2>1. Moves(p, "held", "fetched")
    BY <1>2 DEF AskHit
  <2>2. fetchStatus' = [fetchStatus EXCEPT ![p] = TRUE]
    BY <1>2 DEF SetFetchStatus
  <2>3. /\ fetchStatus' \in [Packets -> BOOLEAN] /\ fetchStatus'[p]
        /\ \A q \in Packets : q # p => fetchStatus'[q] = fetchStatus[q]
    BY <1>1, <2>2
  <2>4. "fetched" \in Statuses
    BY DEF Statuses
  <2>5. /\ status[p] = "held" /\ status'[p] = "fetched"
        /\ status' \in [Packets -> Statuses]
        /\ \A q \in Packets : q # p => status'[q] = status[q]
    BY <2>1, <2>4, StatusMoves
  <2> QED BY <2>3, <2>5
<1>3. CASE AskMiss(p) /\ UNCHANGED fetchStatus
  <2>1. Moves(p, "held", "asked")
    BY <1>3 DEF AskMiss
  <2>2. "asked" \in Statuses
    BY DEF Statuses
  <2>3. /\ status[p] = "held" /\ status'[p] = "asked"
        /\ status' \in [Packets -> Statuses]
        /\ \A q \in Packets : q # p => status'[q] = status[q]
    BY <2>1, <2>2, StatusMoves
  <2> QED BY <1>1, <1>3, <2>3
<1> QED BY <1>2, <1>3 DEF Fetch

LEMMA ArrivalSets ==
  ASSUME PortTypes, NEW p \in Packets, Arrive(p)
  PROVE  /\ status[p] = "out" /\ status'[p] = "held"
         /\ status' \in [Packets -> Statuses]
         /\ fetchStatus' \in [Packets -> BOOLEAN]
         /\ fetchStatus'[p] \in FreshFlags
         /\ \A q \in Packets : q # p => status'[q] = status[q] /\ fetchStatus'[q] = fetchStatus[q]
<1>1. PICK flag \in FreshFlags : fetchStatus' = [fetchStatus EXCEPT ![p] = flag]
  BY DEF Arrive
<1>2. flag \in BOOLEAN
  BY PortAssumption
<1>3. /\ fetchStatus' \in [Packets -> BOOLEAN] /\ fetchStatus'[p] = flag
      /\ \A q \in Packets : q # p => fetchStatus'[q] = fetchStatus[q]
  BY <1>1, <1>2 DEF PortTypes
<1>4. Moves(p, "out", "held") /\ "held" \in Statuses
  BY DEF Arrive, Keep, Statuses
<1>5. /\ status[p] = "out" /\ status'[p] = "held"
      /\ status' \in [Packets -> Statuses]
      /\ \A q \in Packets : q # p => status'[q] = status[q]
  BY <1>4, StatusMoves
<1> QED BY <1>1, <1>3, <1>5

LEMMA CompletionSets ==
  ASSUME PortTypes, NEW p \in Packets, FetchComplete(p)
  PROVE  /\ status[p] = "asked"
         /\ status'[p] = IF InDevice(p) THEN "fetched" ELSE "out"
         /\ status' \in [Packets -> Statuses]
         /\ fetchStatus' \in [Packets -> BOOLEAN]
         /\ fetchStatus'[p]
         /\ \A q \in Packets : q # p => status'[q] = status[q] /\ fetchStatus'[q] = fetchStatus[q]
<1>1. fetchStatus' = [fetchStatus EXCEPT ![p] = TRUE]
  BY DEF FetchComplete, SetFetchStatus
<1>2. /\ fetchStatus' \in [Packets -> BOOLEAN] /\ fetchStatus'[p]
      /\ \A q \in Packets : q # p => fetchStatus'[q] = fetchStatus[q]
  BY <1>1 DEF PortTypes
<1>3. "fetched" \in Statuses /\ "out" \in Statuses
  BY DEF Statuses
<1>4. CASE InDevice(p)
  <2>1. Moves(p, "asked", "fetched")
    BY <1>4 DEF FetchComplete, Complete
  <2> QED BY <1>2, <1>3, <1>4, <2>1, StatusMoves
<1>5. CASE ~InDevice(p)
  <2>1. Moves(p, "asked", "out")
    BY <1>5 DEF FetchComplete, CompleteAndRelease
  <2> QED BY <1>2, <1>3, <1>5, <2>1, StatusMoves
<1> QED BY <1>4, <1>5

LEMMA ReleaseSets ==
  ASSUME PortTypes, NEW p \in Packets, ReleaseSent(p)
  PROVE  /\ status' \in [Packets -> Statuses]
         /\ status'[p] = IF status[p] = "fetched" THEN "out" ELSE status[p]
         /\ \A q \in Packets : q # p => status'[q] = status[q]
<1>1. "out" \in Statuses
  BY DEF Statuses
<1>2. CASE status[p] = "fetched"
  <2>1. Moves(p, "fetched", "out")
    BY <1>2 DEF ReleaseSent, Release
  <2> QED BY <1>1, <1>2, <2>1, StatusMoves
<1>3. CASE status[p] # "fetched"
  BY <1>3 DEF ReleaseSent, bufferVars, PortTypes
<1> QED BY <1>2, <1>3

LEMMA PortInitTypes == Init => PortTypes
<1> SUFFICES ASSUME Init PROVE PortTypes
  OBVIOUS
<1>1. "out" \in Statuses /\ Quota \in Nat
  BY PortAssumption DEF Statuses
<1>2. status \in [Packets -> Statuses]
  BY <1>1 DEF Init, PacketBufferInit
<1>3. fetchStatus \in [Packets -> BOOLEAN] /\ qdisc \in [Queues -> Seq(Packets)]
  BY DEF Init
<1>4. /\ quotaLeft = 0 /\ devQueue = <<>> /\ stopped = FALSE /\ wake = FALSE
      /\ currentPkt = NoPacket /\ linkUp = TRUE /\ lost = {}
  BY DEF Init
<1>5. quotaLeft \in 0 .. Quota
  BY <1>1, <1>4
<1>6. devQueue \in Seq(Packets) /\ currentPkt \in Packets \cup {NoPacket} /\ lost \subseteq Packets
  BY <1>4
<1>7. stopped \in BOOLEAN /\ wake \in BOOLEAN /\ linkUp \in BOOLEAN
  BY <1>4
<1> QED BY <1>2, <1>3, <1>5, <1>6, <1>7, Zenon DEF PortTypes

(***************************************************************************)
(* A run of the queue disc hands its first packet to the device, which     *)
(* drops it or asks the MMU for it.                                        *)
(***************************************************************************)
Dropped(p) == UNCHANGED <<status, fetchStatus, devQueue, wake, currentPkt>> /\ lost' = lost \cup {p}

LEMMA SendCases ==
  ASSUME NEW p, Send(p)
  PROVE  \/ ~linkUp /\ Dropped(p) /\ stopped' = stopped
         \/ HasNoRoomFor(p) /\ Dropped(p) /\ stopped' = TRUE
         \/ SendToDevice(p)
  BY Zenon DEF Send, SendOnDeadLink, SendToFullQueue, Dropped, Drop, mmuVars, bufferVars, deviceVars

LEMMA PortTypesKept == PortTypes /\ [Next]_portVars => PortTypes'
<1> SUFFICES ASSUME PortTypes, [Next]_portVars PROVE PortTypes'
  OBVIOUS
<1>1. /\ status \in [Packets -> Statuses] /\ qdisc \in [Queues -> Seq(Packets)]
      /\ quotaLeft \in 0 .. Quota /\ Quota \in Nat /\ Quota > 0
      /\ devQueue \in Seq(Packets) /\ stopped \in BOOLEAN /\ wake \in BOOLEAN
      /\ currentPkt \in Packets \cup {NoPacket} /\ fetchStatus \in [Packets -> BOOLEAN]
      /\ linkUp \in BOOLEAN /\ lost \subseteq Packets
  BY PortAssumption DEF PortTypes
<1>2. ASSUME NEW p \in Packets, Arrive(p) PROVE PortTypes'
  <2>1. status' \in [Packets -> Statuses] /\ fetchStatus' \in [Packets -> BOOLEAN]
    BY <1>2, ArrivalSets
  <2>2. quotaLeft' = Quota /\ UNCHANGED <<devQueue, stopped, wake, currentPkt, linkUp>>
    BY <1>2 DEF Arrive, deviceVars
  <2>3. QueueOf[p] \in Queues
    BY PacketBufferAssumption
  <2>4. qdisc' \in [Queues -> Seq(Packets)] /\ lost' \subseteq Packets
    <3>1. CASE qdisc' = [qdisc EXCEPT ![QueueOf[p]] = Append(@, p)] /\ lost' = lost
      BY <1>1, <2>3, <3>1
    <3>2. CASE qdisc' = qdisc /\ lost' = lost \cup {p}
      BY <1>1, <3>2
    <3> QED BY <1>2, <3>1, <3>2 DEF Arrive
  <2> QED BY <1>1, <2>1, <2>2, <2>4 DEF PortTypes
<1>3. ASSUME NEW q \in Queues, Restart(q) PROVE PortTypes'
  <2> DEFINE p == qdisc[q][1]
  <2>1. qdisc[q] \in Seq(Packets) /\ qdisc[q] # <<>> /\ Send(p) /\ linkUp' = linkUp
    BY <1>1, <1>3 DEF Restart
  <2>2. p \in Packets /\ Tail(qdisc[q]) \in Seq(Packets)
    BY <2>1
  <2>3. qdisc' \in [Queues -> Seq(Packets)]
    <3>1. qdisc' = [qdisc EXCEPT ![q] = Tail(@)]
      BY <1>3 DEF Restart
    <3> QED BY <1>1, <2>2, <3>1
  <2>4. quotaLeft' \in 0 .. Quota
    <3>1. quotaLeft' = 0 \/ quotaLeft' = quotaLeft - 1
      BY <1>3 DEF Restart
    <3>2. quotaLeft # 0
      BY <1>3 DEF Restart
    <3> QED BY <1>1, <3>1, <3>2
  <2>5. ASSUME Dropped(p), stopped' \in BOOLEAN PROVE PortTypes'
    BY <1>1, <2>1, <2>2, <2>3, <2>4, <2>5 DEF PortTypes, Dropped
  <2>6. ASSUME SendToDevice(p) PROVE PortTypes'
    <3>1. Fetch(p) /\ lost' = lost
      BY <2>6 DEF SendToDevice
    <3>2. AttemptTransmission(Append(devQueue, p), stopped \/ WouldOverflow(Append(devQueue, p)), currentPkt)
      BY <2>6 DEF SendToDevice
    <3>3. Append(devQueue, p) \in Seq(Packets)
      BY <1>1, <2>2
    <3>4. (stopped \/ WouldOverflow(Append(devQueue, p))) \in BOOLEAN
      BY Zenon
    <3>5. /\ devQueue' \in Seq(Packets) /\ currentPkt' \in Packets \cup {NoPacket}
          /\ stopped' \in BOOLEAN /\ wake' \in BOOLEAN
      BY <1>1, <3>2, <3>3, <3>4, AttemptTypes
    <3>6. status' \in [Packets -> Statuses] /\ fetchStatus' \in [Packets -> BOOLEAN]
      BY <2>2, <3>1, FetchSets
    <3> QED BY <1>1, <2>1, <2>3, <2>4, <3>1, <3>5, <3>6 DEF PortTypes
  <2> QED BY <1>1, <2>1, <2>5, <2>6, SendCases
<1>4. ASSUME RunEnd PROVE PortTypes'
  <2>1. quotaLeft' = 0 /\ UNCHANGED <<status, fetchStatus, qdisc, devQueue, stopped, wake, currentPkt, linkUp, lost>>
    BY <1>4 DEF RunEnd, mmuVars, bufferVars, deviceVars
  <2> QED BY <1>1, <2>1 DEF PortTypes
<1>5. ASSUME WakeRun PROVE PortTypes'
  <2>1. /\ quotaLeft' = Quota
        /\ UNCHANGED <<status, fetchStatus, qdisc, devQueue, stopped, currentPkt, linkUp, lost>>
    BY <1>5 DEF WakeRun, mmuVars, bufferVars
  <2>2. wake' \in BOOLEAN
    BY <1>5, Zenon DEF WakeRun
  <2>3. quotaLeft' \in 0 .. Quota
    BY <1>1, <2>1
  <2> QED BY <1>1, <2>1, <2>2, <2>3, Zenon DEF PortTypes
<1>6. ASSUME NEW p \in Packets, FetchCompletes(p) PROVE PortTypes'
  <2>1. /\ FetchComplete(p) /\ AttemptTransmission(devQueue, stopped, currentPkt)
        /\ UNCHANGED <<qdisc, quotaLeft, linkUp, lost>>
    BY <1>6 DEF FetchCompletes, HandleRequest, discVars
  <2>2. /\ devQueue' \in Seq(Packets) /\ currentPkt' \in Packets \cup {NoPacket}
        /\ stopped' \in BOOLEAN /\ wake' \in BOOLEAN
    BY <1>1, <2>1, AttemptTypes
  <2>3. status' \in [Packets -> Statuses] /\ fetchStatus' \in [Packets -> BOOLEAN]
    BY <2>1, CompletionSets
  <2> QED BY <1>1, <2>1, <2>2, <2>3 DEF PortTypes
<1>7. ASSUME TransmitComplete PROVE PortTypes'
  <2>1. /\ ReleaseSent(currentPkt) /\ AttemptTransmission(devQueue, stopped, NoPacket)
        /\ currentPkt # NoPacket
        /\ UNCHANGED <<fetchStatus, qdisc, quotaLeft, linkUp, lost>>
    BY <1>7 DEF TransmitComplete, discVars
  <2>2. /\ devQueue' \in Seq(Packets) /\ currentPkt' \in Packets \cup {NoPacket}
        /\ stopped' \in BOOLEAN /\ wake' \in BOOLEAN
    BY <1>1, <2>1, AttemptTypes
  <2>3. status' \in [Packets -> Statuses]
    BY <1>1, <2>1, ReleaseSets
  <2> QED BY <1>1, <2>1, <2>2, <2>3 DEF PortTypes
<1>8. ASSUME LinkDown PROVE PortTypes'
  <2>1. linkUp' = FALSE /\ UNCHANGED <<status, fetchStatus, qdisc, quotaLeft, devQueue, stopped, wake, currentPkt, lost>>
    BY <1>8 DEF LinkDown, mmuVars, bufferVars, discVars, deviceVars
  <2> QED BY <1>1, <2>1 DEF PortTypes
<1>9. CASE UNCHANGED portVars
  BY <1>1, <1>9 DEF PortTypes, portVars, mmuVars, bufferVars, discVars, deviceVars
<1> QED BY <1>2, <1>3, <1>4, <1>5, <1>6, <1>7, <1>8, <1>9 DEF Next

-----------------------------------------------------------------------------
(***************************************************************************)
(* What the device holds and what it waits for.                            *)
(***************************************************************************)
Holds(p) == InQueue(p, devQueue) \/ currentPkt = p

DeviceInv ==
  /\ Distinct(devQueue)
  /\ ~InQueue(currentPkt, devQueue)
  /\ \A p \in Packets : Holds(p) => status[p] \in {"asked", "fetched"}
  /\ \A p \in Packets : status[p] = "fetched" => fetchStatus[p]
  /\ currentPkt = NoPacket /\ devQueue # <<>> => ~fetchStatus[devQueue[1]]

LEMMA NoPacketNotQueued ==
  ASSUME NEW queue \in Seq(Packets)
  PROVE  ~InQueue(NoPacket, queue)
  BY PortAssumption DEF InQueue

(***************************************************************************)
(* An attempt to transmit keeps DeviceInv, if the device then holds        *)
(* packets asked for or fetched only.                                      *)
(***************************************************************************)
LEMMA AttemptKeepsDeviceInv ==
  ASSUME NEW queue \in Seq(Packets), NEW stop, NEW sending \in Packets \cup {NoPacket},
         Distinct(queue), ~InQueue(sending, queue),
         \A p \in Packets : InQueue(p, queue) \/ sending = p => status'[p] \in {"asked", "fetched"},
         \A p \in Packets : status'[p] = "fetched" => fetchStatus'[p],
         AttemptTransmission(queue, stop, sending),
         devQueue' \in Seq(Packets)
  PROVE  DeviceInv'
<1>1. /\ Distinct(devQueue')
      /\ currentPkt' # NoPacket => ~InQueue(currentPkt', devQueue')
      /\ \A p : InQueue(p, devQueue') \/ (p # NoPacket /\ currentPkt' = p)
                => InQueue(p, queue) \/ sending = p
      /\ currentPkt' = NoPacket /\ devQueue' # <<>> => ~fetchStatus'[devQueue'[1]]
  BY AttemptPackets
<1>2. ~InQueue(NoPacket, devQueue')
  BY NoPacketNotQueued
<1>3. ~InQueue(currentPkt', devQueue')
  BY <1>1, <1>2
<1>4. ASSUME NEW p \in Packets, InQueue(p, devQueue') \/ currentPkt' = p
      PROVE  status'[p] \in {"asked", "fetched"}
  <2>1. p # NoPacket
    BY PortAssumption
  <2> QED BY <1>1, <1>4, <2>1
<1> QED BY <1>1, <1>3, <1>4 DEF DeviceInv, Holds, Distinct, InQueue

LEMMA DeviceInvInit == Init => DeviceInv
<1> SUFFICES ASSUME Init PROVE DeviceInv
  OBVIOUS
<1>1. devQueue = <<>> /\ currentPkt = NoPacket
  BY DEF Init
<1>2. \A p \in Packets : status[p] = "out" /\ p # NoPacket
  BY PortAssumption DEF Init, PacketBufferInit
<1>3. \A p : ~InQueue(p, devQueue)
  BY <1>1 DEF InQueue
<1>4. Distinct(devQueue)
  BY <1>1 DEF Distinct
<1> QED BY <1>1, <1>2, <1>3, <1>4 DEF DeviceInv, Holds

(***************************************************************************)
(* A step that leaves the device alone, and the packets in it.             *)
(***************************************************************************)
LEMMA DeviceInvUntouched ==
  ASSUME DeviceInv, PortTypes, UNCHANGED <<devQueue, currentPkt>>,
         \A p \in Packets : Holds(p) => status'[p] = status[p] /\ fetchStatus'[p] = fetchStatus[p],
         \A p \in Packets : status'[p] = "fetched" => fetchStatus'[p]
  PROVE  DeviceInv'
<1>1. /\ Distinct(devQueue) /\ ~InQueue(currentPkt, devQueue)
      /\ \A p \in Packets : Holds(p) => status[p] \in {"asked", "fetched"}
      /\ currentPkt = NoPacket /\ devQueue # <<>> => ~fetchStatus[devQueue[1]]
  BY Zenon DEF DeviceInv
<1>2. \A p \in Packets : Holds(p)' => Holds(p)
  BY DEF Holds, InQueue
<1>3. ASSUME currentPkt' = NoPacket, devQueue' # <<>> PROVE ~fetchStatus'[devQueue'[1]]
  <2>1. devQueue \in Seq(Packets) /\ devQueue # <<>> /\ devQueue' = devQueue
    BY <1>3 DEF PortTypes
  <2>2. devQueue[1] \in Packets /\ InQueue(devQueue[1], devQueue)
    BY <2>1, TailFacts
  <2>3. fetchStatus'[devQueue[1]] = fetchStatus[devQueue[1]]
    BY <2>2 DEF Holds
  <2>4. ~fetchStatus[devQueue[1]]
    BY <1>1, <1>3, <2>1
  <2> QED BY <2>1, <2>3, <2>4
<1>4. Distinct(devQueue)' /\ ~InQueue(currentPkt, devQueue)'
  BY <1>1 DEF Distinct, InQueue
<1>5. \A p \in Packets : Holds(p)' => status'[p] \in {"asked", "fetched"}
  BY <1>1, <1>2
<1> QED BY <1>3, <1>4, <1>5 DEF DeviceInv


LEMMA DeviceInvKept == PortTypes /\ DeviceInv /\ [Next]_portVars => DeviceInv'
<1> SUFFICES ASSUME PortTypes, DeviceInv, [Next]_portVars PROVE DeviceInv'
  OBVIOUS
<1>1. /\ Distinct(devQueue) /\ ~InQueue(currentPkt, devQueue)
      /\ \A p \in Packets : Holds(p) => status[p] \in {"asked", "fetched"}
      /\ \A p \in Packets : status[p] = "fetched" => fetchStatus[p]
  BY DEF DeviceInv
<1>2. /\ qdisc \in [Queues -> Seq(Packets)]
      /\ devQueue \in Seq(Packets) /\ stopped \in BOOLEAN /\ wake \in BOOLEAN
      /\ currentPkt \in Packets \cup {NoPacket}
  BY DEF PortTypes
<1>3. devQueue' \in Seq(Packets)
  BY PortTypesKept DEF PortTypes
<1>4. ASSUME UNCHANGED <<status, fetchStatus, devQueue, currentPkt>> PROVE DeviceInv'
  BY <1>1, <1>4, DeviceInvUntouched
<1>5. ASSUME NEW p \in Packets, Arrive(p) PROVE DeviceInv'
  <2>1. /\ status[p] = "out" /\ status'[p] = "held"
        /\ \A q \in Packets : q # p => status'[q] = status[q] /\ fetchStatus'[q] = fetchStatus[q]
    BY <1>5, ArrivalSets
  <2>2. UNCHANGED <<devQueue, currentPkt>>
    BY <1>5 DEF Arrive, deviceVars
  <2>3. ~Holds(p)
    BY <1>1, <2>1
  <2> QED BY <1>1, <2>1, <2>2, <2>3, DeviceInvUntouched
<1>6. ASSUME NEW q \in Queues, Restart(q) PROVE DeviceInv'
  <2> DEFINE p == qdisc[q][1]
  <2>1. qdisc[q] \in Seq(Packets) /\ qdisc[q] # <<>> /\ Send(p)
    BY <1>2, <1>6 DEF Restart
  <2>2. p \in Packets
    BY <2>1
  <2>3. ASSUME Dropped(p) PROVE DeviceInv'
    BY <1>4, <2>3 DEF Dropped
  <2>4. ASSUME SendToDevice(p) PROVE DeviceInv'
    <3> DEFINE queue == Append(devQueue, p)
               stop == stopped \/ WouldOverflow(queue)
    <3>1. Fetch(p) /\ AttemptTransmission(queue, stop, currentPkt)
      BY <2>4 DEF SendToDevice
    <3>2. /\ status[p] = "held"
          /\ \/ status'[p] = "fetched" /\ fetchStatus'[p]
             \/ status'[p] = "asked" /\ fetchStatus'[p] = fetchStatus[p]
          /\ \A r \in Packets : r # p => status'[r] = status[r] /\ fetchStatus'[r] = fetchStatus[r]
      BY <2>2, <3>1, FetchSets
    <3>3. ~InQueue(p, devQueue) /\ currentPkt # p
      BY <1>1, <2>2, <3>2 DEF Holds
    <3>4. /\ queue \in Seq(Packets) /\ Distinct(queue)
          /\ \A r : InQueue(r, queue) => r = p \/ InQueue(r, devQueue)
      BY <1>1, <1>2, <2>2, <3>3, AppendFacts
    <3> HIDE DEF queue, stop
    <3>5. ~InQueue(currentPkt, queue)
      BY <1>1, <3>3, <3>4
    <3>6. \A r \in Packets : InQueue(r, queue) \/ currentPkt = r => status'[r] \in {"asked", "fetched"}
      BY <1>1, <3>2, <3>3, <3>4 DEF Holds
    <3>7. \A r \in Packets : status'[r] = "fetched" => fetchStatus'[r]
      BY <1>1, <3>2
    <3> QED BY <1>2, <1>3, <3>1, <3>4, <3>5, <3>6, <3>7, AttemptKeepsDeviceInv
  <2> QED BY <2>1, <2>3, <2>4, SendCases
<1>7. ASSUME RunEnd PROVE DeviceInv'
  BY <1>4, <1>7 DEF RunEnd, mmuVars, bufferVars, deviceVars
<1>8. ASSUME WakeRun PROVE DeviceInv'
  <2>1. UNCHANGED <<status, fetchStatus, devQueue, currentPkt>>
    BY <1>8 DEF WakeRun, mmuVars, bufferVars
  <2> QED BY <1>4, <2>1
<1>9. ASSUME NEW p \in Packets, FetchCompletes(p) PROVE DeviceInv'
  <2>1. FetchComplete(p) /\ AttemptTransmission(devQueue, stopped, currentPkt)
    BY <1>9 DEF FetchCompletes, HandleRequest
  <2>2. /\ status[p] = "asked"
        /\ status'[p] = IF InDevice(p) THEN "fetched" ELSE "out"
        /\ fetchStatus'[p]
        /\ \A q \in Packets : q # p => status'[q] = status[q] /\ fetchStatus'[q] = fetchStatus[q]
    BY <2>1, CompletionSets
  <2>3. Holds(p) => InDevice(p)
    BY <1>2 DEF Holds, InDevice, InQueue, Contains
  <2>4. \A q \in Packets : InQueue(q, devQueue) \/ currentPkt = q => status'[q] \in {"asked", "fetched"}
    BY <1>1, <2>2, <2>3 DEF Holds
  <2>5. \A q \in Packets : status'[q] = "fetched" => fetchStatus'[q]
    BY <1>1, <2>2
  <2> QED BY <1>1, <1>2, <1>3, <2>1, <2>4, <2>5, AttemptKeepsDeviceInv
<1>10. ASSUME TransmitComplete PROVE DeviceInv'
  <2>1. /\ ReleaseSent(currentPkt) /\ AttemptTransmission(devQueue, stopped, NoPacket)
        /\ currentPkt # NoPacket /\ fetchStatus' = fetchStatus
    BY <1>10 DEF TransmitComplete
  <2>2. currentPkt \in Packets
    BY <1>2, <2>1
  <2>3. /\ status'[currentPkt] = IF status[currentPkt] = "fetched" THEN "out" ELSE status[currentPkt]
        /\ \A q \in Packets : q # currentPkt => status'[q] = status[q]
    BY <2>1, <2>2, ReleaseSets
  <2>4. \A q \in Packets : InQueue(q, devQueue) \/ NoPacket = q => status'[q] \in {"asked", "fetched"}
    BY <1>1, <2>3, PortAssumption DEF Holds
  <2>5. \A q \in Packets : status'[q] = "fetched" => fetchStatus'[q]
    BY <1>1, <2>1, <2>2, <2>3
  <2>6. ~InQueue(NoPacket, devQueue)
    BY <1>2, NoPacketNotQueued
  <2> QED BY <1>1, <1>2, <1>3, <2>1, <2>4, <2>5, <2>6, AttemptKeepsDeviceInv
<1>11. ASSUME LinkDown PROVE DeviceInv'
  BY <1>4, <1>11 DEF LinkDown, mmuVars, bufferVars, deviceVars
<1>12. CASE UNCHANGED portVars
  BY <1>4, <1>12 DEF portVars, mmuVars, bufferVars, deviceVars
<1> QED BY <1>5, <1>6, <1>7, <1>8, <1>9, <1>10, <1>11, <1>12 DEF Next

(***************************************************************************)
(* However early or late the MMU fetches, and whatever the fetch status of *)
(* a packet holds before that, an idle device has no fetched packet at the *)
(* head of its queue: the device always takes up its work again (Send,     *)
(* HandleRequest and TransmitComplete of PointToPointReorderNetDevice).    *)
(***************************************************************************)
THEOREM DeviceDoesNotStall == Spec => []NoStall
<1>1. Init => PortTypes /\ DeviceInv
  BY PortInitTypes, DeviceInvInit
<1>2. PortTypes /\ DeviceInv /\ [Next]_portVars => (PortTypes /\ DeviceInv)'
  BY PortTypesKept, DeviceInvKept
<1>3. PortTypes /\ DeviceInv => NoStall
  <2> SUFFICES ASSUME PortTypes, DeviceInv, currentPkt = NoPacket, devQueue # <<>>
               PROVE  status[devQueue[1]] # "fetched"
    BY DEF NoStall
  <2>1. devQueue[1] \in Packets
    BY TailFacts DEF PortTypes
  <2>2. /\ ~fetchStatus[devQueue[1]]
        /\ \A p \in Packets : status[p] = "fetched" => fetchStatus[p]
    BY DEF DeviceInv
  <2> QED BY <2>1, <2>2
<1> QED BY <1>1, <1>2, <1>3, PTL DEF Spec

-----------------------------------------------------------------------------
(***************************************************************************)
(* What is sent is fetched, if fetch statuses start unset.                 *)
(***************************************************************************)
SentInv ==
  /\ \A p \in Packets : fetchStatus[p] => status[p] \notin {"held", "asked"}
  /\ currentPkt # NoPacket => status[currentPkt] = "fetched"


(***************************************************************************)
(* An attempt to transmit keeps SentInv, if the packet sent before is      *)
(* still fetched.                                                          *)
(***************************************************************************)
LEMMA AttemptKeepsSentInv ==
  ASSUME NEW queue \in Seq(Packets), NEW stop, NEW sending \in Packets \cup {NoPacket},
         Distinct(queue), ~InQueue(sending, queue),
         sending # NoPacket => status'[sending] = "fetched",
         \A p \in Packets : fetchStatus'[p] => status'[p] \notin {"held", "asked"},
         AttemptTransmission(queue, stop, sending),
         DeviceInv', currentPkt' \in Packets \cup {NoPacket}
  PROVE  SentInv'
<1>1. \/ currentPkt' = sending
      \/ sending = NoPacket /\ InQueue(currentPkt', queue) /\ fetchStatus'[currentPkt']
  BY AttemptPackets
<1>2. ASSUME currentPkt' # NoPacket PROVE status'[currentPkt'] = "fetched"
  <2>1. CASE currentPkt' = sending
    BY <1>2, <2>1
  <2>2. CASE fetchStatus'[currentPkt']
    <3>1. currentPkt' \in Packets /\ Holds(currentPkt)'
      BY <1>2 DEF Holds
    <3>2. status'[currentPkt'] \in {"asked", "fetched"}
      BY <3>1 DEF DeviceInv, Holds
    <3> QED BY <2>2, <3>1, <3>2
  <2> QED BY <1>1, <2>1, <2>2
<1> QED BY <1>2 DEF SentInv

LEMMA SentInvKept ==
  ASSUME FreshFlags = {FALSE}
  PROVE  PortTypes /\ DeviceInv /\ SentInv /\ [Next]_portVars => SentInv'
<1> SUFFICES ASSUME PortTypes, DeviceInv, SentInv, [Next]_portVars PROVE SentInv'
  OBVIOUS
<1>1. /\ Distinct(devQueue) /\ ~InQueue(currentPkt, devQueue)
      /\ \A p \in Packets : Holds(p) => status[p] \in {"asked", "fetched"}
  BY DEF DeviceInv
<1>2. /\ \A p \in Packets : fetchStatus[p] => status[p] \notin {"held", "asked"}
      /\ currentPkt # NoPacket => status[currentPkt] = "fetched"
  BY DEF SentInv
<1>3. /\ qdisc \in [Queues -> Seq(Packets)]
      /\ devQueue \in Seq(Packets) /\ stopped \in BOOLEAN /\ wake \in BOOLEAN
      /\ currentPkt \in Packets \cup {NoPacket}
  BY DEF PortTypes
<1>4. DeviceInv' /\ currentPkt' \in Packets \cup {NoPacket}
  BY PortTypesKept, DeviceInvKept DEF PortTypes
<1>5. ASSUME UNCHANGED <<status, fetchStatus, currentPkt>> PROVE SentInv'
  BY <1>2, <1>5 DEF SentInv
<1>6. ASSUME NEW p \in Packets, Arrive(p) PROVE SentInv'
  <2>1. /\ status[p] = "out" /\ status'[p] = "held" /\ fetchStatus'[p] = FALSE
        /\ \A q \in Packets : q # p => status'[q] = status[q] /\ fetchStatus'[q] = fetchStatus[q]
    BY <1>6, ArrivalSets
  <2>2. currentPkt' = currentPkt
    BY <1>6 DEF Arrive, deviceVars
  <2>3. \A q \in Packets : fetchStatus'[q] => status'[q] \notin {"held", "asked"}
    BY <1>2, <2>1
  <2>4. currentPkt # NoPacket => currentPkt # p
    BY <1>2, <2>1
  <2> QED BY <1>2, <1>3, <2>1, <2>2, <2>3, <2>4 DEF SentInv
<1>7. ASSUME NEW q \in Queues, Restart(q) PROVE SentInv'
  <2> DEFINE p == qdisc[q][1]
  <2>1. qdisc[q] \in Seq(Packets) /\ qdisc[q] # <<>> /\ Send(p)
    BY <1>3, <1>7 DEF Restart
  <2>2. p \in Packets
    BY <2>1
  <2>3. ASSUME Dropped(p) PROVE SentInv'
    BY <1>5, <2>3 DEF Dropped
  <2>4. ASSUME SendToDevice(p) PROVE SentInv'
    <3> DEFINE queue == Append(devQueue, p)
               stop == stopped \/ WouldOverflow(queue)
    <3>1. Fetch(p) /\ AttemptTransmission(queue, stop, currentPkt)
      BY <2>4 DEF SendToDevice
    <3>2. /\ status[p] = "held"
          /\ \/ status'[p] = "fetched" /\ fetchStatus'[p]
             \/ status'[p] = "asked" /\ fetchStatus'[p] = fetchStatus[p]
          /\ \A r \in Packets : r # p => status'[r] = status[r] /\ fetchStatus'[r] = fetchStatus[r]
      BY <2>2, <3>1, FetchSets
    <3>3. ~InQueue(p, devQueue) /\ currentPkt # p
      BY <1>1, <2>2, <3>2 DEF Holds
    <3>4. /\ queue \in Seq(Packets) /\ Distinct(queue)
          /\ \A r : InQueue(r, queue) => r = p \/ InQueue(r, devQueue)
      BY <1>1, <1>3, <2>2, <3>3, AppendFacts
    <3> HIDE DEF queue, stop
    <3>5. ~InQueue(currentPkt, queue)
      BY <1>1, <3>3, <3>4
    <3>6. currentPkt # NoPacket => status'[currentPkt] = "fetched"
      BY <1>2, <1>3, <3>2, <3>3
    <3>7. \A r \in Packets : fetchStatus'[r] => status'[r] \notin {"held", "asked"}
      BY <1>2, <2>2, <3>2
    <3> QED BY <1>3, <1>4, <3>1, <3>4, <3>5, <3>6, <3>7, AttemptKeepsSentInv
  <2> QED BY <2>1, <2>3, <2>4, SendCases
<1>8. ASSUME RunEnd PROVE SentInv'
  BY <1>5, <1>8 DEF RunEnd, mmuVars, bufferVars, deviceVars
<1>9. ASSUME WakeRun PROVE SentInv'
  <2>1. UNCHANGED <<status, fetchStatus, currentPkt>>
    BY <1>9 DEF WakeRun, mmuVars, bufferVars
  <2> QED BY <1>5, <2>1
<1>10. ASSUME NEW p \in Packets, FetchCompletes(p) PROVE SentInv'
  <2>1. FetchComplete(p) /\ AttemptTransmission(devQueue, stopped, currentPkt)
    BY <1>10 DEF FetchCompletes, HandleRequest
  <2>2. /\ status[p] = "asked"
        /\ status'[p] = IF InDevice(p) THEN "fetched" ELSE "out"
        /\ \A q \in Packets : q # p => status'[q] = status[q] /\ fetchStatus'[q] = fetchStatus[q]
    BY <2>1, CompletionSets
  <2>3. \A q \in Packets : fetchStatus'[q] => status'[q] \notin {"held", "asked"}
    BY <1>2, <2>2
  <2>4. currentPkt # NoPacket => status'[currentPkt] = "fetched"
    BY <1>2, <1>3, <2>2
  <2> QED BY <1>1, <1>3, <1>4, <2>1, <2>3, <2>4, AttemptKeepsSentInv
<1>11. ASSUME TransmitComplete PROVE SentInv'
  <2>1. /\ ReleaseSent(currentPkt) /\ AttemptTransmission(devQueue, stopped, NoPacket)
        /\ currentPkt # NoPacket /\ fetchStatus' = fetchStatus
    BY <1>11 DEF TransmitComplete
  <2>2. currentPkt \in Packets
    BY <1>3, <2>1
  <2>3. /\ status'[currentPkt] = "out"
        /\ \A q \in Packets : q # currentPkt => status'[q] = status[q]
    BY <1>2, <2>1, <2>2, ReleaseSets
  <2>4. \A q \in Packets : fetchStatus'[q] => status'[q] \notin {"held", "asked"}
    BY <1>2, <2>1, <2>3
  <2>5. ~InQueue(NoPacket, devQueue)
    BY <1>3, NoPacketNotQueued
  <2> QED BY <1>1, <1>3, <1>4, <2>1, <2>4, <2>5, AttemptKeepsSentInv
<1>12. ASSUME LinkDown PROVE SentInv'
  BY <1>5, <1>12 DEF LinkDown, mmuVars, bufferVars, deviceVars
<1>13. CASE UNCHANGED portVars
  BY <1>5, <1>13 DEF portVars, mmuVars, bufferVars, deviceVars
<1> QED BY <1>6, <1>7, <1>8, <1>9, <1>10, <1>11, <1>12, <1>13 DEF Next

(***************************************************************************)
(* If the fetch status of a packet is unset until the MMU sets it, the     *)
(* device sends no packet that is still in DRAM: its queue waits behind a  *)
(* packet that is not fetched (AttemptTransmission).  The run              *)
(* port_unfetched shows what happens without the hypothesis.               *)
(***************************************************************************)
THEOREM OnlyFetchedIsSent ==
  ASSUME FreshFlags = {FALSE}
  PROVE  Spec => []SentIsFetched
<1>1. Init => PortTypes /\ DeviceInv /\ SentInv
  <2>1. Init => SentInv
    BY DEF Init, PacketBufferInit, SentInv
  <2> QED BY <2>1, PortInitTypes, DeviceInvInit
<1>2. PortTypes /\ DeviceInv /\ SentInv /\ [Next]_portVars => (PortTypes /\ DeviceInv /\ SentInv)'
  BY PortTypesKept, DeviceInvKept, SentInvKept
<1>3. SentInv => SentIsFetched
  BY DEF SentInv, SentIsFetched
<1> QED BY <1>1, <1>2, <1>3, PTL DEF Spec


-----------------------------------------------------------------------------
(***************************************************************************)
(* The signals.  A queue is stopped exactly while it is full, and a run    *)
(* uses up its quota only by filling the device.                           *)
(***************************************************************************)
SignalInv ==
  /\ linkUp
  /\ stopped => Full(devQueue)
  /\ ~stopped => ~Full(devQueue)
  /\ quotaLeft = 0 /\ ~NoneQueued(qdisc) => stopped \/ wake
  /\ quotaLeft # 0 => Len(devQueue) + Busy(currentPkt) + quotaLeft >= Quota

LEMMA SignalInvInit == Init => SignalInv
<1> SUFFICES ASSUME Init PROVE SignalInv
  OBVIOUS
<1>1. linkUp /\ ~stopped
  BY Zenon DEF Init
<1>2. ~Full(devQueue)
  BY PortAssumption DEF Init, Full
<1>3. quotaLeft = 0 /\ NoneQueued(qdisc)
  BY DEF Init, NoneQueued
<1> QED BY <1>1, <1>2, <1>3 DEF SignalInv

(***************************************************************************)
(* A step of the device, while the disc does not run, keeps SignalInv.     *)
(***************************************************************************)
LEMMA DeviceStepKeepsSignalInv ==
  ASSUME DevUnit = "PACKETS", PortTypes, SignalInv,
         NEW sending \in Packets \cup {NoPacket},
         AttemptTransmission(devQueue, stopped, sending),
         quotaLeft = 0, UNCHANGED <<qdisc, quotaLeft, linkUp>>
  PROVE  SignalInv'
<1>1. devQueue \in Seq(Packets) /\ stopped \in BOOLEAN /\ wake \in BOOLEAN
  BY DEF PortTypes
<1>2. /\ linkUp /\ (stopped => Full(devQueue)) /\ (~stopped => ~Full(devQueue))
      /\ NoneQueued(qdisc) \/ stopped \/ wake
  BY DEF SignalInv
<1>3. /\ stopped => stopped' \/ wake'
      /\ wake => wake'
      /\ stopped' => Full(devQueue')
      /\ ~stopped' => ~Full(devQueue')
  BY <1>1, <1>2, AttemptSignals
<1>4. NoneQueued(qdisc') <=> NoneQueued(qdisc)
  OBVIOUS
<1>5. linkUp' /\ quotaLeft' = 0
  BY <1>2
<1>6. NoneQueued(qdisc') \/ stopped' \/ wake'
  BY <1>2, <1>3, <1>4
<1>7. Full(devQueue)' <=> Full(devQueue')
  BY DEF Full
<1>8. NoneQueued(qdisc)' <=> NoneQueued(qdisc')
  BY DEF NoneQueued
<1> QED BY <1>3, <1>5, <1>6, <1>7, <1>8 DEF SignalInv

LEMMA SignalInvKept ==
  ASSUME DevUnit = "PACKETS", Quota > DevLimit, LinkMayFail = FALSE
  PROVE  PortTypes /\ SignalInv /\ [Next]_portVars => SignalInv'
<1> SUFFICES ASSUME PortTypes, SignalInv, [Next]_portVars PROVE SignalInv'
  OBVIOUS
<1>1. /\ qdisc \in [Queues -> Seq(Packets)] /\ quotaLeft \in 0 .. Quota
      /\ devQueue \in Seq(Packets) /\ stopped \in BOOLEAN /\ wake \in BOOLEAN
      /\ currentPkt \in Packets \cup {NoPacket}
      /\ Quota \in Nat /\ Quota > 0 /\ DevLimit \in Nat
  BY PortAssumption DEF PortTypes
<1>2. /\ linkUp /\ (stopped => Full(devQueue)) /\ (~stopped => ~Full(devQueue))
      /\ quotaLeft = 0 /\ ~NoneQueued(qdisc) => stopped \/ wake
      /\ quotaLeft # 0 => Len(devQueue) + Busy(currentPkt) + quotaLeft >= Quota
  BY DEF SignalInv
<1>3. Len(devQueue) \in Nat /\ Busy(currentPkt) \in 0 .. 1
  BY <1>1 DEF Busy
<1>4. ASSUME quotaLeft' = Quota, UNCHANGED <<devQueue, stopped, currentPkt, linkUp>>
      PROVE  SignalInv'
  <2>1. Len(devQueue') + Busy(currentPkt') + quotaLeft' >= Quota /\ quotaLeft' # 0
    BY <1>1, <1>3, <1>4
  <2>2. Full(devQueue)' <=> Full(devQueue)
    BY <1>4 DEF Full
  <2>3. Busy(currentPkt)' = Busy(currentPkt')
    BY DEF Busy
  <2> QED BY <1>2, <1>4, <2>1, <2>2, <2>3 DEF SignalInv
<1>5. ASSUME NEW p \in Packets, Arrive(p) PROVE SignalInv'
  BY <1>4, <1>5 DEF Arrive, deviceVars
<1>6. ASSUME NEW q \in Queues, Restart(q) PROVE SignalInv'
  <2> DEFINE p == qdisc[q][1]
             queue == Append(devQueue, p)
             stop == stopped \/ WouldOverflow(queue)
  <2>1. /\ qdisc[q] \in Seq(Packets) /\ qdisc[q] # <<>> /\ Send(p)
        /\ quotaLeft # 0 /\ ~stopped /\ linkUp' = linkUp
    BY <1>1, <1>6 DEF Restart
  <2>2. p \in Packets
    BY <2>1
  <2>3. ~Full(devQueue) /\ ~HasNoRoomFor(p)
    BY <1>2, <2>1, FullInPackets
  <2>4. Fetch(p) /\ AttemptTransmission(queue, stop, currentPkt)
    <3>1. SendToDevice(p)
      BY <1>2, <2>1, <2>3, SendCases
    <3> QED BY <3>1 DEF SendToDevice
  <2>5. queue \in Seq(Packets) /\ Len(queue) = Len(devQueue) + 1
    BY <1>1, <2>2, AppendFacts
  <2>6. stop \in BOOLEAN
    BY Zenon
  <2>7. stop <=> Full(queue)
    BY <2>1, FullInPackets
  <2> HIDE DEF queue, stop
  <2>8. /\ stopped' => Full(devQueue')
        /\ ~stopped' => ~Full(devQueue')
        /\ Len(devQueue') + Busy(currentPkt') = Len(devQueue) + 1 + Busy(currentPkt)
    BY <1>1, <2>4, <2>5, <2>6, <2>7, AttemptSignals
  <2>9. devQueue' \in Seq(Packets) /\ currentPkt' \in Packets \cup {NoPacket}
    BY <1>1, <2>4, <2>5, <2>6, AttemptTypes
  <2>10. Len(devQueue') \in Nat /\ Busy(currentPkt') \in 0 .. 1
    BY <2>9 DEF Busy
  <2>11. /\ Full(devQueue)' <=> Full(devQueue')
         /\ NoneQueued(qdisc)' <=> NoneQueued(qdisc')
         /\ Busy(currentPkt)' = Busy(currentPkt')
    BY DEF Full, NoneQueued, Busy
  <2>12. CASE NoneQueued(qdisc') \/ stopped'
    <3>1. quotaLeft' = 0
      BY <1>6, <2>12 DEF Restart
    <3> QED BY <1>2, <2>1, <2>8, <2>11, <2>12, <3>1 DEF SignalInv
  <2>13. CASE ~NoneQueued(qdisc') /\ ~stopped'
    <3>1. quotaLeft' = quotaLeft - 1
      BY <1>6, <2>13 DEF Restart
    <3>2. Len(devQueue') + Busy(currentPkt') + quotaLeft' >= Quota
      BY <1>1, <1>2, <1>3, <2>1, <2>8, <2>10, <3>1
    <3>3. Len(devQueue') + 1 <= DevLimit
      BY <1>1, <2>8, <2>10, <2>13 DEF Full
    <3>4. quotaLeft' # 0
      BY <1>1, <2>10, <3>1, <3>2, <3>3
    <3> QED BY <1>2, <2>1, <2>8, <2>11, <3>2, <3>4 DEF SignalInv
  <2> QED BY <2>12, <2>13
<1>7. ASSUME RunEnd PROVE SignalInv'
  <2>1. /\ stopped \/ NoneQueued(qdisc)
        /\ quotaLeft' = 0
        /\ UNCHANGED <<qdisc, devQueue, stopped, wake, currentPkt, linkUp>>
    BY <1>7 DEF RunEnd, deviceVars
  <2>2. (NoneQueued(qdisc)' <=> NoneQueued(qdisc)) /\ (Full(devQueue)' <=> Full(devQueue))
    BY <2>1 DEF NoneQueued, Full
  <2> QED BY <1>2, <2>1, <2>2 DEF SignalInv
<1>8. ASSUME WakeRun PROVE SignalInv'
  <2>1. quotaLeft' = Quota /\ UNCHANGED <<devQueue, stopped, currentPkt, linkUp>>
    BY <1>8 DEF WakeRun
  <2> QED BY <1>4, <2>1
<1>9. ASSUME NEW p \in Packets, FetchCompletes(p) PROVE SignalInv'
  <2>1. /\ AttemptTransmission(devQueue, stopped, currentPkt) /\ quotaLeft = 0
        /\ UNCHANGED <<qdisc, quotaLeft, linkUp>>
    BY <1>9 DEF FetchCompletes, HandleRequest, discVars
  <2> QED BY <1>1, <2>1, DeviceStepKeepsSignalInv
<1>10. ASSUME TransmitComplete PROVE SignalInv'
  <2>1. /\ AttemptTransmission(devQueue, stopped, NoPacket) /\ quotaLeft = 0
        /\ UNCHANGED <<qdisc, quotaLeft, linkUp>>
    BY <1>10 DEF TransmitComplete, discVars
  <2> QED BY <2>1, DeviceStepKeepsSignalInv
<1>11. ASSUME LinkDown PROVE SignalInv'
  BY <1>11, Zenon DEF LinkDown
<1>12. CASE UNCHANGED portVars
  <2>1. UNCHANGED <<qdisc, quotaLeft, devQueue, stopped, wake, currentPkt, linkUp>>
    BY <1>12 DEF portVars, discVars, deviceVars
  <2>2. /\ NoneQueued(qdisc)' <=> NoneQueued(qdisc)
        /\ Full(devQueue)' <=> Full(devQueue)
        /\ Busy(currentPkt)' = Busy(currentPkt)
    BY <2>1 DEF NoneQueued, Full, Busy
  <2> QED BY <1>2, <2>1, <2>2 DEF SignalInv
<1> QED BY <1>5, <1>6, <1>7, <1>8, <1>9, <1>10, <1>11, <1>12 DEF Next

(***************************************************************************)
(* With a device queue limited in packets and a quota above its limit, no  *)
(* packet stays behind in the queue disc, for any number of packets and    *)
(* queues: a run ends only with nothing left, or with a full device queue  *)
(* that is stopped, and the departure that makes room wakes the disc       *)
(* (QueueDisc::Run, NetDeviceQueue::Stop and Wake).  With no larger a      *)
(* quota packets would: a run that uses it up is not scheduled again       *)
(* (queue-disc.cc:964).                                                    *)
(***************************************************************************)
THEOREM WakeupsReachTheDisc ==
  ASSUME DevUnit = "PACKETS", Quota > DevLimit, LinkMayFail = FALSE
  PROVE  Spec => []NoLostWakeup
<1>1. Init => PortTypes /\ SignalInv
  BY PortInitTypes, SignalInvInit
<1>2. PortTypes /\ SignalInv /\ [Next]_portVars => (PortTypes /\ SignalInv)'
  BY PortTypesKept, SignalInvKept
<1>3. PortTypes /\ SignalInv => NoLostWakeup
  <2> SUFFICES ASSUME PortTypes, SignalInv PROVE NoLostWakeup
    OBVIOUS
  <2>1. stopped => devQueue # <<>>
    <3>1. ~Full(<<>>)
      BY PortAssumption DEF Full
    <3> QED BY <3>1 DEF SignalInv
  <2>2. quotaLeft = 0 /\ ~NoneQueued(qdisc) => stopped \/ wake
    BY DEF SignalInv
  <2> QED BY <2>1, <2>2 DEF NoLostWakeup
<1> QED BY <1>1, <1>2, <1>3, PTL DEF Spec

-----------------------------------------------------------------------------
(***************************************************************************)
(* The charges.  What a step does to the MMU is one of the steps of        *)
(* PacketBuffer, or nothing, or Complete and Release at once, for a packet *)
(* that was sent before it was fetched.                                    *)
(***************************************************************************)
LEMMA StepsOfTheBuffer ==
  ASSUME PortTypes, [Next]_portVars
  PROVE  \/ UNCHANGED bufferVars
         \/ \E p \in Packets : \/ Keep(p) \/ AskHit(p) \/ AskMiss(p)
                               \/ Complete(p) \/ Release(p) \/ CompleteAndRelease(p)
<1> DEFINE Moved == \E p \in Packets : \/ Keep(p) \/ AskHit(p) \/ AskMiss(p)
                                       \/ Complete(p) \/ Release(p) \/ CompleteAndRelease(p)
<1>1. ASSUME NEW p \in Packets, Arrive(p) PROVE Moved
  BY <1>1 DEF Arrive
<1>2. ASSUME NEW q \in Queues, Restart(q) PROVE UNCHANGED bufferVars \/ Moved
  <2>1. qdisc[q] \in Seq(Packets) /\ qdisc[q] # <<>> /\ Send(qdisc[q][1])
    BY <1>2 DEF PortTypes, Restart
  <2>2. qdisc[q][1] \in Packets
    BY <2>1
  <2>3. CASE SendToDevice(qdisc[q][1])
    BY <2>2, <2>3 DEF SendToDevice, Fetch
  <2>4. CASE SendOnDeadLink(qdisc[q][1]) \/ SendToFullQueue(qdisc[q][1])
    BY <2>4, Zenon DEF SendOnDeadLink, SendToFullQueue, Drop, mmuVars
  <2> QED BY <2>1, <2>3, <2>4 DEF Send
<1>3. ASSUME NEW p \in Packets, FetchCompletes(p) PROVE Moved
  BY <1>3 DEF FetchCompletes, HandleRequest, FetchComplete
<1>4. ASSUME TransmitComplete PROVE UNCHANGED bufferVars \/ Moved
  <2>1. ReleaseSent(currentPkt) /\ currentPkt \in Packets
    BY <1>4 DEF PortTypes, TransmitComplete
  <2> QED BY <2>1 DEF ReleaseSent
<1>5. ASSUME RunEnd \/ WakeRun \/ LinkDown \/ UNCHANGED portVars PROVE UNCHANGED bufferVars
  BY <1>5, Zenon DEF RunEnd, WakeRun, LinkDown, portVars, mmuVars
<1> HIDE DEF Moved
<1>6. UNCHANGED bufferVars \/ Moved
  BY <1>1, <1>2, <1>3, <1>4, <1>5 DEF Next
<1> QED BY <1>6 DEF Moved

(***************************************************************************)
(* The packets a queue is charged for, and the invariant.                  *)
(***************************************************************************)
Owed(q) == {p \in Packets : QueueOf[p] = q /\ status[p] \in {"held", "asked"}}

ChargeInv ==
  /\ charged \in [Queues -> Int]
  /\ \A q \in Queues : charged[q] = SumFunctionOnSet(Size, Owed(q))

LEMMA OwedIsFinite ==
  ASSUME NEW q
  PROVE  /\ IsFiniteSet(Owed(q))
         /\ \A p \in Owed(q) : Size[p] \in Nat
         /\ SumFunctionOnSet(Size, Owed(q)) \in Nat
<1>1. Owed(q) \subseteq Packets /\ IsFiniteSet(Packets)
  BY PacketBufferAssumption DEF Owed
<1>2. IsFiniteSet(Owed(q))
  BY <1>1, FS_Subset
<1>3. \A p \in Owed(q) : Size[p] \in Nat
  BY <1>1, PacketBufferAssumption
<1> QED BY <1>2, <1>3, SumNat

LEMMA ChargeInvInit == Init => ChargeInv
<1> SUFFICES ASSUME Init PROVE ChargeInv
  OBVIOUS
<1>1. charged = [q \in Queues |-> 0] /\ \A p \in Packets : status[p] = "out"
  BY DEF Init, PacketBufferInit
<1>2. \A q : Owed(q) = {}
  BY <1>1 DEF Owed
<1> QED BY <1>1, <1>2, SumEmpty DEF ChargeInv

(***************************************************************************)
(* A packet moves and its queue is charged, or discharged, for it.         *)
(***************************************************************************)
LEMMA ChargeFollows ==
  ASSUME PortTypes, ChargeInv, NEW p \in Packets, NEW from, NEW to \in Statuses,
         Moves(p, from, to), NEW bytes \in Int, Charge(p, bytes),
         \/ from \notin {"held", "asked"} /\ to \in {"held", "asked"} /\ bytes = Size[p]
         \/ from \in {"held", "asked"} /\ to \notin {"held", "asked"} /\ bytes = -Size[p]
  PROVE  ChargeInv'
<1>1. /\ status[p] = from /\ status'[p] = to
      /\ \A r \in Packets : r # p => status'[r] = status[r]
  BY StatusMoves
<1>2. /\ charged \in [Queues -> Int] /\ QueueOf[p] \in Queues
      /\ charged' = [charged EXCEPT ![QueueOf[p]] = @ + bytes]
  BY PacketBufferAssumption DEF ChargeInv, Charge
<1>3. /\ charged' \in [Queues -> Int]
      /\ charged'[QueueOf[p]] = charged[QueueOf[p]] + bytes
      /\ \A q \in Queues : q # QueueOf[p] => charged'[q] = charged[q]
  BY <1>2
<1>4. Size[p] \in Int
  BY PacketBufferAssumption
<1>5. ASSUME NEW q \in Queues PROVE charged'[q] = SumFunctionOnSet(Size, Owed(q)')
  <2> DEFINE before == Owed(q)
             after == Owed(q)'
  <2>1. charged[q] = SumFunctionOnSet(Size, before)
    BY DEF ChargeInv
  <2>2. IsFiniteSet(before) /\ \A r \in before : Size[r] \in Int
    BY OwedIsFinite
  <2>3. after \subseteq Packets
    BY DEF Owed
  <2>4. IsFiniteSet(after) /\ \A r \in after : Size[r] \in Int
    BY <2>3, FS_Subset, PacketBufferAssumption
  <2>5. CASE q # QueueOf[p]
    <3>1. after = before
      BY <1>1, <2>5 DEF Owed
    <3> QED BY <1>3, <2>1, <2>5, <3>1
  <2>6. CASE q = QueueOf[p] /\ to \in {"held", "asked"}
    <3>1. p \notin before /\ after = before \cup {p} /\ bytes = Size[p]
      BY <1>1, <2>6 DEF Owed
    <3> HIDE DEF before, after
    <3>2. SumFunctionOnSet(Size, after) = Size[p] + SumFunctionOnSet(Size, before)
      BY <1>4, <2>2, <3>1, SumAdd
    <3>3. SumFunctionOnSet(Size, before) \in Int
      BY <2>2, SumType
    <3>4. charged'[q] = charged[q] + Size[p]
      BY <1>3, <2>6, <3>1
    <3> QED BY <1>4, <2>1, <3>2, <3>3, <3>4 DEF after
  <2>7. CASE q = QueueOf[p] /\ to \notin {"held", "asked"}
    <3>1. p \in before /\ after = before \ {p} /\ bytes = -Size[p]
      BY <1>1, <2>7 DEF Owed
    <3> HIDE DEF before, after
    <3>2. SumFunctionOnSet(Size, before) = Size[p] + SumFunctionOnSet(Size, after)
      BY <2>2, <3>1, SumRemove
    <3>3. SumFunctionOnSet(Size, after) \in Int
      BY <2>4, SumType
    <3>4. charged'[q] = charged[q] - Size[p]
      BY <1>2, <1>3, <1>4, <2>7, <3>1
    <3> QED BY <1>4, <2>1, <3>2, <3>3, <3>4 DEF after
  <2> QED BY <2>5, <2>6, <2>7
<1> QED BY <1>3, <1>5 DEF ChargeInv, Owed

(***************************************************************************)
(* A packet moves and its queue stays charged, or stays discharged.        *)
(***************************************************************************)
LEMMA ChargeStays ==
  ASSUME PortTypes, ChargeInv, UNCHANGED charged,
         \A p \in Packets : status'[p] \in {"held", "asked"} <=> status[p] \in {"held", "asked"}
  PROVE  ChargeInv'
<1>1. \A q : Owed(q)' = Owed(q)
  BY DEF Owed
<1> QED BY <1>1 DEF ChargeInv

LEMMA ChargeInvKept == PortTypes /\ ChargeInv /\ [Next]_portVars => ChargeInv'
<1> SUFFICES ASSUME PortTypes, ChargeInv, [Next]_portVars PROVE ChargeInv'
  OBVIOUS
<1>1. \A p \in Packets : Size[p] \in Int /\ -Size[p] \in Int
  BY PacketBufferAssumption
<1>2. Statuses = {"out", "held", "asked", "fetched"}
  BY DEF Statuses
<1>3. ASSUME NEW p \in Packets, Keep(p) PROVE ChargeInv'
  <2>1. Moves(p, "out", "held") /\ Charge(p, Size[p])
    BY <1>3 DEF Keep
  <2> QED BY <1>1, <1>2, <2>1, ChargeFollows
<1>4. ASSUME NEW p \in Packets, NEW from \in {"held", "asked"}, NEW to \in {"fetched", "out"},
             Moves(p, from, to), Charge(p, -Size[p])
      PROVE  ChargeInv'
  BY <1>1, <1>2, <1>4, ChargeFollows
<1>5. ASSUME NEW p \in Packets, AskMiss(p) PROVE ChargeInv'
  <2>1. Moves(p, "held", "asked") /\ UNCHANGED charged
    BY <1>5 DEF AskMiss
  <2>2. status[p] = "held" /\ status'[p] = "asked" /\ \A r \in Packets : r # p => status'[r] = status[r]
    BY <1>2, <2>1, StatusMoves
  <2> QED BY <2>1, <2>2, ChargeStays
<1>6. ASSUME NEW p \in Packets, Release(p) PROVE ChargeInv'
  <2>1. Moves(p, "fetched", "out") /\ UNCHANGED charged
    BY <1>6 DEF Release
  <2>2. status[p] = "fetched" /\ status'[p] = "out" /\ \A r \in Packets : r # p => status'[r] = status[r]
    BY <1>2, <2>1, StatusMoves
  <2> QED BY <2>1, <2>2, ChargeStays
<1>7. ASSUME UNCHANGED bufferVars PROVE ChargeInv'
  <2>1. status' = status /\ charged' = charged
    BY <1>7 DEF bufferVars
  <2> QED BY <2>1, ChargeStays
<1>8. ASSUME NEW p \in Packets, AskHit(p) \/ Complete(p) \/ CompleteAndRelease(p) PROVE ChargeInv'
  BY <1>4, <1>8 DEF AskHit, Complete, CompleteAndRelease
<1> QED BY <1>3, <1>5, <1>6, <1>7, <1>8, StepsOfTheBuffer

(***************************************************************************)
(* The variables keep their types; that the charge of a queue never        *)
(* underflows is the part that needs the sum: what is taken off is always  *)
(* the size of a packet that is still charged.                             *)
(***************************************************************************)
THEOREM PortKeepsItsTypes == Spec => []PortTypeOK
<1>1. Init => PortTypes /\ ChargeInv
  BY PortInitTypes, ChargeInvInit
<1>2. PortTypes /\ ChargeInv /\ [Next]_portVars => (PortTypes /\ ChargeInv)'
  BY PortTypesKept, ChargeInvKept
<1>3. PortTypes /\ ChargeInv => PortTypeOK
  <2> SUFFICES ASSUME PortTypes, ChargeInv PROVE PortTypeOK
    OBVIOUS
  <2>1. charged \in [Queues -> Int] /\ \A q \in Queues : charged[q] \in Nat
    BY OwedIsFinite DEF ChargeInv
  <2>2. charged \in [Queues -> Nat]
    BY <2>1
  <2>3. PacketBufferTypeOK
    BY <2>2 DEF PortTypes, PacketBufferTypeOK
  <2> QED BY <2>3, Zenon DEF PortTypes, PortTypeOK
<1> QED BY <1>1, <1>2, <1>3, PTL DEF Spec

-----------------------------------------------------------------------------
(***************************************************************************)
(* Where the packets are.  How a queue grows at its end and shrinks at its *)
(* front, told by what is in it.                                           *)
(***************************************************************************)
LEMMA AppendHolds ==
  ASSUME NEW queue \in Seq(Packets), NEW p \in Packets
  PROVE  \A r : InQueue(r, Append(queue, p)) <=> r = p \/ InQueue(r, queue)
<1>1. /\ Len(Append(queue, p)) = Len(queue) + 1 /\ Len(queue) \in Nat
      /\ \A i \in 1 .. Len(queue) : Append(queue, p)[i] = queue[i]
      /\ Append(queue, p)[Len(queue) + 1] = p
  OBVIOUS
<1>2. ASSUME NEW r, InQueue(r, queue) PROVE InQueue(r, Append(queue, p))
  BY <1>1, <1>2 DEF InQueue
<1>3. InQueue(p, Append(queue, p))
  BY <1>1 DEF InQueue
<1> QED BY <1>2, <1>3, AppendFacts

LEMMA TailHolds ==
  ASSUME NEW queue \in Seq(Packets), queue # <<>>
  PROVE  \A r : InQueue(r, queue) <=> r = queue[1] \/ InQueue(r, Tail(queue))
<1>1. /\ Len(Tail(queue)) = Len(queue) - 1 /\ Len(queue) \in Nat /\ Len(queue) >= 1
      /\ \A i \in 1 .. Len(Tail(queue)) : Tail(queue)[i] = queue[i + 1]
  BY TailFacts
<1>2. ASSUME NEW r, InQueue(r, queue), r # queue[1] PROVE InQueue(r, Tail(queue))
  <2>1. PICK i \in 1 .. Len(queue) : queue[i] = r
    BY <1>2 DEF InQueue
  <2>2. i - 1 \in 1 .. Len(Tail(queue)) /\ Tail(queue)[i - 1] = r
    BY <1>1, <1>2, <2>1
  <2> QED BY <2>2 DEF InQueue
<1> QED BY <1>2, TailFacts

(***************************************************************************)
(* The packets in the queue disc, each once and in its own queue, are held *)
(* in the MMU; a packet that is held is there or is lost.                  *)
(***************************************************************************)
DiscInv ==
  /\ \A q \in Queues : Distinct(qdisc[q])
  /\ \A q \in Queues, p \in Packets :
       InQueue(p, qdisc[q]) => QueueOf[p] = q /\ status[p] = "held" /\ p \notin lost
  /\ \A p \in lost : status[p] = "held"
  /\ \A p \in Packets : status[p] = "held" => p \in lost \/ InQueue(p, qdisc[QueueOf[p]])

LEMMA DiscInvInit == Init => DiscInv
<1> SUFFICES ASSUME Init PROVE DiscInv
  OBVIOUS
<1>1. /\ \A q \in Queues : qdisc[q] = <<>>
      /\ \A p \in Packets : status[p] = "out"
      /\ lost = {}
  BY DEF Init, PacketBufferInit
<1>2. Distinct(<<>>) /\ \A p : ~InQueue(p, <<>>)
  BY DEF Distinct, InQueue
<1> QED BY <1>1, <1>2 DEF DiscInv

(***************************************************************************)
(* A step outside the disc that holds no packet more and none less.        *)
(***************************************************************************)
LEMMA DiscInvUntouched ==
  ASSUME DiscInv, UNCHANGED <<qdisc, lost>>, lost \subseteq Packets,
         \A p \in Packets : status'[p] = "held" <=> status[p] = "held"
  PROVE  DiscInv'
<1>1. /\ \A q \in Queues : Distinct(qdisc[q])'
      /\ \A p : \A q \in Queues : InQueue(p, qdisc[q])' <=> InQueue(p, qdisc[q])
      /\ \A p : InQueue(p, qdisc[QueueOf[p]])' <=> InQueue(p, qdisc[QueueOf[p]])
  BY DEF DiscInv, Distinct, InQueue
<1> QED BY <1>1 DEF DiscInv

LEMMA DiscInvArrive ==
  ASSUME PortTypes, DiscInv, NEW p \in Packets, Arrive(p)
  PROVE  DiscInv'
<1> DEFINE Q == QueueOf[p]
<1>1. /\ status[p] = "out" /\ status'[p] = "held" /\ p \notin lost
      /\ \A r \in Packets : r # p => status'[r] = status[r]
  BY ArrivalSets DEF Arrive
<1>2. /\ qdisc \in [Queues -> Seq(Packets)] /\ Q \in Queues /\ lost \subseteq Packets
  BY PacketBufferAssumption DEF PortTypes
<1>3. /\ \A q \in Queues : Distinct(qdisc[q])
      /\ \A q \in Queues, r \in Packets :
           InQueue(r, qdisc[q]) => QueueOf[r] = q /\ status[r] = "held" /\ r \notin lost
      /\ \A r \in lost : status[r] = "held"
      /\ \A r \in Packets : status[r] = "held" => r \in lost \/ InQueue(r, qdisc[QueueOf[r]])
  BY DEF DiscInv
<1>4. CASE qdisc' = [qdisc EXCEPT ![Q] = Append(@, p)] /\ lost' = lost
  <2>1. /\ qdisc'[Q] = Append(qdisc[Q], p)
        /\ \A q \in Queues : q # Q => qdisc'[q] = qdisc[q]
    BY <1>2, <1>4
  <2>2. qdisc[Q] \in Seq(Packets) /\ ~InQueue(p, qdisc[Q])
    BY <1>1, <1>2, <1>3
  <2>3. /\ Distinct(Append(qdisc[Q], p))
        /\ \A r : InQueue(r, Append(qdisc[Q], p)) <=> r = p \/ InQueue(r, qdisc[Q])
    BY <1>2, <1>3, <2>2, AppendFacts, AppendHolds
  <2> HIDE DEF Q
  <2>4. ASSUME NEW q \in Queues
        PROVE  /\ Distinct(qdisc'[q])
               /\ \A r \in Packets : InQueue(r, qdisc'[q]) <=> InQueue(r, qdisc[q]) \/ (r = p /\ q = Q)
    <3>1. CASE q = Q
      BY <2>1, <2>3, <3>1
    <3>2. CASE q # Q
      BY <1>3, <2>1, <3>2
    <3> QED BY <3>1, <3>2
  <2>5. ASSUME NEW q \in Queues, NEW r \in Packets, InQueue(r, qdisc'[q])
        PROVE  QueueOf[r] = q /\ status'[r] = "held" /\ r \notin lost'
    <3>1. CASE r = p
      <4>1. q = Q
        BY <1>1, <1>3, <2>4, <2>5, <3>1
      <4> QED BY <1>1, <1>4, <3>1, <4>1 DEF Q
    <3>2. CASE r # p
      BY <1>1, <1>3, <1>4, <2>4, <2>5, <3>2
    <3> QED BY <3>1, <3>2
  <2>6. \A r \in lost' : status'[r] = "held"
    BY <1>1, <1>2, <1>3, <1>4
  <2>7. ASSUME NEW r \in Packets, status'[r] = "held"
        PROVE  r \in lost' \/ InQueue(r, qdisc'[QueueOf[r]])
    <3>1. QueueOf[r] \in Queues
      BY PacketBufferAssumption
    <3>2. CASE r = p
      BY <2>4, <3>1, <3>2 DEF Q
    <3>3. CASE r # p
      BY <1>1, <1>3, <1>4, <2>4, <2>7, <3>1, <3>3
    <3> QED BY <3>2, <3>3
  <2> QED BY <2>4, <2>5, <2>6, <2>7 DEF DiscInv, InQueue, Distinct
<1>5. CASE qdisc' = qdisc /\ lost' = lost \cup {p}
  <2>1. \A q \in Queues : ~InQueue(p, qdisc[q])
    BY <1>1, <1>3
  <2>2. \A q \in Queues, r \in Packets :
           InQueue(r, qdisc'[q]) => QueueOf[r] = q /\ status'[r] = "held" /\ r \notin lost'
    BY <1>1, <1>3, <1>5, <2>1
  <2>3. \A r \in lost' : status'[r] = "held"
    BY <1>1, <1>2, <1>3, <1>5
  <2>4. \A r \in Packets : status'[r] = "held" => r \in lost' \/ InQueue(r, qdisc'[QueueOf[r]])
    BY <1>1, <1>3, <1>5
  <2>5. \A q \in Queues : Distinct(qdisc'[q])
    BY <1>3, <1>5
  <2> QED BY <2>2, <2>3, <2>4, <2>5 DEF DiscInv, InQueue, Distinct
<1> QED BY <1>4, <1>5 DEF Arrive

(***************************************************************************)
(* The packet taken from the disc is no longer held, or it is lost.        *)
(***************************************************************************)
LEMMA DiscInvTaken ==
  ASSUME PortTypes, DiscInv, NEW q \in Queues, qdisc[q] # <<>>,
         NEW p, p = qdisc[q][1],
         qdisc' = [qdisc EXCEPT ![q] = Tail(@)],
         \A r \in Packets : r # p => status'[r] = status[r],
         \/ lost' = lost \cup {p} /\ status'[p] = "held"
         \/ lost' = lost /\ status'[p] # "held"
  PROVE  DiscInv'
<1>1. /\ qdisc \in [Queues -> Seq(Packets)] /\ qdisc[q] \in Seq(Packets) /\ lost \subseteq Packets
  BY DEF PortTypes
<1>2. /\ \A w \in Queues : Distinct(qdisc[w])
      /\ \A w \in Queues, r \in Packets :
           InQueue(r, qdisc[w]) => QueueOf[r] = w /\ status[r] = "held" /\ r \notin lost
      /\ \A r \in lost : status[r] = "held"
      /\ \A r \in Packets : status[r] = "held" => r \in lost \/ InQueue(r, qdisc[QueueOf[r]])
  BY DEF DiscInv
<1>3. /\ qdisc'[q] = Tail(qdisc[q])
      /\ \A w \in Queues : w # q => qdisc'[w] = qdisc[w]
  BY <1>1
<1>4. /\ Distinct(Tail(qdisc[q])) /\ ~InQueue(p, Tail(qdisc[q]))
      /\ p \in Packets /\ InQueue(p, qdisc[q])
      /\ \A r : InQueue(r, qdisc[q]) <=> r = p \/ InQueue(r, Tail(qdisc[q]))
  BY <1>1, <1>2, DistinctTail, TailFacts, TailHolds
<1>5. QueueOf[p] = q /\ status[p] = "held" /\ p \notin lost
  BY <1>2, <1>4
<1>6. ASSUME NEW w \in Queues
      PROVE  /\ Distinct(qdisc'[w])
             /\ \A r \in Packets : InQueue(r, qdisc'[w]) <=> InQueue(r, qdisc[w]) /\ r # p
  <2>1. CASE w = q
    BY <1>3, <1>4, <2>1
  <2>2. CASE w # q
    BY <1>2, <1>3, <1>5, <2>2
  <2> QED BY <2>1, <2>2
<1>7. \A w \in Queues, r \in Packets :
        InQueue(r, qdisc'[w]) => QueueOf[r] = w /\ status'[r] = "held" /\ r \notin lost'
  BY <1>2, <1>6
<1>8. \A r \in lost' : status'[r] = "held"
  BY <1>1, <1>2, <1>5
<1>9. ASSUME NEW r \in Packets, status'[r] = "held"
      PROVE  r \in lost' \/ InQueue(r, qdisc'[QueueOf[r]])
  <2>1. QueueOf[r] \in Queues
    BY PacketBufferAssumption
  <2> QED BY <1>2, <1>6, <1>9, <2>1
<1> QED BY <1>6, <1>7, <1>8, <1>9 DEF DiscInv, InQueue, Distinct

LEMMA DiscInvKept == PortTypes /\ DiscInv /\ [Next]_portVars => DiscInv'
<1> SUFFICES ASSUME PortTypes, DiscInv, [Next]_portVars PROVE DiscInv'
  OBVIOUS
<1>1. /\ qdisc \in [Queues -> Seq(Packets)] /\ lost \subseteq Packets
      /\ currentPkt \in Packets \cup {NoPacket}
  BY DEF PortTypes
<1>2. ASSUME UNCHANGED <<status, qdisc, lost>> PROVE DiscInv'
  BY <1>1, <1>2, DiscInvUntouched
<1>3. ASSUME NEW p \in Packets, Arrive(p) PROVE DiscInv'
  BY <1>3, DiscInvArrive
<1>4. ASSUME NEW q \in Queues, Restart(q) PROVE DiscInv'
  <2>1. PICK p : p = qdisc[q][1]
    OBVIOUS
  <2>2. /\ qdisc[q] \in Seq(Packets) /\ qdisc[q] # <<>> /\ Send(p)
        /\ qdisc' = [qdisc EXCEPT ![q] = Tail(@)]
    BY <1>1, <1>4, <2>1 DEF Restart
  <2>3. p \in Packets /\ InQueue(p, qdisc[q])
    BY <2>1, <2>2, TailFacts
  <2>4. status[p] = "held"
    BY <2>3 DEF DiscInv
  <2>5. ASSUME Dropped(p) PROVE DiscInv'
    <3>1. status' = status /\ lost' = lost \cup {p}
      BY <2>5 DEF Dropped
    <3> QED BY <2>1, <2>2, <2>4, <3>1, DiscInvTaken
  <2>6. ASSUME SendToDevice(p) PROVE DiscInv'
    <3>1. Fetch(p) /\ lost' = lost
      BY <2>6 DEF SendToDevice
    <3>2. status'[p] # "held" /\ \A r \in Packets : r # p => status'[r] = status[r]
      BY <2>3, <3>1, FetchSets
    <3> QED BY <2>1, <2>2, <3>1, <3>2, DiscInvTaken
  <2> QED BY <2>2, <2>5, <2>6, SendCases
<1>5. ASSUME RunEnd PROVE DiscInv'
  BY <1>2, <1>5 DEF RunEnd, mmuVars, bufferVars
<1>6. ASSUME WakeRun PROVE DiscInv'
  <2>1. UNCHANGED <<status, qdisc, lost>>
    BY <1>6 DEF WakeRun, mmuVars, bufferVars
  <2> QED BY <1>2, <2>1
<1>7. ASSUME NEW p \in Packets, FetchCompletes(p) PROVE DiscInv'
  <2>1. FetchComplete(p) /\ UNCHANGED <<qdisc, lost>>
    BY <1>7 DEF FetchCompletes, HandleRequest, discVars
  <2>2. /\ status[p] = "asked" /\ status'[p] # "held"
        /\ \A r \in Packets : r # p => status'[r] = status[r]
    BY <2>1, CompletionSets
  <2> QED BY <1>1, <2>1, <2>2, DiscInvUntouched
<1>8. ASSUME TransmitComplete PROVE DiscInv'
  <2>1. ReleaseSent(currentPkt) /\ currentPkt \in Packets /\ UNCHANGED <<qdisc, lost>>
    BY <1>1, <1>8 DEF TransmitComplete, discVars
  <2>2. /\ status'[currentPkt] = IF status[currentPkt] = "fetched" THEN "out" ELSE status[currentPkt]
        /\ \A r \in Packets : r # currentPkt => status'[r] = status[r]
    BY <2>1, ReleaseSets
  <2> QED BY <1>1, <2>1, <2>2, DiscInvUntouched
<1>9. ASSUME LinkDown PROVE DiscInv'
  BY <1>2, <1>9 DEF LinkDown, mmuVars, bufferVars, discVars
<1>10. CASE UNCHANGED portVars
  BY <1>2, <1>10 DEF portVars, mmuVars, bufferVars, discVars
<1> QED BY <1>3, <1>4, <1>5, <1>6, <1>7, <1>8, <1>9, <1>10 DEF Next

(***************************************************************************)
(* A packet that is asked for or fetched is in the device, if the device   *)
(* sends none before it is fetched.                                        *)
(***************************************************************************)
HeldInv == \A p \in Packets : status[p] \in {"asked", "fetched"} => Holds(p)

LEMMA AttemptHolds ==
  ASSUME NEW queue \in Seq(Packets), NEW stop, NEW sending,
         AttemptTransmission(queue, stop, sending),
         NEW p \in Packets, InQueue(p, queue) \/ sending = p
  PROVE  InQueue(p, devQueue') \/ currentPkt' = p
<1>1. CASE Transmits(queue, sending)
  <2>1. devQueue' = Tail(queue) /\ currentPkt' = queue[1] /\ queue # <<>> /\ sending = NoPacket
    BY <1>1, AttemptCases DEF Transmits
  <2>2. p # NoPacket
    BY PortAssumption
  <2> QED BY <2>1, <2>2, TailHolds
<1>2. CASE ~Transmits(queue, sending)
  BY <1>2, AttemptCases
<1> QED BY <1>1, <1>2

LEMMA HeldInvKept ==
  ASSUME FreshFlags = {FALSE}
  PROVE  PortTypes /\ DeviceInv /\ SentInv /\ HeldInv /\ [Next]_portVars => HeldInv'
<1> SUFFICES ASSUME PortTypes, DeviceInv, SentInv, HeldInv, [Next]_portVars PROVE HeldInv'
  OBVIOUS
<1>1. /\ qdisc \in [Queues -> Seq(Packets)] /\ devQueue \in Seq(Packets)
      /\ currentPkt \in Packets \cup {NoPacket}
  BY DEF PortTypes
<1>2. \A p \in Packets : status[p] \in {"asked", "fetched"} => InQueue(p, devQueue) \/ currentPkt = p
  BY DEF HeldInv, Holds
<1>3. ASSUME \A p \in Packets : status'[p] \in {"asked", "fetched"} =>
                InQueue(p, devQueue') \/ currentPkt' = p
      PROVE  HeldInv'
  BY <1>3 DEF HeldInv, Holds, InQueue
<1>4. ASSUME UNCHANGED <<status, devQueue, currentPkt>> PROVE HeldInv'
  BY <1>2, <1>3, <1>4
<1>5. ASSUME NEW p \in Packets, Arrive(p) PROVE HeldInv'
  <2>1. status'[p] = "held" /\ \A r \in Packets : r # p => status'[r] = status[r]
    BY <1>5, ArrivalSets
  <2>2. UNCHANGED <<devQueue, currentPkt>>
    BY <1>5 DEF Arrive, deviceVars
  <2> QED BY <1>2, <1>3, <2>1, <2>2
<1>6. ASSUME NEW q \in Queues, Restart(q) PROVE HeldInv'
  <2>1. PICK p : p = qdisc[q][1]
    OBVIOUS
  <2>2. qdisc[q] \in Seq(Packets) /\ qdisc[q] # <<>> /\ Send(p)
    BY <1>1, <1>6, <2>1 DEF Restart
  <2>3. p \in Packets
    BY <2>1, <2>2, TailFacts
  <2>4. ASSUME Dropped(p) PROVE HeldInv'
    BY <1>4, <2>4 DEF Dropped
  <2>5. ASSUME SendToDevice(p) PROVE HeldInv'
    <3>1. PICK queue : queue = Append(devQueue, p)
      OBVIOUS
    <3>2. Fetch(p) /\ AttemptTransmission(queue, stopped \/ WouldOverflow(queue), currentPkt)
      BY <2>5, <3>1 DEF SendToDevice
    <3>3. \A r \in Packets : r # p => status'[r] = status[r]
      BY <2>3, <3>2, FetchSets
    <3>4. queue \in Seq(Packets) /\ \A r : InQueue(r, queue) <=> r = p \/ InQueue(r, devQueue)
      BY <1>1, <2>3, <3>1, AppendFacts, AppendHolds
    <3>5. ASSUME NEW r \in Packets, status'[r] \in {"asked", "fetched"}
          PROVE  InQueue(r, devQueue') \/ currentPkt' = r
      <4>1. InQueue(r, queue) \/ currentPkt = r
        BY <1>2, <3>3, <3>4, <3>5
      <4> QED BY <3>2, <3>4, <4>1, AttemptHolds
    <3> QED BY <1>3, <3>5
  <2> QED BY <2>2, <2>4, <2>5, SendCases
<1>7. ASSUME RunEnd PROVE HeldInv'
  BY <1>4, <1>7 DEF RunEnd, mmuVars, bufferVars, deviceVars
<1>8. ASSUME WakeRun PROVE HeldInv'
  <2>1. UNCHANGED <<status, devQueue, currentPkt>>
    BY <1>8 DEF WakeRun, mmuVars, bufferVars
  <2> QED BY <1>4, <2>1
<1>9. ASSUME NEW p \in Packets, FetchCompletes(p) PROVE HeldInv'
  <2>1. FetchComplete(p) /\ AttemptTransmission(devQueue, stopped, currentPkt)
    BY <1>9 DEF FetchCompletes, HandleRequest
  <2>2. status[p] = "asked" /\ \A r \in Packets : r # p => status'[r] = status[r]
    BY <2>1, CompletionSets
  <2>3. ASSUME NEW r \in Packets, status'[r] \in {"asked", "fetched"}
        PROVE  InQueue(r, devQueue') \/ currentPkt' = r
    <3>1. InQueue(r, devQueue) \/ currentPkt = r
      BY <1>2, <2>2, <2>3
    <3> QED BY <1>1, <2>1, <3>1, AttemptHolds
  <2> QED BY <1>3, <2>3
<1>10. ASSUME TransmitComplete PROVE HeldInv'
  <2>1. /\ ReleaseSent(currentPkt) /\ AttemptTransmission(devQueue, stopped, NoPacket)
        /\ currentPkt \in Packets /\ status[currentPkt] = "fetched"
    BY <1>1, <1>10 DEF TransmitComplete, SentInv
  <2>2. status'[currentPkt] = "out" /\ \A r \in Packets : r # currentPkt => status'[r] = status[r]
    BY <2>1, ReleaseSets
  <2>3. ASSUME NEW r \in Packets, status'[r] \in {"asked", "fetched"}
        PROVE  InQueue(r, devQueue') \/ currentPkt' = r
    <3>1. InQueue(r, devQueue)
      BY <1>2, <2>2, <2>3
    <3> QED BY <1>1, <2>1, <3>1, AttemptHolds
  <2> QED BY <1>3, <2>3
<1>11. ASSUME LinkDown PROVE HeldInv'
  BY <1>4, <1>11 DEF LinkDown, mmuVars, bufferVars, deviceVars
<1>12. CASE UNCHANGED portVars
  BY <1>4, <1>12 DEF portVars, mmuVars, bufferVars, deviceVars
<1> QED BY <1>5, <1>6, <1>7, <1>8, <1>9, <1>10, <1>11, <1>12 DEF Next

(***************************************************************************)
(* In a queue of different packets each is found once.                     *)
(***************************************************************************)
LEMMA CountedOnce ==
  ASSUME NEW queue \in Seq(Packets), Distinct(queue), NEW p
  PROVE  Cardinality({i \in DOMAIN queue : queue[i] = p}) = IF InQueue(p, queue) THEN 1 ELSE 0
<1>1. DOMAIN queue = 1 .. Len(queue)
  OBVIOUS
<1>2. IsInjective(queue)
  BY <1>1 DEF IsInjective, Distinct
<1>3. p \in Range(queue) <=> InQueue(p, queue)
  BY <1>1 DEF Range, InQueue
<1> QED BY <1>2, <1>3, OccursOnce

(***************************************************************************)
(* The packets the MMU keeps are those on their way through the port, each *)
(* in one place, and those lost after they were stored; and a queue is     *)
(* charged for exactly its packets that are not fetched yet                *)
(* (TrafficControlLayer::Send, QueueDisc::Restart, and Send, HandleRequest *)
(* and TransmitComplete of the device).  With fetch statuses that may      *)
(* start set a packet leaves the device before the MMU has read it         *)
(* (OnlyFetchedIsSent), and is then in no place.                           *)
(***************************************************************************)
THEOREM PacketsAreAccounted ==
  ASSUME FreshFlags = {FALSE}
  PROVE  Spec => []PacketsAccounted
<1> DEFINE Inv == PortTypes /\ ChargeInv /\ DeviceInv /\ SentInv /\ DiscInv /\ HeldInv
<1>1. Init => Inv
  <2>1. Init => SentInv /\ HeldInv
    BY DEF Init, PacketBufferInit, SentInv, HeldInv
  <2> QED BY <2>1, PortInitTypes, ChargeInvInit, DeviceInvInit, DiscInvInit
<1>2. Inv /\ [Next]_portVars => Inv'
  BY PortTypesKept, ChargeInvKept, DeviceInvKept, SentInvKept, DiscInvKept, HeldInvKept
<1>3. Inv => PacketsAccounted
  <2> SUFFICES ASSUME Inv PROVE PacketsAccounted
    OBVIOUS
  <2>1. \A q \in Queues : charged[q] =
          SumFunctionOnSet(Size, {p \in Packets : QueueOf[p] = q /\ status[p] \in {"held", "asked"}})
    BY DEF ChargeInv, Owed
  <2>2. ASSUME NEW p \in Packets
        PROVE  LET inDisc == Cardinality({i \in DOMAIN qdisc[QueueOf[p]] : qdisc[QueueOf[p]][i] = p})
                   inDevice == Cardinality({i \in DOMAIN devQueue : devQueue[i] = p})
                                 + (IF currentPkt = p THEN 1 ELSE 0)
                   inLost == IF p \in lost THEN 1 ELSE 0
               IN CASE status[p] = "out"  -> inDisc + inDevice + inLost = 0
                    [] status[p] = "held" -> inDisc + inLost = 1 /\ inDevice = 0
                    [] OTHER              -> inDisc + inLost = 0 /\ inDevice = 1
    <3> DEFINE inDisc == Cardinality({i \in DOMAIN qdisc[QueueOf[p]] : qdisc[QueueOf[p]][i] = p})
               inQueue == Cardinality({i \in DOMAIN devQueue : devQueue[i] = p})
    <3>1. /\ QueueOf[p] \in Queues /\ qdisc[QueueOf[p]] \in Seq(Packets)
          /\ devQueue \in Seq(Packets) /\ status[p] \in Statuses
      BY PacketBufferAssumption DEF PortTypes
    <3>2. Distinct(qdisc[QueueOf[p]]) /\ Distinct(devQueue)
      BY <3>1 DEF DiscInv, DeviceInv
    <3>3. /\ inDisc = IF InQueue(p, qdisc[QueueOf[p]]) THEN 1 ELSE 0
          /\ inQueue = IF InQueue(p, devQueue) THEN 1 ELSE 0
      BY <3>1, <3>2, CountedOnce
    <3>4. /\ InQueue(p, qdisc[QueueOf[p]]) => status[p] = "held" /\ p \notin lost
          /\ p \in lost => status[p] = "held"
          /\ status[p] = "held" => p \in lost \/ InQueue(p, qdisc[QueueOf[p]])
      BY <3>1 DEF DiscInv
    <3>5. /\ InQueue(p, devQueue) => status[p] \in {"asked", "fetched"} /\ currentPkt # p
          /\ currentPkt = p => status[p] \in {"asked", "fetched"}
          /\ status[p] \in {"asked", "fetched"} => InQueue(p, devQueue) \/ currentPkt = p
      BY DEF DeviceInv, HeldInv, Holds
    <3> HIDE DEF inDisc, inQueue
    <3>6. CASE status[p] = "out"
      <4>1. inDisc = 0 /\ inQueue = 0 /\ p \notin lost /\ currentPkt # p
        BY <3>3, <3>4, <3>5, <3>6
      <4> QED BY <3>6, <4>1 DEF inDisc, inQueue
    <3>7. CASE status[p] = "held"
      <4>1. inQueue = 0 /\ currentPkt # p /\ inDisc = IF p \in lost THEN 0 ELSE 1
        BY <3>3, <3>4, <3>5, <3>7
      <4> QED BY <3>7, <4>1 DEF inDisc, inQueue
    <3>8. CASE status[p] \in {"asked", "fetched"}
      <4>1. inDisc = 0 /\ p \notin lost /\ inQueue = IF currentPkt = p THEN 0 ELSE 1
        BY <3>3, <3>4, <3>5, <3>8
      <4> QED BY <3>8, <4>1 DEF inDisc, inQueue
    <3> QED BY <3>1, <3>6, <3>7, <3>8 DEF Statuses
  <2> QED BY <2>1, <2>2 DEF PacketsAccounted
<1> QED BY <1>1, <1>2, <1>3, PTL DEF Spec

-----------------------------------------------------------------------------
(***************************************************************************)
(* The order in which packets leave.  What is ahead in a queue that grows  *)
(* at its end and shrinks at its front.                                    *)
(***************************************************************************)
LEMMA PrecedesInQueue ==
  ASSUME NEW queue \in Seq(Packets), NEW p, NEW r, Precedes(queue, p, r)
  PROVE  InQueue(p, queue) /\ InQueue(r, queue)
  BY DEF Precedes, InQueue

LEMMA AppendOrder ==
  ASSUME NEW queue \in Seq(Packets), NEW x \in Packets
  PROVE  /\ \A p, r : Precedes(queue, p, r) => Precedes(Append(queue, x), p, r)
         /\ \A p : InQueue(p, queue) => Precedes(Append(queue, x), p, x)
<1> DEFINE longer == Append(queue, x)
           n == Len(queue)
<1>1. /\ DOMAIN queue = 1 .. n /\ DOMAIN longer = 1 .. n + 1 /\ n \in Nat
      /\ \A i \in 1 .. n : longer[i] = queue[i]
      /\ longer[n + 1] = x
  OBVIOUS
<1> HIDE DEF longer, n
<1>2. ASSUME NEW p, NEW r, Precedes(queue, p, r) PROVE Precedes(longer, p, r)
  <2>1. PICK i, j \in 1 .. n : i < j /\ queue[i] = p /\ queue[j] = r
    BY <1>1, <1>2 DEF Precedes
  <2>2. i \in 1 .. n + 1 /\ j \in 1 .. n + 1 /\ longer[i] = p /\ longer[j] = r
    BY <1>1, <2>1
  <2> QED BY <1>1, <2>1, <2>2 DEF Precedes
<1>3. ASSUME NEW p, InQueue(p, queue) PROVE Precedes(longer, p, x)
  <2>1. PICK i \in 1 .. n : queue[i] = p
    BY <1>3 DEF InQueue, n
  <2>2. i \in 1 .. n + 1 /\ n + 1 \in 1 .. n + 1 /\ i < n + 1 /\ longer[i] = p
    BY <1>1, <2>1
  <2> QED BY <1>1, <2>2 DEF Precedes
<1> QED BY <1>2, <1>3 DEF longer

LEMMA TailOrder ==
  ASSUME NEW queue \in Seq(Packets), queue # <<>>, Distinct(queue)
  PROVE  /\ \A p, r : Precedes(queue, p, r) /\ p # queue[1] => Precedes(Tail(queue), p, r)
         /\ \A p : ~Precedes(queue, p, queue[1])
<1> DEFINE shorter == Tail(queue)
           n == Len(queue)
<1>1. /\ DOMAIN queue = 1 .. n /\ DOMAIN shorter = 1 .. n - 1 /\ n \in Nat
      /\ \A i \in 1 .. n - 1 : shorter[i] = queue[i + 1]
      /\ \A i, j \in 1 .. n : queue[i] = queue[j] => i = j
  BY TailFacts DEF Distinct
<1> HIDE DEF shorter, n
<1>2. ASSUME NEW p, NEW r, Precedes(queue, p, r), p # queue[1] PROVE Precedes(shorter, p, r)
  <2>1. PICK i, j \in 1 .. n : i < j /\ queue[i] = p /\ queue[j] = r
    BY <1>1, <1>2 DEF Precedes
  <2>2. i - 1 \in 1 .. n - 1 /\ j - 1 \in 1 .. n - 1 /\ i - 1 < j - 1
    BY <1>1, <1>2, <2>1
  <2>3. shorter[i - 1] = p /\ shorter[j - 1] = r
    BY <1>1, <2>1, <2>2
  <2> QED BY <1>1, <2>2, <2>3 DEF Precedes
<1>3. ASSUME NEW p, Precedes(queue, p, queue[1]) PROVE FALSE
  <2>1. PICK i, j \in 1 .. n : i < j /\ queue[j] = queue[1]
    BY <1>1, <1>3 DEF Precedes
  <2>2. 1 \in 1 .. n /\ j # 1
    BY <1>1, <2>1
  <2> QED BY <1>1, <2>1, <2>2
<1> QED BY <1>2, <1>3 DEF shorter

(***************************************************************************)
(* Ahead and Waits, for a device queue and a queue disc in between.        *)
(***************************************************************************)
WaitsIn(device, disc, p) == InQueue(p, device) \/ InQueue(p, disc[QueueOf[p]])

AheadIn(device, disc, p, r) ==
  \/ Precedes(device, p, r)
  \/ InQueue(p, device) /\ InQueue(r, disc[QueueOf[r]])
  \/ Precedes(disc[QueueOf[p]], p, r)

LEMMA AheadNow ==
  /\ \A p : (Waits(p) <=> WaitsIn(devQueue, qdisc, p)) /\ (Waits(p)' <=> WaitsIn(devQueue', qdisc', p))
  /\ \A p, r : /\ Ahead(p, r) <=> AheadIn(devQueue, qdisc, p, r)
               /\ Ahead(p, r)' <=> AheadIn(devQueue', qdisc', p, r)
<1>1. \A p, queue : Contains(queue, p) <=> InQueue(p, queue)
  BY DEF Contains, InQueue
<1>2. ASSUME NEW p
      PROVE  (Waits(p) <=> WaitsIn(devQueue, qdisc, p)) /\ (Waits(p)' <=> WaitsIn(devQueue', qdisc', p))
  BY <1>1 DEF Waits, WaitsIn
<1>3. ASSUME NEW p, NEW r
      PROVE  /\ Ahead(p, r) <=> AheadIn(devQueue, qdisc, p, r)
             /\ Ahead(p, r)' <=> AheadIn(devQueue', qdisc', p, r)
  BY <1>1 DEF Ahead, AheadIn, Precedes
<1> QED BY <1>2, <1>3

(***************************************************************************)
(* An attempt to transmit keeps the order: it takes the head of the queue, *)
(* which nothing is ahead of.                                              *)
(***************************************************************************)
LEMMA AttemptKeepsOrder ==
  ASSUME NEW queue \in Seq(Packets), Distinct(queue), NEW disc, NEW stop, NEW sending,
         AttemptTransmission(queue, stop, sending),
         \A q \in Queues : disc[q] \in Seq(Packets),
         \A x \in Packets : InQueue(x, queue) => ~InQueue(x, disc[QueueOf[x]]),
         \A x \in Packets : WaitsIn(queue, disc, x) => sending # x
  PROVE  /\ \A x \in Packets : WaitsIn(devQueue', disc, x) => WaitsIn(queue, disc, x)
         /\ \A p, r \in Packets :
              /\ QueueOf[p] = QueueOf[r] /\ AheadIn(queue, disc, p, r) /\ WaitsIn(devQueue', disc, p)
                   => AheadIn(devQueue', disc, p, r)
              /\ QueueOf[p] = QueueOf[r] /\ AheadIn(queue, disc, p, r) => currentPkt' # r
<1>1. ASSUME NEW p \in Packets, NEW r \in Packets, QueueOf[p] = QueueOf[r], AheadIn(queue, disc, p, r)
      PROVE  WaitsIn(queue, disc, r)
  BY <1>1, PrecedesInQueue, PacketBufferAssumption DEF AheadIn, WaitsIn
<1>2. CASE Transmits(queue, sending)
  <2>1. devQueue' = Tail(queue) /\ currentPkt' = queue[1] /\ queue # <<>>
    BY <1>2, AttemptCases DEF Transmits
  <2>2. \A x : InQueue(x, queue) <=> x = queue[1] \/ InQueue(x, Tail(queue))
    BY <2>1, TailHolds
  <2>3. /\ \A p, r : Precedes(queue, p, r) /\ p # queue[1] => Precedes(Tail(queue), p, r)
        /\ \A p : ~Precedes(queue, p, queue[1])
        /\ ~InQueue(queue[1], Tail(queue))
    BY <2>1, TailOrder, DistinctTail
  <2>4. \A x \in Packets : WaitsIn(devQueue', disc, x) => WaitsIn(queue, disc, x)
    BY <2>1, <2>2 DEF WaitsIn
  <2>5. ASSUME NEW p \in Packets, NEW r \in Packets,
               AheadIn(queue, disc, p, r), WaitsIn(devQueue', disc, p)
        PROVE  AheadIn(devQueue', disc, p, r)
    <3>1. InQueue(p, queue) => p # queue[1]
      BY <2>1, <2>3, <2>5 DEF WaitsIn
    <3>2. CASE Precedes(queue, p, r)
      <4>1. InQueue(p, queue)
        BY <3>2, PrecedesInQueue
      <4> QED BY <2>1, <2>3, <3>1, <3>2, <4>1 DEF AheadIn
    <3>3. CASE InQueue(p, queue) /\ InQueue(r, disc[QueueOf[r]])
      BY <2>1, <2>2, <3>1, <3>3 DEF AheadIn
    <3>4. CASE Precedes(disc[QueueOf[p]], p, r)
      BY <3>4 DEF AheadIn
    <3> QED BY <2>5, <3>2, <3>3, <3>4 DEF AheadIn
  <2>6. ASSUME NEW p \in Packets, NEW r \in Packets, QueueOf[p] = QueueOf[r], AheadIn(queue, disc, p, r)
        PROVE  currentPkt' # r
    <3> SUFFICES ASSUME r = queue[1] PROVE FALSE
      BY <2>1
    <3>1. InQueue(r, queue) /\ ~InQueue(r, disc[QueueOf[r]])
      BY <2>2
    <3>2. disc[QueueOf[p]] \in Seq(Packets)
      BY PacketBufferAssumption
    <3>3. ~Precedes(disc[QueueOf[p]], p, r)
      BY <2>6, <3>1, <3>2, PrecedesInQueue
    <3> QED BY <2>3, <2>6, <3>1, <3>3 DEF AheadIn
  <2> QED BY <2>4, <2>5, <2>6
<1>3. CASE ~Transmits(queue, sending)
  <2>1. devQueue' = queue /\ currentPkt' = sending
    BY <1>3, AttemptCases
  <2> QED BY <1>1, <2>1
<1> QED BY <1>2, <1>3

(***************************************************************************)
(* What KeepsOrder says of a step.                                         *)
(***************************************************************************)
OrderKept(p, r) ==
  /\ Ahead(p, r) /\ Waits(p)' /\ Waits(r)' => Ahead(p, r)'
  /\ Waits(p) /\ ~Waits(r) /\ Waits(p)' /\ Waits(r)' => Ahead(p, r)'
  /\ Ahead(p, r) => currentPkt' # r

(***************************************************************************)
(* The packet being sent waits nowhere, and none waits in two places.      *)
(***************************************************************************)
LEMMA WaitsOnce ==
  ASSUME PortTypes, DeviceInv, DiscInv, NEW p \in Packets
  PROVE  /\ InQueue(p, devQueue) => ~InQueue(p, qdisc[QueueOf[p]])
         /\ Waits(p) => currentPkt # p
         /\ Waits(p) => status[p] # "out"
<1>1. QueueOf[p] \in Queues
  BY PacketBufferAssumption
<1>2. InQueue(p, qdisc[QueueOf[p]]) => status[p] = "held"
  BY <1>1 DEF DiscInv
<1>3. /\ InQueue(p, devQueue) => status[p] \in {"asked", "fetched"} /\ currentPkt # p
      /\ currentPkt = p => status[p] \in {"asked", "fetched"}
  BY DEF DeviceInv, Holds
<1> QED BY <1>2, <1>3, AheadNow DEF WaitsIn

LEMMA AheadWaits ==
  ASSUME PortTypes, NEW p \in Packets, NEW r \in Packets, QueueOf[p] = QueueOf[r], Ahead(p, r)
  PROVE  Waits(p) /\ Waits(r)
<1>1. devQueue \in Seq(Packets) /\ qdisc[QueueOf[p]] \in Seq(Packets)
  BY PacketBufferAssumption DEF PortTypes
<1> QED BY <1>1, PrecedesInQueue, AheadNow DEF AheadIn, WaitsIn

(***************************************************************************)
(* A step of the device while the disc stays as it is.                     *)
(***************************************************************************)
LEMMA DeviceKeepsOrder ==
  ASSUME PortTypes, DeviceInv, DiscInv, NEW sending, sending \in {currentPkt, NoPacket},
         AttemptTransmission(devQueue, stopped, sending), qdisc' = qdisc,
         NEW p \in Packets, NEW r \in Packets, QueueOf[p] = QueueOf[r]
  PROVE  OrderKept(p, r)
<1>1. /\ devQueue \in Seq(Packets) /\ Distinct(devQueue)
      /\ \A q \in Queues : qdisc[q] \in Seq(Packets)
  BY DEF PortTypes, DeviceInv
<1>2. \A x \in Packets : /\ InQueue(x, devQueue) => ~InQueue(x, qdisc[QueueOf[x]])
                         /\ WaitsIn(devQueue, qdisc, x) => sending # x
  BY WaitsOnce, AheadNow, PortAssumption
<1>3. /\ \A x \in Packets : WaitsIn(devQueue', qdisc, x) => WaitsIn(devQueue, qdisc, x)
      /\ AheadIn(devQueue, qdisc, p, r) /\ WaitsIn(devQueue', qdisc, p) => AheadIn(devQueue', qdisc, p, r)
      /\ AheadIn(devQueue, qdisc, p, r) => currentPkt' # r
  BY <1>1, <1>2, AttemptKeepsOrder
<1> QED BY <1>3, AheadNow DEF OrderKept

LEMMA ArrivalKeepsOrder ==
  ASSUME PortTypes, DeviceInv, DiscInv, NEW x \in Packets, Arrive(x),
         NEW p \in Packets, NEW r \in Packets, QueueOf[p] = QueueOf[r]
  PROVE  OrderKept(p, r)
<1> DEFINE Q == QueueOf[p]
<1>1. /\ status[x] = "out" /\ devQueue' = devQueue /\ currentPkt' = currentPkt
      /\ Q \in Queues /\ qdisc \in [Queues -> Seq(Packets)] /\ qdisc[Q] \in Seq(Packets)
  BY ArrivalSets, PacketBufferAssumption DEF Arrive, deviceVars, PortTypes
<1>2. Ahead(p, r) => currentPkt' # r
  BY <1>1, AheadWaits, WaitsOnce
<1>3. CASE qdisc' = [qdisc EXCEPT ![QueueOf[x]] = Append(@, x)] /\ Q = QueueOf[x]
  <2>1. qdisc'[Q] = Append(qdisc[Q], x)
    BY <1>1, <1>3
  <2>2. /\ \A y, z : Precedes(qdisc[Q], y, z) => Precedes(qdisc'[Q], y, z)
        /\ \A y : InQueue(y, qdisc[Q]) => Precedes(qdisc'[Q], y, x)
        /\ \A y : InQueue(y, qdisc'[Q]) <=> y = x \/ InQueue(y, qdisc[Q])
    BY <1>1, <2>1, AppendOrder, AppendHolds
  <2>3. Ahead(p, r) => Ahead(p, r)'
    BY <1>1, <2>2, AheadNow DEF AheadIn
  <2>4. ASSUME Waits(p), ~Waits(r), Waits(r)' PROVE Ahead(p, r)'
    <3>1. r = x /\ InQueue(r, qdisc'[Q])
      BY <1>1, <2>2, <2>4, AheadNow DEF WaitsIn
    <3>2. InQueue(p, devQueue) \/ InQueue(p, qdisc[Q])
      BY <2>4, AheadNow DEF WaitsIn
    <3> QED BY <1>1, <2>2, <3>1, <3>2, AheadNow DEF AheadIn
  <2> QED BY <1>2, <2>3, <2>4 DEF OrderKept
<1>4. CASE qdisc'[Q] = qdisc[Q]
  <2>1. Ahead(p, r) <=> Ahead(p, r)'
    BY <1>1, <1>4, AheadNow DEF AheadIn
  <2>2. Waits(r) <=> Waits(r)'
    BY <1>1, <1>4, AheadNow DEF WaitsIn
  <2> QED BY <1>2, <2>1, <2>2 DEF OrderKept
<1>5. qdisc' = [qdisc EXCEPT ![QueueOf[x]] = Append(@, x)] \/ qdisc' = qdisc
  BY DEF Arrive
<1> QED BY <1>1, <1>3, <1>4, <1>5

LEMMA RestartKeepsOrder ==
  ASSUME PortTypes, DeviceInv, DiscInv, NEW q \in Queues, Restart(q),
         NEW p \in Packets, NEW r \in Packets, QueueOf[p] = QueueOf[r]
  PROVE  OrderKept(p, r)
<1>1. PICK x : x = qdisc[q][1]
  OBVIOUS
<1>2. /\ qdisc \in [Queues -> Seq(Packets)] /\ qdisc[q] \in Seq(Packets) /\ qdisc[q] # <<>>
      /\ qdisc' = [qdisc EXCEPT ![q] = Tail(@)] /\ Send(x)
      /\ devQueue \in Seq(Packets) /\ Distinct(devQueue)
  BY <1>1 DEF PortTypes, DeviceInv, Restart
<1>3. /\ x \in Packets /\ InQueue(x, qdisc[q]) /\ Tail(qdisc[q]) \in Seq(Packets)
      /\ \A y : InQueue(y, qdisc[q]) <=> y = x \/ InQueue(y, Tail(qdisc[q]))
  BY <1>1, <1>2, TailFacts, TailHolds
<1>4. Distinct(qdisc[q]) /\ QueueOf[x] = q /\ status[x] = "held"
  BY <1>3 DEF DiscInv
<1>5. /\ ~InQueue(x, Tail(qdisc[q]))
      /\ \A y, z : Precedes(qdisc[q], y, z) /\ y # x => Precedes(Tail(qdisc[q]), y, z)
      /\ \A y : ~Precedes(qdisc[q], y, x)
  BY <1>1, <1>2, <1>4, DistinctTail, TailOrder
<1>6. qdisc'[q] = Tail(qdisc[q]) /\ \A w \in Queues : w # q => qdisc'[w] = qdisc[w]
  BY <1>2
<1>7. ~InQueue(x, devQueue) /\ currentPkt # x
  BY <1>3, <1>4 DEF DeviceInv, Holds
<1>8. \A w \in Queues : qdisc'[w] \in Seq(Packets)
  BY <1>2, <1>3, <1>6
<1>9. ASSUME NEW y \in Packets
      PROVE  InQueue(y, qdisc'[QueueOf[y]]) <=> InQueue(y, qdisc[QueueOf[y]]) /\ y # x
  <2>1. QueueOf[y] \in Queues
    BY PacketBufferAssumption
  <2>2. CASE QueueOf[y] = q
    BY <1>3, <1>5, <1>6, <2>2
  <2>3. CASE QueueOf[y] # q
    BY <1>4, <1>6, <2>1, <2>3
  <2> QED BY <2>2, <2>3
<1>10. ASSUME Precedes(qdisc[QueueOf[p]], p, r), p # x
       PROVE  Precedes(qdisc'[QueueOf[p]], p, r)
  <2>1. QueueOf[p] \in Queues
    BY PacketBufferAssumption
  <2> QED BY <1>5, <1>6, <1>10, <2>1
<1>11. CASE Dropped(x)
  <2>1. devQueue' = devQueue /\ currentPkt' = currentPkt
    BY <1>11 DEF Dropped
  <2>2. Ahead(p, r) => currentPkt' # r
    BY <2>1, AheadWaits, WaitsOnce
  <2>3. /\ Waits(p)' => Waits(p) /\ p # x
        /\ Waits(r)' => Waits(r) /\ r # x
    BY <1>7, <1>9, <2>1, AheadNow DEF WaitsIn
  <2>4. ASSUME Ahead(p, r), p # x, r # x PROVE Ahead(p, r)'
    <3>1. CASE Precedes(devQueue, p, r)
      BY <2>1, <3>1, AheadNow DEF AheadIn
    <3>2. CASE InQueue(p, devQueue) /\ InQueue(r, qdisc[QueueOf[r]])
      BY <1>9, <2>1, <2>4, <3>2, AheadNow DEF AheadIn
    <3>3. CASE Precedes(qdisc[QueueOf[p]], p, r)
      BY <1>10, <2>4, <3>3, AheadNow DEF AheadIn
    <3> QED BY <2>4, <3>1, <3>2, <3>3, AheadNow DEF AheadIn
  <2> QED BY <2>2, <2>3, <2>4 DEF OrderKept
<1>12. CASE SendToDevice(x)
  <2>1. PICK queue : queue = Append(devQueue, x)
    OBVIOUS
  <2>2. AttemptTransmission(queue, stopped \/ WouldOverflow(queue), currentPkt)
    BY <1>12, <2>1 DEF SendToDevice
  <2>3. /\ queue \in Seq(Packets) /\ Distinct(queue)
        /\ \A y : InQueue(y, queue) <=> y = x \/ InQueue(y, devQueue)
        /\ \A y, z : Precedes(devQueue, y, z) => Precedes(queue, y, z)
        /\ \A y : InQueue(y, devQueue) => Precedes(queue, y, x)
    BY <1>2, <1>3, <1>7, <2>1, AppendFacts, AppendHolds, AppendOrder
  <2>4. \A y \in Packets : WaitsIn(queue, qdisc', y) => WaitsIn(devQueue, qdisc, y)
    BY <1>3, <1>4, <1>9, <2>3 DEF WaitsIn
  <2>5. \A y \in Packets : /\ InQueue(y, queue) => ~InQueue(y, qdisc'[QueueOf[y]])
                           /\ WaitsIn(queue, qdisc', y) => currentPkt # y
    BY <1>9, <2>3, <2>4, WaitsOnce, AheadNow
  <2>6. /\ \A y \in Packets : WaitsIn(devQueue', qdisc', y) => WaitsIn(queue, qdisc', y)
        /\ AheadIn(queue, qdisc', p, r) /\ WaitsIn(devQueue', qdisc', p) => AheadIn(devQueue', qdisc', p, r)
        /\ AheadIn(queue, qdisc', p, r) => currentPkt' # r
    BY <1>8, <2>2, <2>3, <2>5, AttemptKeepsOrder
  <2>7. ASSUME Ahead(p, r), p # r PROVE AheadIn(queue, qdisc', p, r)
    <3>1. CASE Precedes(devQueue, p, r)
      BY <2>3, <3>1 DEF AheadIn
    <3>2. CASE InQueue(p, devQueue) /\ InQueue(r, qdisc[QueueOf[r]])
      BY <1>9, <2>3, <3>2 DEF AheadIn
    <3>3. CASE Precedes(qdisc[QueueOf[p]], p, r)
      <4>1. CASE p = x
        <5>1. InQueue(r, qdisc[QueueOf[r]])
          BY <1>2, <1>4, <3>3, <4>1, PrecedesInQueue
        <5> QED BY <1>9, <2>3, <2>7, <4>1, <5>1 DEF AheadIn
      <4>2. CASE p # x
        BY <1>10, <3>3, <4>2 DEF AheadIn
      <4> QED BY <4>1, <4>2
    <3> QED BY <2>7, <3>1, <3>2, <3>3, AheadNow DEF AheadIn
  <2>8. CASE p # r
    BY <2>4, <2>6, <2>7, <2>8, AheadNow DEF OrderKept
  <2>9. CASE p = r
    <3>1. ~Ahead(p, r)
      <4>1. ~Precedes(devQueue, p, p)
        BY <1>2 DEF Precedes, Distinct
      <4>2. ~Precedes(qdisc[QueueOf[p]], p, p)
        <5>1. QueueOf[p] \in Queues /\ qdisc[QueueOf[p]] \in Seq(Packets)
          BY <1>2, PacketBufferAssumption
        <5>2. Distinct(qdisc[QueueOf[p]])
          BY <5>1 DEF DiscInv
        <5> QED BY <5>1, <5>2 DEF Precedes, Distinct
      <4>3. ~(InQueue(p, devQueue) /\ InQueue(p, qdisc[QueueOf[p]]))
        BY WaitsOnce
      <4> QED BY <2>9, <4>1, <4>2, <4>3, AheadNow DEF AheadIn
    <3> QED BY <2>9, <3>1 DEF OrderKept
  <2> QED BY <2>8, <2>9
<1> QED BY <1>2, <1>11, <1>12, SendCases

LEMMA StepsKeepOrder ==
  ASSUME PortTypes, DeviceInv, DiscInv, Next,
         NEW p \in Packets, NEW r \in Packets, QueueOf[p] = QueueOf[r]
  PROVE  OrderKept(p, r)
<1>1. ASSUME UNCHANGED <<qdisc, devQueue, currentPkt>> PROVE OrderKept(p, r)
  <2>1. /\ Ahead(p, r) <=> Ahead(p, r)'
        /\ Waits(r) <=> Waits(r)'
    BY <1>1, AheadNow
  <2>2. Ahead(p, r) => currentPkt' # r
    BY <1>1, AheadWaits, WaitsOnce
  <2> QED BY <2>1, <2>2 DEF OrderKept
<1>2. ASSUME NEW x \in Packets, Arrive(x) PROVE OrderKept(p, r)
  BY <1>2, ArrivalKeepsOrder
<1>3. ASSUME NEW q \in Queues, Restart(q) PROVE OrderKept(p, r)
  BY <1>3, RestartKeepsOrder
<1>4. ASSUME RunEnd PROVE OrderKept(p, r)
  BY <1>1, <1>4 DEF RunEnd, deviceVars
<1>5. ASSUME WakeRun PROVE OrderKept(p, r)
  BY <1>1, <1>5 DEF WakeRun
<1>6. ASSUME NEW x \in Packets, FetchCompletes(x) PROVE OrderKept(p, r)
  <2>1. AttemptTransmission(devQueue, stopped, currentPkt) /\ qdisc' = qdisc
    BY <1>6 DEF FetchCompletes, HandleRequest, discVars
  <2> QED BY <2>1, DeviceKeepsOrder
<1>7. ASSUME TransmitComplete PROVE OrderKept(p, r)
  <2>1. AttemptTransmission(devQueue, stopped, NoPacket) /\ qdisc' = qdisc
    BY <1>7 DEF TransmitComplete, discVars
  <2> QED BY <2>1, DeviceKeepsOrder
<1>8. ASSUME LinkDown PROVE OrderKept(p, r)
  BY <1>1, <1>8 DEF LinkDown, discVars, deviceVars
<1> QED BY <1>2, <1>3, <1>4, <1>5, <1>6, <1>7, <1>8 DEF Next

(***************************************************************************)
(* Nothing overtakes within a queue, whatever the MMU fetches first, even  *)
(* with fetch statuses that start set: the device queue is first in first  *)
(* out and only its head is sent (AttemptTransmission of                   *)
(* PointToPointReorderNetDevice), and no packet is in two places.          *)
(***************************************************************************)
THEOREM QueuesKeepTheirOrder == Spec => KeepsOrder
<1> DEFINE Inv == PortTypes /\ DeviceInv /\ DiscInv
           Kept == \A p, r \in Packets : QueueOf[p] = QueueOf[r] /\ p # r => OrderKept(p, r)
<1>1. Init => Inv
  BY PortInitTypes, DeviceInvInit, DiscInvInit
<1>2. Inv /\ [Next]_portVars => Inv'
  BY PortTypesKept, DeviceInvKept, DiscInvKept
<1>3. Inv /\ [Next]_portVars => [Kept]_portVars
  BY StepsKeepOrder
<1>4. Kept <=> \A p, r \in Packets : QueueOf[p] = QueueOf[r] /\ p # r =>
                 /\ Ahead(p, r) /\ Waits(p)' /\ Waits(r)' => Ahead(p, r)'
                 /\ Waits(p) /\ ~Waits(r) /\ Waits(p)' /\ Waits(r)' => Ahead(p, r)'
                 /\ Ahead(p, r) => currentPkt' # r
  BY DEF OrderKept
<1> HIDE DEF Inv, Kept
<1> QED BY <1>1, <1>2, <1>3, <1>4, PTL DEF Spec, KeepsOrder

-----------------------------------------------------------------------------
(***************************************************************************)
(* The bytes of a queue: less by those of its head without it.             *)
(***************************************************************************)
LEMMA BytesOfTail ==
  ASSUME NEW queue \in Seq(Packets), queue # <<>>
  PROVE  /\ Bytes(queue) \in Nat /\ Bytes(Tail(queue)) \in Nat
         /\ Bytes(queue) = Size[queue[1]] + Bytes(Tail(queue))
<1> DEFINE n == Len(queue)
           sizes == [i \in DOMAIN queue |-> Size[queue[i]]]
           later == [i \in DOMAIN Tail(queue) |-> Size[Tail(queue)[i]]]
           next == [i \in DOMAIN Tail(queue) |-> i + 1]
<1>1. /\ DOMAIN queue = 1 .. n /\ n \in Nat /\ n >= 1
      /\ Tail(queue) \in Seq(Packets) /\ Len(Tail(queue)) = n - 1 /\ DOMAIN Tail(queue) = 1 .. n - 1
      /\ \A i \in 1 .. n - 1 : Tail(queue)[i] = queue[i + 1]
      /\ \A i \in 1 .. n : queue[i] \in Packets
  BY TailFacts
<1>2. \A p \in Packets : Size[p] \in Nat
  BY PacketBufferAssumption
<1>3. /\ Bytes(queue) = SumFunctionOnSet(sizes, 1 .. n)
      /\ Bytes(Tail(queue)) = SumFunctionOnSet(later, 1 .. n - 1)
  BY <1>1 DEF Bytes, SumFunction
<1>4. /\ \A i \in 1 .. n : sizes[i] = Size[queue[i]] /\ sizes[i] \in Nat
      /\ \A i \in 1 .. n - 1 : later[i] = sizes[i + 1] /\ later[i] \in Nat /\ next[i] = i + 1
  <2>1. \A i \in 1 .. n - 1 : i + 1 \in 1 .. n
    BY <1>1
  <2> QED BY <1>1, <1>2, <2>1
<1> HIDE DEF sizes, later, next, n
<1>5. IsFiniteSet(1 .. n) /\ IsFiniteSet(1 .. n - 1)
  BY <1>1, FS_Interval
<1>6. SumFunctionOnSet(later, 1 .. n - 1) = SumFunctionOnSet(sizes, {next[i] : i \in 1 .. n - 1})
  <2>1. \A i, j \in 1 .. n - 1 : next[i] = next[j] => i = j
    BY <1>1, <1>4
  <2>2. \A i \in 1 .. n - 1 : later[i] \in Int /\ later[i] = sizes[next[i]]
    BY <1>4
  <2>3. PICK S : S = 1 .. n - 1
    OBVIOUS
  <2>4. /\ IsFiniteSet(S) /\ \A i, j \in S : next[i] = next[j] => i = j
        /\ \A i \in S : later[i] \in Int /\ later[i] = sizes[next[i]]
    BY <1>5, <2>1, <2>2, <2>3
  <2>5. SumFunctionOnSet(later, S) = SumFunctionOnSet(sizes, {next[i] : i \in S})
    BY <2>4, SumImage
  <2> QED BY <2>3, <2>5
<1>7. {next[i] : i \in 1 .. n - 1} = (1 .. n) \ {1}
  <2>1. \A i \in 1 .. n - 1 : next[i] \in (1 .. n) \ {1}
    BY <1>1, <1>4
  <2>2. ASSUME NEW j \in (1 .. n) \ {1} PROVE j - 1 \in 1 .. n - 1 /\ next[j - 1] = j
    BY <1>1, <1>4
  <2> QED BY <2>1, <2>2
<1>8. SumFunctionOnSet(sizes, 1 .. n) = sizes[1] + SumFunctionOnSet(sizes, (1 .. n) \ {1})
  <2>1. 1 \in 1 .. n /\ \A i \in 1 .. n : sizes[i] \in Int
    BY <1>1, <1>4
  <2> QED BY <1>5, <2>1, SumRemove
<1>9. SumFunctionOnSet(sizes, 1 .. n) \in Nat /\ SumFunctionOnSet(later, 1 .. n - 1) \in Nat
  BY <1>4, <1>5, SumNat
<1>10. sizes[1] = Size[queue[1]]
  BY <1>1, <1>4
<1> QED BY <1>3, <1>6, <1>7, <1>8, <1>9, <1>10

LEMMA BytesOfNone == Bytes(<<>>) = 0
<1>1. DOMAIN [i \in DOMAIN <<>> |-> Size[<<>>[i]]] = {}
  OBVIOUS
<1> QED BY <1>1, SumEmpty DEF Bytes, SumFunction

LEMMA BytesType ==
  ASSUME NEW queue \in Seq(Packets)
  PROVE  Bytes(queue) \in Nat
<1>1. CASE queue = <<>>
  BY <1>1, BytesOfNone
<1>2. CASE queue # <<>>
  BY <1>2, BytesOfTail
<1> QED BY <1>1, <1>2

(***************************************************************************)
(* A queue that has room still has it without its head.                    *)
(***************************************************************************)
LEMMA RoomInTail ==
  ASSUME NEW queue \in Seq(Packets), queue # <<>>, ~WouldOverflow(queue)
  PROVE  ~WouldOverflow(Tail(queue))
<1>1. /\ Bytes(queue) \in Nat /\ Bytes(Tail(queue)) \in Nat
      /\ Bytes(queue) = Size[queue[1]] + Bytes(Tail(queue))
  BY BytesOfTail
<1>2. /\ Len(Tail(queue)) = Len(queue) - 1 /\ Len(queue) \in Nat
      /\ Size[queue[1]] \in Nat
  BY TailFacts, PacketBufferAssumption
<1>3. DevLimit \in Nat /\ Mtu \in Nat
  BY PortAssumption
<1> QED BY <1>1, <1>2, <1>3 DEF WouldOverflow, Exceeds

(***************************************************************************)
(* A device queue that is not stopped has room for a packet of MTU size.   *)
(***************************************************************************)
RoomInv == ~stopped => ~WouldOverflow(devQueue)

LEMMA AttemptKeepsRoom ==
  ASSUME NEW queue \in Seq(Packets), NEW stop \in BOOLEAN, NEW sending,
         ~stop => ~WouldOverflow(queue), AttemptTransmission(queue, stop, sending)
  PROVE  ~stopped' => ~WouldOverflow(devQueue')
<1>1. CASE Transmits(queue, sending)
  <2>1. devQueue' = Tail(queue) /\ queue # <<>> /\ Wake(stop, devQueue')
    BY <1>1, AttemptCases DEF Transmits
  <2>2. stopped' = (stop /\ WouldOverflow(devQueue'))
    BY <2>1 DEF Wake
  <2>3. ~stop => ~WouldOverflow(devQueue')
    BY <2>1, RoomInTail
  <2> QED BY <2>2, <2>3, Zenon
<1>2. CASE ~Transmits(queue, sending)
  BY <1>2, AttemptCases
<1> QED BY <1>1, <1>2

(***************************************************************************)
(* The MTU of the device bounds the packets, and the queue, if limited in  *)
(* bytes, is not smaller.                                                  *)
(***************************************************************************)
MtuFits == DevUnit = "BYTES" => Mtu <= DevLimit /\ \A p \in Packets : Size[p] <= Mtu

LEMMA RoomInvInit == MtuFits /\ Init => RoomInv
<1> SUFFICES ASSUME MtuFits, Init PROVE RoomInv
  OBVIOUS
<1>1. devQueue = <<>>
  BY DEF Init
<1>2. Len(<<>>) = 0 /\ DevLimit \in Nat \ {0} /\ Mtu \in Nat
  BY PortAssumption
<1> QED BY <1>1, <1>2, BytesOfNone, PortAssumption DEF RoomInv, WouldOverflow, Exceeds, MtuFits

LEMMA RoomForPacket ==
  ASSUME MtuFits, PortTypes, RoomInv, ~stopped, NEW p \in Packets
  PROVE  ~HasNoRoomFor(p)
<1>1. ~WouldOverflow(devQueue) /\ devQueue \in Seq(Packets)
  BY DEF RoomInv, PortTypes
<1>2. Bytes(devQueue) \in Nat /\ Size[p] \in Nat /\ Mtu \in Nat /\ DevLimit \in Nat
  BY <1>1, BytesType, PacketBufferAssumption, PortAssumption
<1>3. CASE DevUnit = "PACKETS"
  BY <1>1, <1>3 DEF WouldOverflow, HasNoRoomFor, Exceeds
<1>4. CASE DevUnit = "BYTES"
  <2>1. Bytes(devQueue) + Mtu <= DevLimit /\ Size[p] <= Mtu
    BY <1>1, <1>2, <1>4 DEF WouldOverflow, Exceeds, MtuFits
  <2>2. Bytes(devQueue) + Size[p] <= DevLimit
    BY <1>2, <2>1
  <2> QED BY <1>2, <1>4, <2>2 DEF HasNoRoomFor, Exceeds
<1> QED BY <1>3, <1>4, PortAssumption

LEMMA RoomInvKept ==
  ASSUME MtuFits
  PROVE  PortTypes /\ RoomInv /\ [Next]_portVars => RoomInv'
<1> SUFFICES ASSUME PortTypes, RoomInv, [Next]_portVars PROVE RoomInv'
  OBVIOUS
<1>1. /\ qdisc \in [Queues -> Seq(Packets)] /\ devQueue \in Seq(Packets) /\ stopped \in BOOLEAN
  BY DEF PortTypes
<1>2. ASSUME ~stopped' => ~WouldOverflow(devQueue') PROVE RoomInv'
  BY <1>2 DEF RoomInv, WouldOverflow, Bytes
<1>3. ASSUME UNCHANGED <<devQueue, stopped>> PROVE RoomInv'
  BY <1>2, <1>3 DEF RoomInv
<1>4. ASSUME NEW p \in Packets, Arrive(p) PROVE RoomInv'
  BY <1>3, <1>4 DEF Arrive, deviceVars
<1>5. ASSUME NEW q \in Queues, Restart(q) PROVE RoomInv'
  <2>1. PICK p : p = qdisc[q][1]
    OBVIOUS
  <2>2. qdisc[q] \in Seq(Packets) /\ qdisc[q] # <<>> /\ Send(p)
    BY <1>1, <1>5, <2>1 DEF Restart
  <2>3. p \in Packets
    BY <2>1, <2>2, TailFacts
  <2>4. ASSUME Dropped(p), stopped' = stopped \/ stopped' = TRUE PROVE RoomInv'
    <3>1. devQueue' = devQueue
      BY <2>4 DEF Dropped
    <3>2. ~stopped' => ~WouldOverflow(devQueue')
      BY <2>4, <3>1 DEF RoomInv
    <3> QED BY <1>2, <3>2
  <2>5. ASSUME SendToDevice(p) PROVE RoomInv'
    <3>1. PICK queue : queue = Append(devQueue, p)
      OBVIOUS
    <3>2. PICK stop : stop = (stopped \/ WouldOverflow(queue))
      OBVIOUS
    <3>3. AttemptTransmission(queue, stop, currentPkt)
      BY <2>5, <3>1, <3>2 DEF SendToDevice
    <3>4. stop \in BOOLEAN
      BY <3>2, Zenon
    <3>5. ~stop => ~WouldOverflow(queue)
      BY <3>2, Zenon
    <3>6. queue \in Seq(Packets)
      BY <1>1, <2>3, <3>1, AppendFacts
    <3>7. ~stopped' => ~WouldOverflow(devQueue')
      BY <3>3, <3>4, <3>5, <3>6, AttemptKeepsRoom
    <3> QED BY <1>2, <3>7
  <2> QED BY <2>2, <2>4, <2>5, SendCases
<1>6. ASSUME RunEnd PROVE RoomInv'
  BY <1>3, <1>6 DEF RunEnd, deviceVars
<1>7. ASSUME WakeRun PROVE RoomInv'
  <2>1. UNCHANGED <<devQueue, stopped>>
    BY <1>7 DEF WakeRun
  <2> QED BY <1>3, <2>1
<1>8. ASSUME NEW p \in Packets, FetchCompletes(p) PROVE RoomInv'
  <2>1. AttemptTransmission(devQueue, stopped, currentPkt)
    BY <1>8 DEF FetchCompletes, HandleRequest
  <2>2. ~stopped' => ~WouldOverflow(devQueue')
    BY <1>1, <2>1, AttemptKeepsRoom DEF RoomInv
  <2> QED BY <1>2, <2>2
<1>9. ASSUME TransmitComplete PROVE RoomInv'
  <2>1. AttemptTransmission(devQueue, stopped, NoPacket)
    BY <1>9 DEF TransmitComplete
  <2>2. ~stopped' => ~WouldOverflow(devQueue')
    BY <1>1, <2>1, AttemptKeepsRoom DEF RoomInv
  <2> QED BY <1>2, <2>2
<1>10. ASSUME LinkDown PROVE RoomInv'
  BY <1>3, <1>10 DEF LinkDown, deviceVars
<1>11. CASE UNCHANGED portVars
  BY <1>3, <1>11 DEF portVars, deviceVars
<1> QED BY <1>4, <1>5, <1>6, <1>7, <1>8, <1>9, <1>10, <1>11 DEF Next

LEMMA StepsLoseOnArrival ==
  ASSUME MtuFits, PortTypes, RoomInv, Next, linkUp, NEW p \in lost' \ lost
  PROVE  status[p] = "out"
<1>1. ASSUME NEW x \in Packets, Arrive(x) PROVE status[p] = "out"
  <2>1. status[x] = "out" /\ p = x
    BY <1>1, ArrivalSets DEF Arrive
  <2> QED BY <2>1
<1>2. ASSUME NEW q \in Queues, Restart(q) PROVE FALSE
  <2>1. PICK x : x = qdisc[q][1]
    OBVIOUS
  <2>2. qdisc[q] \in Seq(Packets) /\ qdisc[q] # <<>> /\ Send(x) /\ ~stopped
    BY <1>2, <2>1 DEF PortTypes, Restart
  <2>3. x \in Packets
    BY <2>1, <2>2, TailFacts
  <2>4. SendToDevice(x)
    BY <2>2, <2>3, RoomForPacket, SendCases
  <2>5. lost' = lost
    BY <2>4 DEF SendToDevice
  <2> QED BY <2>5
<1>3. ASSUME RunEnd \/ WakeRun \/ TransmitComplete \/ LinkDown \/ \E x \in Packets : FetchCompletes(x)
      PROVE  FALSE
  <2>1. lost' = lost
    BY <1>3 DEF RunEnd, WakeRun, TransmitComplete, LinkDown, FetchCompletes
  <2> QED BY <2>1
<1> QED BY <1>1, <1>2, <1>3 DEF Next

(***************************************************************************)
(* The device queue is stopped in time: while the link is up the device    *)
(* never refuses a packet that the disc has taken, for any packets within  *)
(* the MTU (QueueDisc::Restart asks IsStopped, NetDeviceQueue::            *)
(* PacketEnqueued stops the queue when another MTU would not fit).  The    *)
(* premise matters: a full packet with its link header is longer than the  *)
(* MTU, and a queue limited in bytes may refuse that one; a limit below    *)
(* the MTU refuses even the first packet.                                  *)
(***************************************************************************)
THEOREM DeviceRefusesNothing ==
  ASSUME MtuFits
  PROVE  Spec => SentIsConsumed
<1> DEFINE Inv == PortTypes /\ RoomInv
           OnArrival == \A p \in lost' \ lost : linkUp => status[p] = "out"
<1>1. Init => Inv
  BY PortInitTypes, RoomInvInit
<1>2. Inv /\ [Next]_portVars => Inv'
  BY PortTypesKept, RoomInvKept
<1>3. Inv /\ [Next]_portVars => [OnArrival]_portVars
  BY StepsLoseOnArrival
<1> HIDE DEF Inv
<1> QED BY <1>1, <1>2, <1>3, PTL DEF Spec, SentIsConsumed

=============================================================================
