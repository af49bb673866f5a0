------------------------ MODULE OffChipBuffer_proofs ------------------------
(***************************************************************************)
(* The off-chip buffer for any packets, sizes, memories and weights: its   *)
(* types, its engine as a single chain of events, where every packet and   *)
(* its requests are, what a read stops, and what the two memories hold.    *)
(***************************************************************************)
EXTENDS OffChipBuffer, CollectionLemmas

(***************************************************************************)
(* A decision picks a vector that holds requests and keeps the types of    *)
(* the counters (ArbitrateWR asks for one only when there is work).        *)
(***************************************************************************)
LEMMA DecisionSound ==
  ASSUME NEW algorithm,
         NEW scan \in WrrState, NEW writes \in BOOLEAN, NEW reads \in BOOLEAN,
         writes \/ reads
  PROVE  LET d == WrrDecision(algorithm, scan, writes, reads)
         IN /\ d.wrr \in WrrState
            /\ \/ d.result = "PKTWRITE" /\ writes
               \/ d.result = "PKTREAD" /\ reads
<1> DEFINE d == WrrDecision(algorithm, scan, writes, reads)
<1>1. \A i \in 0 .. 2, c \in Nat, r \in Nat : ScanAt(i, c, r) \in WrrState
  BY DEF WrrState, ScanAt
<1>2. /\ scan.index \in 0 .. 2 /\ scan.count \in Nat /\ scan.round \in Nat
      /\ 0 < WriteWeight /\ 0 < ReadWeight
  BY ArbiterAssumption DEF WrrState
<1>3. CASE algorithm = "CLASSICALWRR"
  BY <1>1, <1>2, <1>3 DEF WrrDecision, DoReadWriteClassicalWrr, ClassicalWrite, ClassicalRead
<1>4. CASE algorithm # "CLASSICALWRR"
  BY <1>1, <1>2, <1>4 DEF WrrDecision, DoReadWriteInterleavedWrr, InterleavedRound
<1> QED BY <1>3, <1>4

(***************************************************************************)
(* ArbitrateWR says NONE only when nothing waits to be read, and never     *)
(* picks an empty vector.                                                  *)
(***************************************************************************)
LEMMA ArbitrateWRSound ==
  ASSUME wrr \in WrrState, NEW wvec, NEW rvec, NEW used
  PROVE  LET d == ArbitrateWR(wvec, rvec, used)
         IN /\ d.wrr \in WrrState
            /\ \/ d.result = "NONE" /\ rvec = <<>>
               \/ d.result = "PKTWRITE" /\ wvec # <<>>
               \/ d.result = "PKTREAD" /\ rvec # <<>>
<1> DEFINE d == ArbitrateWR(wvec, rvec, used)
           Of(r) == [result |-> r, wrr |-> wrr]
<1>1. \A r : Of(r).result = r /\ Of(r).wrr = wrr
  OBVIOUS
<1>2. CASE rvec = <<>> /\ (wvec = <<>> \/ DramIsFull(wvec, used))
  <2>1. d = Of("NONE")
    BY <1>2, Zenon DEF ArbitrateWR
  <2> HIDE DEF d, Of
  <2> QED BY <1>1, <1>2, <2>1, Zenon DEF d
<1>3. CASE ~(rvec = <<>> /\ (wvec = <<>> \/ DramIsFull(wvec, used))) /\ DramIsFull(wvec, used)
  <2>1. d = Of("PKTREAD") /\ rvec # <<>>
    BY <1>3, Zenon DEF ArbitrateWR
  <2> HIDE DEF d, Of
  <2> QED BY <1>1, <2>1, Zenon DEF d
<1>4. CASE ~(rvec = <<>> /\ (wvec = <<>> \/ DramIsFull(wvec, used))) /\ ~DramIsFull(wvec, used)
  <2>1. d = WrrDecision(ArbAlgorithm, wrr, wvec # <<>>, rvec # <<>>) /\ (wvec # <<>> \/ rvec # <<>>)
    BY <1>4, Zenon DEF ArbitrateWR
  <2>2. (wvec # <<>>) \in BOOLEAN /\ (rvec # <<>>) \in BOOLEAN
    BY Zenon
  <2>3. ASSUME NEW w \in BOOLEAN, NEW r \in BOOLEAN, w \/ r
        PROVE  /\ WrrDecision(ArbAlgorithm, wrr, w, r).wrr \in WrrState
               /\ \/ WrrDecision(ArbAlgorithm, wrr, w, r).result = "PKTWRITE" /\ w
                  \/ WrrDecision(ArbAlgorithm, wrr, w, r).result = "PKTREAD" /\ r
    BY <2>3, DecisionSound, Zenon
  <2> HIDE DEF d
  <2> QED BY <2>1, <2>2, <2>3, Zenon DEF d
<1> QED BY <1>2, <1>3, <1>4, Zenon

(***************************************************************************)
(* What ScheduleCycle leaves: the pending events and, unless the engine    *)
(* goes idle with nothing to read, the start of one cycle that has a       *)
(* request to serve.                                                       *)
(***************************************************************************)
HasScheduled(pending) ==
  /\ wrr' \in WrrState
  /\ \/ state' = "IDLE" /\ events' = pending /\ readVec' = <<>>
     \/ state' = "BUSY" /\ events' = pending \cup {CycleStart("PKTWRITE")} /\ writeVec' # <<>>
     \/ state' = "BUSY" /\ events' = pending \cup {CycleStart("PKTREAD")} /\ readVec' # <<>>

LEMMA ScheduleCycleStep ==
  ASSUME wrr \in WrrState, NEW pending, ScheduleCycle(pending)
  PROVE  HasScheduled(pending)
<1> DEFINE d == ArbitrateWR(writeVec', readVec', dramUsed')
<1>1. /\ wrr' = d.wrr
      /\ state' = IF d.result = "NONE" THEN "IDLE" ELSE "BUSY"
      /\ events' = IF d.result = "NONE" THEN pending ELSE pending \cup {CycleStart(d.result)}
  BY Zenon DEF ScheduleCycle
<1>2. /\ d.wrr \in WrrState
      /\ \/ d.result = "NONE" /\ readVec' = <<>>
         \/ d.result = "PKTWRITE" /\ writeVec' # <<>>
         \/ d.result = "PKTREAD" /\ readVec' # <<>>
  BY ArbitrateWRSound, Zenon
<1> HIDE DEF d
<1> QED BY <1>1, <1>2 DEF HasScheduled

-----------------------------------------------------------------------------
(***************************************************************************)
(* The inductive invariant.  A packet never has more bytes in DRAM than it *)
(* has at all (without it AtomicWrite could count backwards), and the      *)
(* engine is either idle with nothing to read, about to start a cycle that *)
(* has a request, or inside one cycle.                                     *)
(***************************************************************************)
PacketsOK ==
  /\ location \in [Packets -> Locations]
  /\ stored \in [Packets -> Nat]
  /\ \A p \in Packets : stored[p] <= Size[p]
  /\ wcacheUsed \in Int
  /\ dramUsed \in Int
  /\ nWcachePackets \in Int
  /\ nDramPackets \in 0 .. Wrap - 1
  /\ writingPacket \in Packets \cup {NoPacket}
  /\ writingStopFlag \in BOOLEAN

QueuesOK ==
  /\ channel \in Seq(Requests)
  /\ writeVec \in Seq(Packets)
  /\ readVec \in Seq(Packets)

AtomicEvents ==
  [at : {"CycleAtomic"}, packet : Packets, result : {"PKTWRITE", "PKTREAD"}, left : Nat]

EngineOK ==
  /\ wrr \in WrrState
  /\ \/ state = "IDLE" /\ events = {} /\ readVec = <<>>
     \/ state = "BUSY" /\ events = {CycleStart("PKTWRITE")} /\ writeVec # <<>>
     \/ state = "BUSY" /\ events = {CycleStart("PKTREAD")} /\ readVec # <<>>
     \/ state = "BUSY" /\ \E e \in AtomicEvents : events = {e}

EngineInv ==
  /\ stage \in [Packets -> {"new", "stored", "asked"}]
  /\ PacketsOK
  /\ QueuesOK
  /\ EngineOK

LEMMA EngineInvImplies == EngineInv => TypeOK /\ OneEventChain
<1> SUFFICES ASSUME EngineInv
             PROVE  TypeOK /\ OneEventChain
  OBVIOUS
<1>1. \A e \in AtomicEvents : e \in Events /\ e # CycleStart("PKTWRITE") /\ e # CycleStart("PKTREAD")
  BY DEF AtomicEvents, Events, CycleStart
<1>2. /\ CycleStart("PKTWRITE") \in Events
      /\ CycleStart("PKTREAD") \in Events
      /\ CycleStart("PKTWRITE") # CycleStart("PKTREAD")
  BY DEF Events, CycleStart
<1>3. state \in {"IDLE", "BUSY"} /\ events \subseteq Events
  BY <1>1, <1>2, Zenon DEF EngineInv, EngineOK
<1>4. TypeOK
  BY <1>3, Zenon DEF EngineInv, EngineOK, PacketsOK, QueuesOK, TypeOK
<1>5. OneEventChain
  BY <1>1, <1>2 DEF EngineInv, EngineOK, OneEventChain, InterWriteReqWaitEvent
<1> QED BY <1>4, <1>5

LEMMA InitEngineInv == Init => EngineInv
<1> SUFFICES ASSUME Init
             PROVE  EngineInv
  OBVIOUS
<1>1. PacketsOK
  <2>1. 0 \in 0 .. Wrap - 1 /\ \A p \in Packets : 0 <= Size[p]
    BY BufferAssumption
  <2>2. location \in [Packets -> Locations]
    BY DEF Init, Locations
  <2>3. stored \in [Packets -> Nat] /\ \A p \in Packets : stored[p] <= Size[p]
    BY <2>1 DEF Init
  <2>4. wcacheUsed \in Int /\ dramUsed \in Int /\ nWcachePackets \in Int
    BY DEF Init
  <2>5. nDramPackets \in 0 .. Wrap - 1
    BY <2>1 DEF Init
  <2> QED BY <2>2, <2>3, <2>4, <2>5, Zenon DEF Init, PacketsOK
<1>2. QueuesOK
  BY EmptySeq DEF Init, QueuesOK
<1>3. InitWrr \in WrrState
  BY DEF InitWrr, ScanAt, WrrState
<1>4. EngineOK
  BY <1>3, Zenon DEF Init, EngineOK
<1>5. stage \in [Packets -> {"new", "stored", "asked"}]
  BY DEF Init
<1> QED BY <1>1, <1>2, <1>4, <1>5 DEF EngineInv

-----------------------------------------------------------------------------
(***************************************************************************)
(* A decision taken with no event pending makes a sound engine.            *)
(***************************************************************************)
LEMMA ScheduledEngine == HasScheduled({}) => EngineOK'
BY Zenon DEF HasScheduled, EngineOK

LEMMA KickKeepsEngine ==
  ASSUME EngineOK, KickIfIdle,
         writeVec # <<>> => writeVec' # <<>>,
         readVec # <<>> => readVec' # <<>>
  PROVE  EngineOK'
<1>1. CASE state = "IDLE"
  <2>1. events = {}
    BY <1>1 DEF EngineOK
  <2>2. ScheduleCycle({})
    BY <1>1, <2>1, Zenon DEF KickIfIdle
  <2> QED BY <2>2, ScheduleCycleStep, ScheduledEngine DEF EngineOK
<1>2. CASE state # "IDLE"
  BY <1>2, Zenon DEF KickIfIdle, EngineOK, engineVars
<1> QED BY <1>1, <1>2

(***************************************************************************)
(* Sending a request, at once or through the channel, and its arrival.     *)
(***************************************************************************)
LEMMA WriteRequestArrives ==
  ASSUME QueuesOK, EngineOK, NEW p \in Packets, SendWriteRequestComplete(p)
  PROVE  writeVec' \in Seq(Packets) /\ readVec' \in Seq(Packets) /\ EngineOK'
<1>1. CASE location'[p] = "NOTINBUFFER"
  BY <1>1, Zenon DEF SendWriteRequestComplete, QueuesOK, EngineOK, engineVars
<1>2. CASE location'[p] # "NOTINBUFFER"
  <2>1. writeVec' = Append(writeVec, p) /\ KickIfIdle /\ readVec' = readVec
    BY <1>2, Zenon DEF SendWriteRequestComplete
  <2>2. writeVec' \in Seq(Packets) /\ writeVec' # <<>>
    BY <2>1, AppendProperties DEF QueuesOK
  <2> QED BY <2>1, <2>2, KickKeepsEngine DEF QueuesOK
<1> QED BY <1>1, <1>2

LEMMA ReadRequestArrives ==
  ASSUME QueuesOK, EngineOK, NEW p \in Packets, SendReadRequestComplete(p)
  PROVE  writeVec' \in Seq(Packets) /\ readVec' \in Seq(Packets) /\ EngineOK'
<1>1. readVec' = Append(readVec, p) /\ KickIfIdle /\ writeVec' = writeVec
  BY Zenon DEF SendReadRequestComplete
<1>2. readVec' \in Seq(Packets) /\ readVec' # <<>>
  BY <1>1, AppendProperties DEF QueuesOK
<1> QED BY <1>1, <1>2, KickKeepsEngine DEF QueuesOK

LEMMA RequestSent ==
  ASSUME QueuesOK, EngineOK, NEW op \in {"write", "read"}, NEW p \in Packets, SendRequest(op, p)
  PROVE  QueuesOK' /\ EngineOK'
<1>1. CASE DelayedChannel
  <2>1. /\ channel' = Append(channel, [op |-> op, packet |-> p])
        /\ UNCHANGED <<writeVec, readVec, engineVars>>
    BY <1>1, Zenon DEF SendRequest
  <2>2. [op |-> op, packet |-> p] \in Requests
    BY DEF Requests
  <2>3. channel' \in Seq(Requests)
    BY <2>1, <2>2, AppendProperties DEF QueuesOK
  <2> QED BY <2>1, <2>3, Zenon DEF QueuesOK, EngineOK, engineVars
<1>2. CASE ~DelayedChannel
  <2>1. UNCHANGED channel /\ (SendWriteRequestComplete(p) \/ SendReadRequestComplete(p))
    BY <1>2, Zenon DEF SendRequest
  <2> QED BY <2>1, WriteRequestArrives, ReadRequestArrives DEF QueuesOK
<1> QED BY <1>1, <1>2

-----------------------------------------------------------------------------
(***************************************************************************)
(* One event of a cycle, taken out of the simulator's queue.               *)
(***************************************************************************)
LEMMA FetchKeepsPackets ==
  ASSUME PacketsOK, NEW p \in Packets, FetchComplete(p)
  PROVE  location' \in [Packets -> Locations]
BY DEF PacketsOK, FetchComplete, Locations

LEMMA CompleteStep ==
  ASSUME PacketsOK, EngineOK, NEW p \in Packets, NEW result \in {"PKTWRITE", "PKTREAD"},
         NEW left \in Nat, NEW writing \in Packets \cup {NoPacket},
         CycleComplete(p, result, left, {}, writing)
  PROVE  PacketsOK' /\ EngineOK'
<1>1. EngineOK'
  <2>1. ScheduleCycle({})
    BY Zenon DEF CycleComplete
  <2> QED BY <2>1, ScheduleCycleStep, ScheduledEngine DEF EngineOK
<1>2. UNCHANGED <<stored, wcacheUsed, dramUsed, nWcachePackets>>
  BY Zenon DEF CycleComplete
<1>3. writingStopFlag' \in BOOLEAN
  <2>1. writingStopFlag' = (writingStopFlag /\ left = 0)
    BY Zenon DEF CycleComplete, StopFlagAfter
  <2> QED BY <2>1, Zenon
<1>4. writingPacket' \in Packets \cup {NoPacket}
  <2>1. writingPacket' \in {NoPacket, writing}
    BY Zenon DEF CycleComplete
  <2> QED BY <2>1, Zenon
<1>5. /\ location' \in [Packets -> Locations]
      /\ nDramPackets' \in 0 .. Wrap - 1
  <2>1. CASE result = "PKTREAD"
    <3>1. FetchComplete(p) /\ nDramPackets' \in {(nDramPackets - 1) % Wrap, nDramPackets}
      BY <2>1, Zenon DEF CycleComplete
    <3>2. (nDramPackets - 1) % Wrap \in 0 .. Wrap - 1
      BY BufferAssumption DEF PacketsOK
    <3> QED BY <3>1, <3>2, FetchKeepsPackets DEF PacketsOK
  <2>2. CASE result # "PKTREAD"
    BY <2>2, Zenon DEF CycleComplete, PacketsOK
  <2> QED BY <2>1, <2>2
<1> QED BY <1>1, <1>2, <1>3, <1>4, <1>5, Zenon DEF PacketsOK

(***************************************************************************)
(* The bytes one atomic write moves: some, no more than the packet has     *)
(* left outside DRAM.                                                      *)
(***************************************************************************)
LEMMA AtomicWriteStep ==
  ASSUME PacketsOK, wrr \in WrrState, state = "BUSY",
         NEW p \in Packets, NEW left \in Nat, NEW writing \in Packets \cup {NoPacket},
         AtomicWrite(p, left, {}, writing), UNCHANGED writingStopFlag
  PROVE  PacketsOK' /\ EngineOK'
<1> DEFINE ops == OpsNow(left)
           rest == Size[p] - stored[p]
           bytes == IF ops * BurstSize < rest THEN ops * BurstSize ELSE rest
           whole == bytes = rest
<1>1. /\ stored' = [stored EXCEPT ![p] = @ + bytes]
      /\ wcacheUsed' = wcacheUsed - bytes
      /\ dramUsed' = dramUsed + bytes
      /\ location' = [location EXCEPT ![p] = IF whole THEN "OFFCHIPBUFFER"
                                                      ELSE "WRITINGTOOFFCHIPBUFFER"]
      /\ nWcachePackets' = IF whole THEN nWcachePackets - 1 ELSE nWcachePackets
      /\ nDramPackets' = IF whole THEN (nDramPackets + 1) % Wrap ELSE nDramPackets
      /\ events' = {} \cup {CycleAtomic(p, "PKTWRITE", left - ops)}
      /\ writingPacket' = writing
      /\ UNCHANGED <<state, wrr>>
  BY Zenon DEF AtomicWrite
<1>2. ops \in Nat /\ left - ops \in Nat
  BY BufferAssumption DEF OpsNow
<1>3. ops * BurstSize \in Nat
  BY <1>2, BufferAssumption
<1>4. rest \in Nat /\ bytes \in Nat /\ bytes <= rest
  BY <1>3, BufferAssumption DEF PacketsOK
<1>5. CycleAtomic(p, "PKTWRITE", left - ops) \in AtomicEvents
  BY <1>2 DEF CycleAtomic, AtomicEvents
<1> HIDE DEF ops, bytes, whole
<1>6. EngineOK'
  <2>1. events' = {CycleAtomic(p, "PKTWRITE", left - ops)}
    BY <1>1, Zenon
  <2> QED BY <1>1, <1>5, <2>1, Zenon DEF EngineOK
<1>7. stored' \in [Packets -> Nat] /\ \A q \in Packets : stored'[q] <= Size[q]
  <2>1. stored[p] + bytes \in Nat /\ stored[p] + bytes <= Size[p]
    BY <1>4, BufferAssumption DEF PacketsOK
  <2>2. stored' = [stored EXCEPT ![p] = stored[p] + bytes]
    BY <1>1, Zenon
  <2> QED BY <2>1, <2>2 DEF PacketsOK
<1>8. location' \in [Packets -> Locations]
  BY <1>1 DEF PacketsOK, Locations
<1>9. wcacheUsed' \in Int /\ dramUsed' \in Int /\ nWcachePackets' \in Int
  BY <1>1, <1>4 DEF PacketsOK
<1>10. nDramPackets' \in 0 .. Wrap - 1
  BY <1>1, BufferAssumption DEF PacketsOK
<1> QED BY <1>1, <1>6, <1>7, <1>8, <1>9, <1>10, Zenon DEF PacketsOK

LEMMA AtomicReadStep ==
  ASSUME PacketsOK, wrr \in WrrState, state = "BUSY",
         NEW p \in Packets, NEW writing \in Packets \cup {NoPacket},
         AtomicRead(p, {}, writing), UNCHANGED writingStopFlag
  PROVE  PacketsOK' /\ EngineOK'
<1>1. /\ stored' = [stored EXCEPT ![p] = 0]
      /\ dramUsed' = dramUsed - stored[p]
      /\ events' = {} \cup {CycleAtomic(p, "PKTREAD", 0)}
      /\ writingPacket' = writing
      /\ UNCHANGED <<location, wcacheUsed, nWcachePackets, nDramPackets, state, wrr>>
  BY Zenon DEF AtomicRead, BytesRead
<1>2. CycleAtomic(p, "PKTREAD", 0) \in AtomicEvents
  BY DEF CycleAtomic, AtomicEvents
<1>3. EngineOK'
  <2>1. events' = {CycleAtomic(p, "PKTREAD", 0)}
    BY <1>1, Zenon
  <2> QED BY <1>1, <1>2, <2>1, Zenon DEF EngineOK
<1>4. stored' \in [Packets -> Nat] /\ \A q \in Packets : stored'[q] <= Size[q]
  <2>1. 0 \in Nat /\ 0 <= Size[p]
    BY BufferAssumption
  <2> QED BY <1>1, <2>1 DEF PacketsOK
<1>5. dramUsed' \in Int
  BY <1>1 DEF PacketsOK
<1> QED BY <1>1, <1>3, <1>4, <1>5, Zenon DEF PacketsOK

LEMMA AtomicStep ==
  ASSUME PacketsOK, EngineOK, state = "BUSY",
         NEW p \in Packets, NEW result \in {"PKTWRITE", "PKTREAD"}, NEW left \in Nat,
         NEW writing \in Packets \cup {NoPacket},
         ScheduleCycleAtomic(p, result, left, {}, writing)
  PROVE  PacketsOK' /\ EngineOK'
<1>1. wrr \in WrrState
  BY DEF EngineOK
<1>2. CASE CycleIsOver(left)
  <2>1. CycleComplete(p, result, left, {}, writing)
    BY <1>2, Zenon DEF ScheduleCycleAtomic
  <2> QED BY <2>1, CompleteStep
<1>3. CASE ~CycleIsOver(left) /\ result = "PKTWRITE"
  <2>1. AtomicWrite(p, left, {}, writing) /\ UNCHANGED writingStopFlag
    BY <1>3, Zenon DEF ScheduleCycleAtomic
  <2> QED BY <1>1, <2>1, AtomicWriteStep
<1>4. CASE ~CycleIsOver(left) /\ result # "PKTWRITE"
  <2>1. AtomicRead(p, {}, writing) /\ UNCHANGED writingStopFlag
    BY <1>4, Zenon DEF ScheduleCycleAtomic
  <2> QED BY <1>1, <2>1, AtomicReadStep
<1> QED BY <1>2, <1>3, <1>4

LEMMA OpTimesNat == \A n \in Nat : OpTimes(n) \in Nat
BY BufferAssumption DEF OpTimes

-----------------------------------------------------------------------------
(***************************************************************************)
(* The actions.                                                            *)
(***************************************************************************)
LEMMA WriteInv ==
  ASSUME EngineInv, NEW p \in Packets, Write(p)
  PROVE  EngineInv'
<1>1. QueuesOK' /\ EngineOK'
  BY RequestSent DEF Write, EngineInv
<1>2. stage' \in [Packets -> {"new", "stored", "asked"}]
  BY DEF Write, EngineInv
<1>3. location' \in [Packets -> Locations]
  BY DEF Write, EngineInv, PacketsOK, Locations
<1>4. wcacheUsed' \in Int /\ nWcachePackets' \in Int
  BY BufferAssumption DEF Write, EngineInv, PacketsOK
<1>5. PacketsOK'
  BY <1>3, <1>4, Zenon DEF Write, EngineInv, PacketsOK, writingVars
<1> QED BY <1>1, <1>2, <1>5 DEF EngineInv

LEMMA RequestArrivesInv ==
  ASSUME EngineInv, RequestArrives
  PROVE  EngineInv'
<1>1. /\ channel[1].packet \in Packets
      /\ channel' \in Seq(Requests)
  <2>1. channel \in Seq(Requests) /\ channel # <<>> /\ channel' = Tail(channel)
    BY Zenon DEF RequestArrives, EngineInv, QueuesOK
  <2>2. channel[1] \in Requests
    BY <2>1
  <2> QED BY <2>1, <2>2, HeadTailProperties DEF Requests
<1>2. writeVec' \in Seq(Packets) /\ readVec' \in Seq(Packets) /\ EngineOK'
  <2>1. \/ SendWriteRequestComplete(channel[1].packet)
        \/ SendReadRequestComplete(channel[1].packet)
    BY Zenon DEF RequestArrives
  <2> QED BY <1>1, <2>1, WriteRequestArrives, ReadRequestArrives DEF EngineInv
<1>3. UNCHANGED <<packetVars, stage, counterVars, writingVars>>
  BY Zenon DEF RequestArrives
<1> QED BY <1>1, <1>2, <1>3, Zenon
        DEF EngineInv, QueuesOK, PacketsOK, packetVars, counterVars, writingVars

LEMMA ReleaseTypes ==
  ASSUME EngineInv, NEW p \in Packets, Asked(p), ReleaseWcache(p)
  PROVE  /\ stage' \in [Packets -> {"new", "stored", "asked"}]
         /\ wcacheUsed' \in Int
         /\ nWcachePackets' \in Int
<1>1. stage' \in [Packets -> {"new", "stored", "asked"}]
  BY DEF Asked, EngineInv
<1>2. Size[p] \in Int /\ stored[p] \in Int /\ wcacheUsed \in Int /\ nWcachePackets \in Int
  BY BufferAssumption DEF EngineInv, PacketsOK
<1> QED BY <1>1, <1>2 DEF ReleaseWcache

LEMMA ReadFromWcacheInv ==
  ASSUME EngineInv, NEW p \in Packets, ReadFromWcache(p)
  PROVE  EngineInv'
<1>1. /\ stage' \in [Packets -> {"new", "stored", "asked"}]
      /\ wcacheUsed' \in Int
      /\ nWcachePackets' \in Int
  BY ReleaseTypes DEF ReadFromWcache
<1>2. /\ location' \in [Packets -> Locations]
  BY FetchKeepsPackets DEF ReadFromWcache, EngineInv
<1>3. /\ CancelRequest(p)
      /\ UNCHANGED <<channel, readVec, writingPacket, stored, dramUsed, nDramPackets>>
  BY Zenon DEF ReadFromWcache, CancelRequest
<1>4. writingStopFlag' \in BOOLEAN
  BY <1>3, Zenon DEF CancelRequest, EngineInv, PacketsOK
<1>5. writeVec' \in Seq(Packets) /\ EngineOK'
  <2>1. CASE UNCHANGED <<writeVec, engineVars>>
    BY <1>3, <2>1, Zenon DEF EngineInv, QueuesOK, EngineOK, engineVars
  <2>2. CASE EraseWriteRequest(p)
    <3>1. PICK i \in DOMAIN writeVec :
            /\ writeVec' = RemoveAt(writeVec, i)
            /\ IF writeVec' = <<>> /\ InterWriteReqWaitEvent \in events
                 THEN ScheduleCycle(CancelWait(events))
                 ELSE UNCHANGED engineVars
      BY <2>2, Zenon DEF EraseWriteRequest
    <3>2. writeVec' \in Seq(Packets)
      BY <3>1, RemoveAtProperties DEF EngineInv, QueuesOK
    <3>3. CASE writeVec' = <<>> /\ InterWriteReqWaitEvent \in events
      <4>1. CancelWait(events) = {}
        <5>1. \A e, f \in events : e = f
          BY EngineInvImplies, Zenon DEF OneEventChain
        <5> QED BY <3>3, <5>1, Zenon DEF CancelWait
      <4>2. ScheduleCycle({})
        BY <3>1, <3>3, <4>1, Zenon
      <4> QED BY <3>2, <4>2, ScheduleCycleStep, ScheduledEngine DEF EngineInv, EngineOK
    <3>4. CASE ~(writeVec' = <<>> /\ InterWriteReqWaitEvent \in events)
      <4>1. UNCHANGED engineVars
        BY <3>1, <3>4, Zenon
      <4>2. events = {CycleStart("PKTWRITE")} => writeVec' # <<>>
        BY <3>4, Zenon DEF InterWriteReqWaitEvent
      <4> QED BY <1>3, <3>2, <4>1, <4>2, Zenon DEF EngineInv, EngineOK, engineVars
    <3> QED BY <3>3, <3>4
  <2> QED BY <1>3, <2>1, <2>2, Zenon DEF CancelRequest
<1> QED BY <1>1, <1>2, <1>3, <1>4, <1>5, Zenon DEF EngineInv, QueuesOK, PacketsOK

LEMMA ReadInterruptsWriteInv ==
  ASSUME EngineInv, NEW p \in Packets, ReadInterruptsWrite(p)
  PROVE  EngineInv'
<1>1. /\ stage' \in [Packets -> {"new", "stored", "asked"}]
      /\ wcacheUsed' \in Int
      /\ nWcachePackets' \in Int
  BY ReleaseTypes DEF ReadInterruptsWrite
<1>2. QueuesOK' /\ EngineOK'
  BY RequestSent DEF ReadInterruptsWrite, EngineInv
<1>3. writingStopFlag' \in BOOLEAN
  <2>1. writingStopFlag' = (writingStopFlag \/ writingPacket = p)
    BY Zenon DEF ReadInterruptsWrite
  <2> QED BY <2>1, Zenon
<1>4. PacketsOK'
  BY <1>1, <1>3, Zenon DEF ReadInterruptsWrite, EngineInv, PacketsOK, packetVars
<1> QED BY <1>1, <1>2, <1>4 DEF EngineInv

LEMMA ReadFromDramInv ==
  ASSUME EngineInv, NEW p \in Packets, ReadFromDram(p)
  PROVE  EngineInv'
<1>1. stage' \in [Packets -> {"new", "stored", "asked"}]
  BY DEF ReadFromDram, Asked, EngineInv
<1>2. QueuesOK' /\ EngineOK'
  BY RequestSent DEF ReadFromDram, EngineInv
<1>3. PacketsOK'
  BY Zenon DEF ReadFromDram, EngineInv, PacketsOK, packetVars, counterVars, writingVars
<1> QED BY <1>1, <1>2, <1>3 DEF EngineInv

LEMMA StartWriteCycleInv ==
  ASSUME EngineInv, NEW i \in DOMAIN writeVec, StartWriteCycle(i)
  PROVE  EngineInv'
<1>1. /\ writeVec' = RemoveAt(writeVec, i)
      /\ ScheduleCycleAtomic(writeVec[i], "PKTWRITE", OpTimes(Size[writeVec[i]]),
                             events \ {InterWriteReqWaitEvent}, writeVec[i])
  BY Zenon DEF StartWriteCycle
<1>2. writeVec' \in Seq(Packets) /\ writeVec[i] \in Packets
  BY <1>1, RemoveAtProperties DEF EngineInv, QueuesOK
<1>3. events \ {InterWriteReqWaitEvent} = {} /\ state = "BUSY"
  <2>1. OneEventChain /\ InterWriteReqWaitEvent \in events
    BY EngineInvImplies, Zenon DEF StartWriteCycle
  <2>2. state \in {"IDLE", "BUSY"}
    BY Zenon DEF EngineInv, EngineOK
  <2> QED BY <2>1, <2>2, Zenon DEF OneEventChain
<1>4. OpTimes(Size[writeVec[i]]) \in Nat
  BY <1>2, OpTimesNat, BufferAssumption
<1>5. PacketsOK' /\ EngineOK'
  <2>1. ScheduleCycleAtomic(writeVec[i], "PKTWRITE", OpTimes(Size[writeVec[i]]), {}, writeVec[i])
    BY <1>1, <1>3, Zenon
  <2> QED BY <1>2, <1>3, <1>4, <2>1, AtomicStep DEF EngineInv
<1> QED BY <1>2, <1>5, Zenon DEF StartWriteCycle, EngineInv, QueuesOK

LEMMA StartReadCycleInv ==
  ASSUME EngineInv, StartReadCycle
  PROVE  EngineInv'
<1>1. events \ {CycleStart("PKTREAD")} = {} /\ state = "BUSY" /\ readVec # <<>>
  <2>1. OneEventChain /\ CycleStart("PKTREAD") \in events
    BY EngineInvImplies, Zenon DEF StartReadCycle
  <2>2. state \in {"IDLE", "BUSY"}
    BY Zenon DEF EngineInv, EngineOK
  <2> QED BY <2>1, <2>2, Zenon DEF OneEventChain
<1>2. /\ readVec' = Tail(readVec)
      /\ ScheduleCycleAtomic(readVec[1], "PKTREAD", OpTimes(stored[readVec[1]]), {}, writingPacket)
      /\ UNCHANGED <<stage, channel, writeVec>>
  BY <1>1, Zenon DEF StartReadCycle
<1>3. readVec' \in Seq(Packets) /\ readVec[1] \in Packets
  BY <1>1, <1>2, HeadTailProperties DEF EngineInv, QueuesOK
<1>4. OpTimes(stored[readVec[1]]) \in Nat
  BY <1>3, OpTimesNat DEF EngineInv, PacketsOK
<1>5. PacketsOK' /\ EngineOK'
  BY <1>1, <1>2, <1>3, <1>4, AtomicStep DEF EngineInv, PacketsOK
<1> QED BY <1>2, <1>3, <1>5, Zenon DEF EngineInv, QueuesOK

LEMMA NextAtomicInv ==
  ASSUME EngineInv, NEW e \in events, NextAtomic(e)
  PROVE  EngineInv'
<1>1. /\ e.at = "CycleAtomic"
      /\ UNCHANGED <<stage, channel, writeVec, readVec>>
      /\ ScheduleCycleAtomic(e.packet, e.result, e.left, events \ {e}, writingPacket)
  BY Zenon DEF NextAtomic
<1>2. events \ {e} = {} /\ state = "BUSY"
  <2>1. OneEventChain
    BY EngineInvImplies
  <2>2. state \in {"IDLE", "BUSY"}
    BY Zenon DEF EngineInv, EngineOK
  <2> QED BY <2>1, <2>2, Zenon DEF OneEventChain
<1>3. e.packet \in Packets /\ e.result \in {"PKTWRITE", "PKTREAD"} /\ e.left \in Nat
  <2>1. e \in Events
    BY EngineInvImplies, Zenon DEF TypeOK
  <2> QED BY <1>1, <2>1 DEF Events
<1>4. PacketsOK' /\ EngineOK'
  <2>1. ScheduleCycleAtomic(e.packet, e.result, e.left, {}, writingPacket)
    BY <1>1, <1>2, Zenon
  <2> QED BY <1>2, <1>3, <2>1, AtomicStep DEF EngineInv, PacketsOK
<1> QED BY <1>1, <1>4, Zenon DEF EngineInv, QueuesOK

LEMMA DepartInv ==
  ASSUME EngineInv, NEW p \in Packets, Depart(p)
  PROVE  EngineInv'
<1>1. /\ stage' \in [Packets -> {"new", "stored", "asked"}]
      /\ location' \in [Packets -> Locations]
  BY DEF Depart, EngineInv, PacketsOK, Locations
<1>2. stored' \in [Packets -> Nat] /\ \A q \in Packets : stored'[q] <= Size[q]
  <2>1. 0 \in Nat /\ 0 <= Size[p]
    BY BufferAssumption
  <2> QED BY <2>1 DEF Depart, EngineInv, PacketsOK
<1> QED BY <1>1, <1>2, Zenon
        DEF Depart, EngineInv, PacketsOK, QueuesOK, EngineOK, counterVars, engineVars, writingVars

-----------------------------------------------------------------------------
LEMMA NextEngineInv == EngineInv /\ [Next]_vars => EngineInv'
<1>1. EngineInv /\ Next => EngineInv'
  BY WriteInv, ReadFromWcacheInv, ReadInterruptsWriteInv, ReadFromDramInv, RequestArrivesInv,
     StartWriteCycleInv, StartReadCycleInv, NextAtomicInv, DepartInv, Zenon DEF Next
<1>2. EngineInv /\ UNCHANGED vars => EngineInv'
  BY Zenon DEF EngineInv, PacketsOK, QueuesOK, EngineOK, vars, packetVars, counterVars,
               engineVars, writingVars
<1> QED BY <1>1, <1>2

(***************************************************************************)
(* Every variable keeps its type, with any packets, sizes and memories: in *)
(* particular an interrupted or part-full write never counts the bytes of  *)
(* a packet below zero.                                                    *)
(***************************************************************************)
THEOREM BufferTypes == Spec => []TypeOK
BY InitEngineInv, NextEngineInv, EngineInvImplies, PTL DEF Spec

(***************************************************************************)
(* The engine is one chain of events: the cancelled wait of CancelWrite,   *)
(* the wait for another read request and the callers that kick an idle     *)
(* engine never leave two events pending, and a cycle finds its request.   *)
(***************************************************************************)
THEOREM EngineIsOneChain == Spec => []OneEventChain
BY InitEngineInv, NextEngineInv, EngineInvImplies, PTL DEF Spec
-----------------------------------------------------------------------------
(***************************************************************************)
(* Where a packet is.  Its requests are in the channel or in the vectors   *)
(* (taken as sets: no sequence holds one twice), and the event of the      *)
(* cycle that moves it is the engine's atomic event.                       *)
(***************************************************************************)
Request(op, p) == [op |-> op, packet |-> p]

Atomics == {e \in events : e.at = "CycleAtomic"}

WriteSent(p)  == Request("write", p) \in Range(channel)
WriteWaits(p) == p \in Range(writeVec)
Writing(p)    == \E e \in Atomics : e.result = "PKTWRITE" /\ e.packet = p

ReadSent(p)  == Request("read", p) \in Range(channel)
ReadWaits(p) == p \in Range(readVec)
Reading(p)   == \E e \in Atomics : e.result = "PKTREAD" /\ e.packet = p

NoDuplicates == IsInjective(channel) /\ IsInjective(writeVec) /\ IsInjective(readVec)

(***************************************************************************)
(* The inductive invariant of OnePlace.  It says more of a packet than     *)
(* OnePlace does: which packets a write request may still be under way     *)
(* for, that no byte is in DRAM before the first atomic write, and that a  *)
(* packet the switch keeps on chip has left nothing here.                  *)
(***************************************************************************)
WritePlaces(p) ==
  /\ WriteSent(p) => /\ ~WriteWaits(p)
                     /\ \/ stage[p] = "stored" /\ location[p] = "WCACHE"
                        \/ stage[p] = "asked" /\ location[p] = "NOTINBUFFER"
  /\ WriteWaits(p) => stage[p] = "stored" /\ location[p] = "WCACHE"

ReadPlaces(p) ==
  /\ ReadSent(p) => ~ReadWaits(p) /\ ~Reading(p)
  /\ ReadWaits(p) => ~Reading(p)
  /\ Reading(p) => stored[p] = 0
  /\ ReadSent(p) \/ ReadWaits(p) \/ Reading(p) <=> stage[p] = "asked" /\ InOffChipBuffer(p)

LocationIsTrue(p) ==
  \/ /\ location[p] = "NOTINBUFFER"
     /\ stage[p] \in {"new", "asked"} /\ stored[p] = 0
  \/ /\ location[p] = "WCACHE"
     /\ stage[p] = "stored" /\ stored[p] = 0
     /\ WriteSent(p) \/ WriteWaits(p)
  \/ /\ location[p] = "WRITINGTOOFFCHIPBUFFER"
     /\ stage[p] \in {"stored", "asked"} /\ stored[p] < Size[p]
     /\ stage[p] = "stored" => Writing(p)
  \/ /\ location[p] = "OFFCHIPBUFFER"
     /\ \/ stage[p] \in {"stored", "asked"} /\ stored[p] = Size[p]
        \/ stage[p] = "asked" /\ stored[p] = 0
  \/ /\ location[p] = "ONCHIPBUFFER"
     /\ stage[p] = "stored" /\ stored[p] = 0

Placed(p) == WritePlaces(p) /\ ReadPlaces(p) /\ LocationIsTrue(p)

(***************************************************************************)
(* The write cycle: the operations left are just enough for the bytes left *)
(* of the packet being written, some of whose bytes are in DRAM, and the   *)
(* stop flag is up if it was asked for meanwhile.                          *)
(***************************************************************************)
JustEnough(left, rest) ==
  /\ rest <= left * BurstSize
  /\ left > 0 => (left - 1) * BurstSize < rest

WriteCycle(e) ==
  /\ writingPacket = e.packet
  /\ location[e.packet] \in {"WRITINGTOOFFCHIPBUFFER", "OFFCHIPBUFFER"}
  /\ stored[e.packet] > 0
  /\ JustEnough(e.left, Size[e.packet] - stored[e.packet])
  /\ writingStopFlag <=> e.left > 0 /\ stage[e.packet] = "asked"

WritingIsTrue ==
  /\ \A e \in Atomics : e.result = "PKTWRITE" => WriteCycle(e)
  /\ (\A e \in Atomics : e.result # "PKTWRITE") => writingPacket = NoPacket /\ ~writingStopFlag

PlacesInv ==
  /\ EngineInv
  /\ NoDuplicates
  /\ \A p \in Packets : Placed(p)
  /\ WritingIsTrue

(***************************************************************************)
(* What each memory holds.                                                 *)
(***************************************************************************)
Held(p) == IF InWcache(p) THEN Size[p] - stored[p] ELSE 0
CacheBytes == [p \in Packets |-> Held(p)]

MemoryInv ==
  /\ wcacheUsed = SumFunctionOnSet(CacheBytes, Packets)
  /\ nWcachePackets = Cardinality({p \in Packets : InWcache(p)})
  /\ wcacheUsed <= WcacheSize
  /\ dramUsed = SumFunctionOnSet(stored, Packets)

(***************************************************************************)
(* With packets of one size, the room the arbiter saw is kept until the    *)
(* packet is written.                                                      *)
(***************************************************************************)
DramRoom ==
  /\ dramUsed <= DramSize
  /\ InterWriteReqWaitEvent \in events => \A p \in Packets : dramUsed + Size[p] <= DramSize
  /\ \A e \in Atomics : e.result = "PKTWRITE" =>
       dramUsed + (Size[e.packet] - stored[e.packet]) <= DramSize

-----------------------------------------------------------------------------
(***************************************************************************)
(* Decisions leave the cycle under way alone: they only add the start of a *)
(* cycle.                                                                  *)
(***************************************************************************)
LEMMA ScheduledAtomics ==
  ASSUME NEW pending, HasScheduled(pending)
  PROVE  Atomics' = {e \in pending : e.at = "CycleAtomic"}
<1>1. CycleStart("PKTWRITE").at = "CycleStart" /\ CycleStart("PKTREAD").at = "CycleStart"
  BY DEF CycleStart
<1>2. \/ events' = pending
      \/ events' = pending \cup {CycleStart("PKTWRITE")}
      \/ events' = pending \cup {CycleStart("PKTREAD")}
  BY Zenon DEF HasScheduled
<1> QED BY <1>1, <1>2 DEF Atomics

LEMMA NoAtomicsAfterDecision ==
  ASSUME wrr \in WrrState, ScheduleCycle({})
  PROVE  Atomics' = {}
BY ScheduleCycleStep, ScheduledAtomics

LEMMA KickKeepsAtomics ==
  ASSUME EngineOK, KickIfIdle
  PROVE  Atomics' = Atomics
<1>1. CASE state = "IDLE"
  <2>1. events = {} /\ ScheduleCycle({}) /\ wrr \in WrrState
    BY <1>1, Zenon DEF EngineOK, KickIfIdle
  <2> QED BY <2>1, NoAtomicsAfterDecision DEF Atomics
<1>2. CASE state # "IDLE"
  BY <1>2, Zenon DEF KickIfIdle, engineVars, Atomics
<1> QED BY <1>1, <1>2

(***************************************************************************)
(* At most one cycle is under way; an engine about to start one, or idle,  *)
(* writes nothing.                                                         *)
(***************************************************************************)
LEMMA OneCycle ==
  ASSUME EngineInv
  PROVE  /\ \A e, f \in Atomics : e = f
         /\ \A e \in Atomics : e \in AtomicEvents
         /\ InterWriteReqWaitEvent \in events \/ CycleStart("PKTREAD") \in events => Atomics = {}
<1>1. \A e \in AtomicEvents : e # CycleStart("PKTWRITE") /\ e # CycleStart("PKTREAD")
  BY DEF AtomicEvents, CycleStart
<1>2. CycleStart("PKTWRITE").at # "CycleAtomic" /\ CycleStart("PKTREAD").at # "CycleAtomic"
  BY DEF CycleStart
<1>3. \A e, f \in events : e = f
  BY EngineInvImplies, Zenon DEF OneEventChain
<1>4. \A e \in Atomics : e \in AtomicEvents
  BY <1>2, Zenon DEF EngineInv, EngineOK, Atomics
<1> QED BY <1>1, <1>2, <1>3, <1>4, Zenon DEF Atomics, InterWriteReqWaitEvent

(***************************************************************************)
(* The two kinds of request are different requests.                        *)
(***************************************************************************)
LEMMA RequestsDiffer ==
  /\ \A p \in Packets : Request("write", p) \in Requests /\ Request("read", p) \in Requests
  /\ \A p, q : Request("write", p) # Request("read", q)
  /\ \A p, q : Request("write", p) = Request("write", q) => p = q
  /\ \A p, q : Request("read", p) = Request("read", q) => p = q
  /\ \A r \in Requests : r = Request(r.op, r.packet) /\ r.op \in {"write", "read"} /\ r.packet \in Packets
BY DEF Request, Requests

(***************************************************************************)
(* A step that touches nothing of a packet leaves it where it is.          *)
(***************************************************************************)
SamePlace(q) ==
  /\ location'[q] = location[q]
  /\ stored'[q] = stored[q]
  /\ stage'[q] = stage[q]
  /\ WriteSent(q)' <=> WriteSent(q)
  /\ WriteWaits(q)' <=> WriteWaits(q)
  /\ ReadSent(q)' <=> ReadSent(q)
  /\ ReadWaits(q)' <=> ReadWaits(q)
  /\ Reading(q)' <=> Reading(q)
  /\ Writing(q)' <=> Writing(q)

LEMMA PlacedFrame ==
  ASSUME NEW q, Placed(q), SamePlace(q)
  PROVE  Placed(q)'
<1>1. WritePlaces(q)'
  BY Zenon DEF Placed, SamePlace, WritePlaces
<1>2. ReadPlaces(q)'
  BY Zenon DEF Placed, SamePlace, ReadPlaces, InOffChipBuffer
<1>3. LocationIsTrue(q)'
  BY Zenon DEF Placed, SamePlace, LocationIsTrue
<1> QED BY <1>1, <1>2, <1>3 DEF Placed

LEMMA WritingFrame ==
  ASSUME WritingIsTrue, Atomics' = Atomics, UNCHANGED writingVars,
         \A e \in Atomics : e.result = "PKTWRITE" =>
           /\ location'[e.packet] = location[e.packet]
           /\ stored'[e.packet] = stored[e.packet]
           /\ stage'[e.packet] = stage[e.packet]
  PROVE  WritingIsTrue'
<1>1. writingPacket' = writingPacket /\ (writingStopFlag' <=> writingStopFlag)
  BY Zenon DEF writingVars
<1>2. ASSUME NEW e \in Atomics, e.result = "PKTWRITE"
      PROVE  WriteCycle(e)'
  <2>1. WriteCycle(e)
    BY <1>2, Zenon DEF WritingIsTrue
  <2>2. /\ location'[e.packet] = location[e.packet]
        /\ stored'[e.packet] = stored[e.packet]
        /\ stage'[e.packet] = stage[e.packet]
    BY <1>2
  <2> QED BY <1>1, <2>1, <2>2, Zenon DEF WriteCycle
<1> QED BY <1>1, <1>2, Zenon DEF WritingIsTrue

(***************************************************************************)
(* A packet with requests, sent.                                           *)
(***************************************************************************)
LEMMA RequestSentOnce ==
  ASSUME EngineInv, NoDuplicates, NEW op \in {"write", "read"}, NEW p \in Packets,
         SendRequest(op, p), location'[p] # "NOTINBUFFER",
         Request(op, p) \notin Range(channel),
         op = "write" => p \notin Range(writeVec),
         op = "read" => p \notin Range(readVec)
  PROVE  /\ Atomics' = Atomics
         /\ NoDuplicates'
         /\ \/ /\ Range(channel') = Range(channel) \cup {Request(op, p)}
               /\ UNCHANGED <<writeVec, readVec>>
            \/ /\ op = "write" /\ Range(writeVec') = Range(writeVec) \cup {p}
               /\ UNCHANGED <<channel, readVec>>
            \/ /\ op = "read" /\ Range(readVec') = Range(readVec) \cup {p}
               /\ UNCHANGED <<channel, writeVec>>
<1>1. channel \in Seq(Requests) /\ writeVec \in Seq(Packets) /\ readVec \in Seq(Packets) /\ EngineOK
  BY Zenon DEF EngineInv, QueuesOK
<1>2. CASE DelayedChannel
  <2>1. /\ channel' = Append(channel, Request(op, p))
        /\ UNCHANGED <<writeVec, readVec, engineVars>>
    BY <1>2, Zenon DEF SendRequest, Request
  <2>2. Request(op, p) \in Requests
    BY RequestsDiffer, Zenon
  <2>3. Range(channel') = Range(channel) \cup {Request(op, p)} /\ IsInjective(channel')
    BY <1>1, <2>1, <2>2, AppendElements DEF NoDuplicates
  <2> QED BY <2>1, <2>3, Zenon DEF NoDuplicates, Atomics, engineVars
<1>3. CASE ~DelayedChannel /\ op = "write"
  <2>1. UNCHANGED <<channel, readVec>> /\ writeVec' = Append(writeVec, p) /\ KickIfIdle
    BY <1>3, Zenon DEF SendRequest, SendWriteRequestComplete
  <2>2. Range(writeVec') = Range(writeVec) \cup {p} /\ IsInjective(writeVec')
    BY <1>1, <1>3, <2>1, AppendElements DEF NoDuplicates
  <2> QED BY <1>1, <1>3, <2>1, <2>2, KickKeepsAtomics, Zenon DEF NoDuplicates
<1>4. CASE ~DelayedChannel /\ op = "read"
  <2>1. UNCHANGED <<channel, writeVec>> /\ readVec' = Append(readVec, p) /\ KickIfIdle
    BY <1>4, Zenon DEF SendRequest, SendReadRequestComplete
  <2>2. Range(readVec') = Range(readVec) \cup {p} /\ IsInjective(readVec')
    BY <1>1, <1>4, <2>1, AppendElements DEF NoDuplicates
  <2> QED BY <1>1, <1>4, <2>1, <2>2, KickKeepsAtomics, Zenon DEF NoDuplicates
<1> QED BY <1>2, <1>3, <1>4

(***************************************************************************)
(* Where the requests of the packets are once that of p is sent.           *)
(***************************************************************************)
LEMMA SentPlaces ==
  ASSUME EngineInv, NoDuplicates, NEW op \in {"write", "read"}, NEW p \in Packets,
         SendRequest(op, p), location'[p] # "NOTINBUFFER",
         ~(IF op = "write" THEN WriteSent(p) \/ WriteWaits(p) ELSE ReadSent(p) \/ ReadWaits(p))
  PROVE  /\ Atomics' = Atomics
         /\ NoDuplicates'
         /\ \A q \in Packets : /\ Reading(q)' <=> Reading(q)
                               /\ Writing(q)' <=> Writing(q)
         /\ \A q \in Packets :
              q # p \/ op # "write" => (WriteSent(q)' <=> WriteSent(q)) /\ (WriteWaits(q)' <=> WriteWaits(q))
         /\ \A q \in Packets :
              q # p \/ op # "read" => (ReadSent(q)' <=> ReadSent(q)) /\ (ReadWaits(q)' <=> ReadWaits(q))
         /\ op = "write" => (WriteSent(p)' <=> ~WriteWaits(p)')
         /\ op = "read" => (ReadSent(p)' <=> ~ReadWaits(p)')
<1>1. /\ Request(op, p) \notin Range(channel)
      /\ op = "write" => p \notin Range(writeVec)
      /\ op = "read" => p \notin Range(readVec)
  BY DEF WriteSent, WriteWaits, ReadSent, ReadWaits
<1>2. /\ Atomics' = Atomics
      /\ NoDuplicates'
      /\ \/ /\ Range(channel') = Range(channel) \cup {Request(op, p)}
            /\ UNCHANGED <<writeVec, readVec>>
         \/ /\ op = "write" /\ Range(writeVec') = Range(writeVec) \cup {p}
            /\ UNCHANGED <<channel, readVec>>
         \/ /\ op = "read" /\ Range(readVec') = Range(readVec) \cup {p}
            /\ UNCHANGED <<channel, writeVec>>
  BY <1>1, RequestSentOnce
<1>3. \A q \in Packets : (Reading(q)' <=> Reading(q)) /\ (Writing(q)' <=> Writing(q))
  BY <1>2, Zenon DEF Reading, Writing
<1>4. CASE op = "write"
  <2>1. /\ \A q : Request("write", q) = Request("write", p) => q = p
        /\ \A q : Request("read", q) # Request("write", p)
    BY RequestsDiffer, Zenon
  <2> QED BY <1>1, <1>2, <1>3, <1>4, <2>1 DEF WriteSent, WriteWaits, ReadSent, ReadWaits
<1>5. CASE op = "read"
  <2>1. /\ \A q : Request("read", q) = Request("read", p) => q = p
        /\ \A q : Request("write", q) # Request("read", p)
    BY RequestsDiffer, Zenon
  <2> QED BY <1>1, <1>2, <1>3, <1>5, <2>1 DEF WriteSent, WriteWaits, ReadSent, ReadWaits
<1> QED BY <1>4, <1>5

-----------------------------------------------------------------------------
(***************************************************************************)
(* The actions keep every packet in its place.                             *)
(***************************************************************************)
LEMMA WritePlaced ==
  ASSUME PlacesInv, NEW p \in Packets, Write(p)
  PROVE  PlacesInv'
<1>1. EngineInv /\ NoDuplicates /\ WritingIsTrue /\ \A q \in Packets : Placed(q)
  BY Zenon DEF PlacesInv
<1>2. /\ location' = [location EXCEPT ![p] = "WCACHE"]
      /\ stage' = [stage EXCEPT ![p] = "stored"]
      /\ stored' = stored
      /\ UNCHANGED writingVars
      /\ SendRequest("write", p)
      /\ stage[p] = "new"
  BY Zenon DEF Write
<1>3. /\ location \in [Packets -> Locations]
      /\ stage \in [Packets -> {"new", "stored", "asked"}]
  BY <1>1 DEF EngineInv, PacketsOK
<1>4. /\ location'[p] = "WCACHE" /\ stage'[p] = "stored"
      /\ \A q \in Packets \ {p} : location'[q] = location[q] /\ stage'[q] = stage[q]
  BY <1>2, <1>3
<1>5. /\ ~WriteSent(p) /\ ~WriteWaits(p) /\ ~ReadSent(p) /\ ~ReadWaits(p) /\ ~Reading(p)
      /\ stored[p] = 0 /\ location[p] = "NOTINBUFFER"
  BY <1>1, <1>2 DEF Placed, WritePlaces, ReadPlaces, LocationIsTrue
<1>6. /\ Atomics' = Atomics
      /\ NoDuplicates'
      /\ \A q \in Packets : (Reading(q)' <=> Reading(q)) /\ (Writing(q)' <=> Writing(q))
      /\ \A q \in Packets \ {p} : (WriteSent(q)' <=> WriteSent(q)) /\ (WriteWaits(q)' <=> WriteWaits(q))
      /\ \A q \in Packets : (ReadSent(q)' <=> ReadSent(q)) /\ (ReadWaits(q)' <=> ReadWaits(q))
      /\ WriteSent(p)' <=> ~WriteWaits(p)'
  BY <1>1, <1>2, <1>4, <1>5, SentPlaces
<1>7. ASSUME NEW q \in Packets
      PROVE  Placed(q)'
  <2>1. CASE q = p
    BY <1>2, <1>4, <1>5, <1>6, <2>1, Zenon
    DEF Placed, WritePlaces, ReadPlaces, LocationIsTrue, InOffChipBuffer
  <2>2. CASE q # p
    BY <1>1, <1>2, <1>4, <1>6, <2>2, PlacedFrame DEF SamePlace
  <2> QED BY <2>1, <2>2
<1>8. WritingIsTrue'
  <2>1. ASSUME NEW e \in Atomics, e.result = "PKTWRITE"
        PROVE  e.packet \in Packets \ {p}
    BY <1>1, <1>5, <2>1, OneCycle DEF WritingIsTrue, WriteCycle, AtomicEvents
  <2> QED BY <1>1, <1>2, <1>4, <1>6, <2>1, WritingFrame
<1> QED BY <1>1, <1>6, <1>7, <1>8, WriteInv DEF PlacesInv

LEMMA RequestArrivesPlaced ==
  ASSUME PlacesInv, RequestArrives
  PROVE  PlacesInv'
<1>1. EngineInv /\ NoDuplicates /\ WritingIsTrue /\ \A q \in Packets : Placed(q)
  BY Zenon DEF PlacesInv
<1>2. /\ channel # <<>> /\ channel' = Tail(channel)
      /\ UNCHANGED <<packetVars, stage, writingVars>>
      /\ IF channel[1].op = "write"
           THEN SendWriteRequestComplete(channel[1].packet)
           ELSE SendReadRequestComplete(channel[1].packet)
  BY Zenon DEF RequestArrives
<1>3. channel \in Seq(Requests) /\ writeVec \in Seq(Packets) /\ readVec \in Seq(Packets) /\ EngineOK
  BY <1>1 DEF EngineInv, QueuesOK
<1>4. /\ channel[1] \in Range(channel)
      /\ Range(channel') = Range(channel) \ {channel[1]}
      /\ IsInjective(channel')
  BY <1>1, <1>2, <1>3, TailElements DEF NoDuplicates
<1>5. channel[1] \in Requests
  BY <1>2, <1>3
<1>6. PICK p \in Packets : channel[1] \in {Request("write", p), Request("read", p)}
  BY <1>5, RequestsDiffer
<1>7. /\ UNCHANGED <<location, stored, stage>> /\ UNCHANGED writingVars
  BY <1>2 DEF packetVars
<1>8. CASE channel[1] = Request("write", p)
  <2>1. channel[1].op = "write" /\ channel[1].packet = p
    BY <1>8 DEF Request
  <2>2. SendWriteRequestComplete(p)
    BY <1>2, <2>1, Zenon
  <2>3. /\ WriteSent(p) /\ ~WriteSent(p)' /\ ~WriteWaits(p)
        /\ \A q \in Packets \ {p} : WriteSent(q)' <=> WriteSent(q)
        /\ \A q \in Packets : ReadSent(q)' <=> ReadSent(q)
    BY <1>1, <1>4, <1>8, RequestsDiffer DEF WriteSent, ReadSent, Placed, WritePlaces
  <2>4. /\ readVec' = readVec
        /\ \/ location[p] = "NOTINBUFFER" /\ writeVec' = writeVec /\ Atomics' = Atomics
           \/ /\ location[p] # "NOTINBUFFER"
              /\ Range(writeVec') = Range(writeVec) \cup {p}
              /\ IsInjective(writeVec')
              /\ Atomics' = Atomics
    <3>1. CASE location[p] = "NOTINBUFFER"
      BY <1>7, <2>2, <3>1, Zenon DEF SendWriteRequestComplete, engineVars, Atomics
    <3>2. CASE location[p] # "NOTINBUFFER"
      <4>1. writeVec' = Append(writeVec, p) /\ readVec' = readVec /\ KickIfIdle
        BY <1>7, <2>2, <3>2, Zenon DEF SendWriteRequestComplete
      <4>2. p \notin Range(writeVec)
        BY <2>3 DEF WriteWaits
      <4>3. Range(writeVec') = Range(writeVec) \cup {p} /\ IsInjective(writeVec')
        BY <1>1, <1>3, <4>1, <4>2, AppendElements DEF NoDuplicates
      <4> QED BY <1>3, <3>2, <4>1, <4>3, KickKeepsAtomics
    <3> QED BY <3>1, <3>2
  <2>5. /\ \A q \in Packets \ {p} : WriteWaits(q)' <=> WriteWaits(q)
        /\ \A q \in Packets : (ReadWaits(q)' <=> ReadWaits(q))
        /\ \A q \in Packets : (Reading(q)' <=> Reading(q)) /\ (Writing(q)' <=> Writing(q))
        /\ WriteWaits(p)' <=> location[p] # "NOTINBUFFER"
        /\ Atomics' = Atomics
    BY <2>3, <2>4 DEF WriteWaits, ReadWaits, Reading, Writing
  <2>6. NoDuplicates'
    BY <1>1, <1>4, <2>4 DEF NoDuplicates
  <2>7. ASSUME NEW q \in Packets
        PROVE  Placed(q)'
    <3>1. CASE q = p
      <4>1. \/ stage[p] = "stored" /\ location[p] = "WCACHE"
            \/ stage[p] = "asked" /\ location[p] = "NOTINBUFFER"
        BY <1>1, <2>3 DEF Placed, WritePlaces
      <4>2. ReadPlaces(p)'
        BY <1>1, <1>7, <2>3, <2>5, Zenon DEF Placed, ReadPlaces, InOffChipBuffer
      <4>3. WritePlaces(p)'
        BY <1>7, <2>3, <2>5, <4>1 DEF WritePlaces
      <4>4. LocationIsTrue(p)'
        BY <1>1, <1>7, <2>5, <4>1 DEF Placed, LocationIsTrue
      <4> QED BY <3>1, <4>2, <4>3, <4>4 DEF Placed
    <3>2. CASE q # p
      BY <1>1, <1>7, <2>3, <2>5, <3>2, PlacedFrame DEF SamePlace
    <3> QED BY <3>1, <3>2
  <2>8. WritingIsTrue'
    BY <1>1, <1>7, <2>5, WritingFrame
  <2> QED BY <1>1, <2>6, <2>7, <2>8, RequestArrivesInv DEF PlacesInv
<1>9. CASE channel[1] = Request("read", p)
  <2>1. channel[1].op = "read" /\ channel[1].packet = p
    BY <1>9 DEF Request
  <2>2. readVec' = Append(readVec, p) /\ writeVec' = writeVec /\ KickIfIdle
    BY <1>2, <2>1, Zenon DEF SendReadRequestComplete
  <2>3. /\ ReadSent(p) /\ ~ReadSent(p)' /\ ~ReadWaits(p) /\ ~Reading(p)
        /\ \A q \in Packets \ {p} : ReadSent(q)' <=> ReadSent(q)
        /\ \A q \in Packets : WriteSent(q)' <=> WriteSent(q)
    BY <1>1, <1>4, <1>9, RequestsDiffer DEF WriteSent, ReadSent, Placed, ReadPlaces
  <2>4. Range(readVec') = Range(readVec) \cup {p} /\ IsInjective(readVec') /\ Atomics' = Atomics
    <3>1. p \notin Range(readVec)
      BY <2>3 DEF ReadWaits
    <3> QED BY <1>1, <1>3, <2>2, <3>1, AppendElements, KickKeepsAtomics DEF NoDuplicates
  <2>5. /\ \A q \in Packets \ {p} : ReadWaits(q)' <=> ReadWaits(q)
        /\ \A q \in Packets : (WriteWaits(q)' <=> WriteWaits(q))
        /\ \A q \in Packets : (Reading(q)' <=> Reading(q)) /\ (Writing(q)' <=> Writing(q))
        /\ ReadWaits(p)'
    BY <2>2, <2>4 DEF WriteWaits, ReadWaits, Reading, Writing
  <2>6. NoDuplicates'
    BY <1>1, <1>4, <2>2, <2>4 DEF NoDuplicates
  <2>7. ASSUME NEW q \in Packets
        PROVE  Placed(q)'
    <3>1. CASE q = p
      <4>1. ReadPlaces(p)'
        BY <1>1, <1>7, <2>3, <2>5, Zenon DEF Placed, ReadPlaces, InOffChipBuffer
      <4>2. WritePlaces(p)'
        BY <1>1, <1>7, <2>3, <2>5 DEF Placed, WritePlaces
      <4>3. LocationIsTrue(p)'
        BY <1>1, <1>7, <2>3, <2>5 DEF Placed, LocationIsTrue
      <4> QED BY <3>1, <4>1, <4>2, <4>3 DEF Placed
    <3>2. CASE q # p
      BY <1>1, <1>7, <2>3, <2>5, <3>2, PlacedFrame DEF SamePlace
    <3> QED BY <3>1, <3>2
  <2>8. WritingIsTrue'
    BY <1>1, <1>7, <2>4, WritingFrame
  <2> QED BY <1>1, <2>6, <2>7, <2>8, RequestArrivesInv DEF PlacesInv
<1> QED BY <1>6, <1>8, <1>9

LEMMA ReadFromWcachePlaced ==
  ASSUME PlacesInv, NEW p \in Packets, ReadFromWcache(p)
  PROVE  PlacesInv'
<1>1. EngineInv /\ NoDuplicates /\ WritingIsTrue /\ \A q \in Packets : Placed(q)
  BY Zenon DEF PlacesInv
<1>2. /\ stage[p] = "stored" /\ location[p] \in {"WCACHE", "WRITINGTOOFFCHIPBUFFER"} /\ stored[p] = 0
      /\ stage' = [stage EXCEPT ![p] = "asked"]
      /\ location' = [location EXCEPT ![p] = "NOTINBUFFER"]
      /\ stored' = stored
      /\ CancelRequest(p)
      /\ UNCHANGED <<channel, readVec, writingPacket>>
  BY Zenon DEF ReadFromWcache, Asked, FetchComplete, CancelRequest
<1>3. /\ location \in [Packets -> Locations]
      /\ stage \in [Packets -> {"new", "stored", "asked"}]
      /\ writeVec \in Seq(Packets)
      /\ EngineOK
  BY <1>1 DEF EngineInv, PacketsOK, QueuesOK
<1>4. /\ location'[p] = "NOTINBUFFER" /\ stage'[p] = "asked"
      /\ \A q \in Packets \ {p} : location'[q] = location[q] /\ stage'[q] = stage[q]
  BY <1>2, <1>3
<1>5. ~Writing(p)
  <2>1. ASSUME NEW e \in Atomics, e.result = "PKTWRITE", e.packet = p
        PROVE  FALSE
    BY <1>1, <1>2, <2>1 DEF WritingIsTrue, WriteCycle
  <2> QED BY <2>1 DEF Writing
<1>6. location[p] = "WCACHE"
  BY <1>1, <1>2, <1>5 DEF Placed, LocationIsTrue
<1>7. writingPacket # p
  BY <1>1, <1>5, BufferAssumption DEF WritingIsTrue, WriteCycle, Writing
<1>8. /\ writingStopFlag' = writingStopFlag
      /\ IF Contains(writeVec, p) THEN EraseWriteRequest(p)
                                  ELSE UNCHANGED <<writeVec, engineVars>>
  BY <1>2, <1>7, Zenon DEF CancelRequest
<1>9. /\ Range(writeVec') = Range(writeVec) \ {p}
      /\ IsInjective(writeVec')
      /\ Atomics' = Atomics
  <2>1. CASE Contains(writeVec, p)
    <3>1. PICK i \in DOMAIN writeVec :
            /\ writeVec[i] = p
            /\ writeVec' = RemoveAt(writeVec, i)
            /\ IF writeVec' = <<>> /\ InterWriteReqWaitEvent \in events
                 THEN ScheduleCycle(CancelWait(events))
                 ELSE UNCHANGED engineVars
      BY <1>8, <2>1, Zenon DEF EraseWriteRequest
    <3>2. Range(writeVec') = Range(writeVec) \ {p} /\ IsInjective(writeVec')
      BY <1>1, <1>3, <3>1, RemoveAtElements DEF NoDuplicates
    <3>3. CASE writeVec' = <<>> /\ InterWriteReqWaitEvent \in events
      <4>1. CancelWait(events) = {}
        <5>1. \A e, f \in events : e = f
          BY <1>1, EngineInvImplies, Zenon DEF OneEventChain
        <5> QED BY <3>3, <5>1, Zenon DEF CancelWait
      <4>2. ScheduleCycle({}) /\ wrr \in WrrState
        BY <1>3, <3>1, <3>3, <4>1, Zenon DEF EngineOK
      <4>3. Atomics' = {} /\ Atomics = {}
        BY <1>1, <3>3, <4>2, NoAtomicsAfterDecision, OneCycle
      <4> QED BY <3>2, <4>3
    <3>4. CASE ~(writeVec' = <<>> /\ InterWriteReqWaitEvent \in events)
      BY <3>1, <3>2, <3>4, Zenon DEF engineVars, Atomics
    <3> QED BY <3>3, <3>4
  <2>2. CASE ~Contains(writeVec, p)
    <3>1. writeVec' = writeVec /\ Atomics' = Atomics
      BY <1>8, <2>2, Zenon DEF engineVars, Atomics
    <3>2. p \notin Range(writeVec)
      BY <1>3, <2>2 DEF Contains, Range
    <3> QED BY <1>1, <3>1, <3>2 DEF NoDuplicates
  <2> QED BY <2>1, <2>2
<1>10. /\ NoDuplicates'
       /\ ~WriteWaits(p)'
       /\ \A q \in Packets \ {p} : WriteWaits(q)' <=> WriteWaits(q)
       /\ \A q \in Packets : /\ WriteSent(q)' <=> WriteSent(q)
                             /\ ReadSent(q)' <=> ReadSent(q)
                             /\ ReadWaits(q)' <=> ReadWaits(q)
                             /\ Reading(q)' <=> Reading(q)
                             /\ Writing(q)' <=> Writing(q)
  BY <1>1, <1>2, <1>9 DEF NoDuplicates, WriteWaits, WriteSent, ReadSent, ReadWaits, Reading, Writing
<1>11. ASSUME NEW q \in Packets
       PROVE  Placed(q)'
  <2>1. CASE q = p
    <3>1. ~ReadSent(p) /\ ~ReadWaits(p) /\ ~Reading(p)
      BY <1>1, <1>2 DEF Placed, ReadPlaces
    <3> QED BY <1>2, <1>4, <1>10, <2>1, <3>1, Zenon
            DEF Placed, WritePlaces, ReadPlaces, LocationIsTrue, InOffChipBuffer
  <2>2. CASE q # p
    BY <1>1, <1>2, <1>4, <1>10, <2>2, PlacedFrame DEF SamePlace
  <2> QED BY <2>1, <2>2
<1>12. WritingIsTrue'
  <2>1. ASSUME NEW e \in Atomics, e.result = "PKTWRITE"
        PROVE  e.packet \in Packets \ {p}
    BY <1>1, <1>5, <2>1, OneCycle DEF Writing, AtomicEvents
  <2>2. UNCHANGED writingVars
    BY <1>2, <1>8 DEF writingVars
  <2> QED BY <1>1, <1>2, <1>4, <1>9, <2>1, <2>2, WritingFrame
<1> QED BY <1>1, <1>10, <1>11, <1>12, ReadFromWcacheInv DEF PlacesInv

(***************************************************************************)
(* Operations are left exactly while bytes are.                            *)
(***************************************************************************)
LEMMA OperationsForBytes ==
  ASSUME NEW left \in Nat, NEW rest \in Nat, JustEnough(left, rest)
  PROVE  left > 0 <=> rest > 0
<1>1. BurstSize \in Nat /\ BurstSize > 0
  BY BufferAssumption
<1>2. ASSUME left = 0
      PROVE  rest = 0
  BY <1>1, <1>2 DEF JustEnough
<1>3. ASSUME left > 0
      PROVE  rest > 0
  <2>1. left - 1 \in Nat /\ (left - 1) * BurstSize < rest
    BY <1>3 DEF JustEnough
  <2>2. (left - 1) * BurstSize \in Nat
    BY <1>1, <2>1
  <2> QED BY <2>1, <2>2
<1> QED BY <1>2, <1>3

LEMMA ReadInterruptsWritePlaced ==
  ASSUME PlacesInv, NEW p \in Packets, ReadInterruptsWrite(p)
  PROVE  PlacesInv'
<1>1. EngineInv /\ NoDuplicates /\ WritingIsTrue /\ \A q \in Packets : Placed(q)
  BY Zenon DEF PlacesInv
<1>2. /\ stage[p] = "stored" /\ location[p] \in {"WCACHE", "WRITINGTOOFFCHIPBUFFER"} /\ stored[p] # 0
      /\ stage' = [stage EXCEPT ![p] = "asked"]
      /\ location' = location
      /\ stored' = stored
      /\ writingStopFlag' = (writingStopFlag \/ writingPacket = p)
      /\ UNCHANGED writingPacket
      /\ SendRequest("read", p)
  BY Zenon DEF ReadInterruptsWrite, Asked, packetVars
<1>3. stage \in [Packets -> {"new", "stored", "asked"}]
  BY <1>1 DEF EngineInv
<1>4. /\ stage'[p] = "asked"
      /\ \A q \in Packets \ {p} : stage'[q] = stage[q]
  BY <1>2, <1>3
<1>5. /\ location[p] = "WRITINGTOOFFCHIPBUFFER" /\ Writing(p) /\ stored[p] < Size[p]
      /\ ~ReadSent(p) /\ ~ReadWaits(p) /\ ~Reading(p)
      /\ ~WriteSent(p) /\ ~WriteWaits(p)
  BY <1>1, <1>2 DEF Placed, LocationIsTrue, ReadPlaces, WritePlaces
<1>6. /\ Atomics' = Atomics
      /\ NoDuplicates'
      /\ \A q \in Packets : (Reading(q)' <=> Reading(q)) /\ (Writing(q)' <=> Writing(q))
      /\ \A q \in Packets : (WriteSent(q)' <=> WriteSent(q)) /\ (WriteWaits(q)' <=> WriteWaits(q))
      /\ \A q \in Packets \ {p} : (ReadSent(q)' <=> ReadSent(q)) /\ (ReadWaits(q)' <=> ReadWaits(q))
      /\ ReadSent(p)' <=> ~ReadWaits(p)'
  BY <1>1, <1>2, <1>5, SentPlaces
<1>7. ASSUME NEW q \in Packets
      PROVE  Placed(q)'
  <2>1. CASE q = p
    BY <1>2, <1>4, <1>5, <1>6, <2>1, Zenon
    DEF Placed, WritePlaces, ReadPlaces, LocationIsTrue, InOffChipBuffer
  <2>2. CASE q # p
    BY <1>1, <1>2, <1>4, <1>6, <2>2, PlacedFrame DEF SamePlace
  <2> QED BY <2>1, <2>2
<1>8. WritingIsTrue'
  <2>1. PICK e \in Atomics : e.result = "PKTWRITE" /\ e.packet = p
    BY <1>5 DEF Writing
  <2>2. WriteCycle(e) /\ e \in AtomicEvents /\ \A f \in Atomics : f = e
    BY <1>1, <2>1, OneCycle DEF WritingIsTrue
  <2>3. e.left > 0
    <3>1. e.left \in Nat /\ Size[p] - stored[p] \in Nat /\ Size[p] - stored[p] > 0
      BY <1>1, <1>5, <2>2, BufferAssumption DEF AtomicEvents, EngineInv, PacketsOK
    <3>2. JustEnough(e.left, Size[p] - stored[p])
      BY <2>1, <2>2, Zenon DEF WriteCycle
    <3> QED BY <3>1, <3>2, OperationsForBytes
  <2>4. writingStopFlag' /\ writingPacket' = writingPacket
    <3>1. writingPacket = p
      BY <2>1, <2>2, Zenon DEF WriteCycle
    <3> QED BY <1>2, <3>1, Zenon
  <2>5. WriteCycle(e)'
    BY <1>2, <1>4, <2>1, <2>2, <2>3, <2>4, Zenon DEF WriteCycle
  <2> QED BY <1>6, <2>1, <2>2, <2>5, Zenon DEF WritingIsTrue
<1> QED BY <1>1, <1>6, <1>7, <1>8, ReadInterruptsWriteInv DEF PlacesInv

LEMMA ReadFromDramPlaced ==
  ASSUME PlacesInv, NEW p \in Packets, ReadFromDram(p)
  PROVE  PlacesInv'
<1>1. EngineInv /\ NoDuplicates /\ WritingIsTrue /\ \A q \in Packets : Placed(q)
  BY Zenon DEF PlacesInv
<1>2. /\ stage[p] = "stored" /\ location[p] = "OFFCHIPBUFFER"
      /\ stage' = [stage EXCEPT ![p] = "asked"]
      /\ location' = location
      /\ stored' = stored
      /\ UNCHANGED writingVars
      /\ SendRequest("read", p)
  BY Zenon DEF ReadFromDram, Asked, packetVars
<1>3. stage \in [Packets -> {"new", "stored", "asked"}]
  BY <1>1 DEF EngineInv
<1>4. /\ stage'[p] = "asked"
      /\ \A q \in Packets \ {p} : stage'[q] = stage[q]
  BY <1>2, <1>3
<1>5. /\ stored[p] = Size[p]
      /\ ~ReadSent(p) /\ ~ReadWaits(p) /\ ~Reading(p)
      /\ ~WriteSent(p) /\ ~WriteWaits(p)
  BY <1>1, <1>2 DEF Placed, LocationIsTrue, ReadPlaces, WritePlaces
<1>6. /\ Atomics' = Atomics
      /\ NoDuplicates'
      /\ \A q \in Packets : (Reading(q)' <=> Reading(q)) /\ (Writing(q)' <=> Writing(q))
      /\ \A q \in Packets : (WriteSent(q)' <=> WriteSent(q)) /\ (WriteWaits(q)' <=> WriteWaits(q))
      /\ \A q \in Packets \ {p} : (ReadSent(q)' <=> ReadSent(q)) /\ (ReadWaits(q)' <=> ReadWaits(q))
      /\ ReadSent(p)' <=> ~ReadWaits(p)'
  BY <1>1, <1>2, <1>5, SentPlaces
<1>7. ASSUME NEW q \in Packets
      PROVE  Placed(q)'
  <2>1. CASE q = p
    BY <1>2, <1>4, <1>5, <1>6, <2>1, Zenon
    DEF Placed, WritePlaces, ReadPlaces, LocationIsTrue, InOffChipBuffer
  <2>2. CASE q # p
    BY <1>1, <1>2, <1>4, <1>6, <2>2, PlacedFrame DEF SamePlace
  <2> QED BY <2>1, <2>2
<1>8. WritingIsTrue'
  <2>1. ASSUME NEW e \in Atomics, e.result = "PKTWRITE", e.packet = p
        PROVE  e.left = 0
    <3>1. e.left \in Nat /\ Size[p] - stored[p] = 0
      BY <1>1, <1>5, OneCycle, BufferAssumption DEF AtomicEvents, EngineInv, PacketsOK
    <3>2. JustEnough(e.left, Size[p] - stored[p])
      BY <1>1, <2>1, Zenon DEF WritingIsTrue, WriteCycle
    <3> QED BY <3>1, <3>2, OperationsForBytes
  <2>2. ASSUME NEW e \in Atomics, e.result = "PKTWRITE"
        PROVE  WriteCycle(e)'
    <3>1. WriteCycle(e) /\ e.packet \in Packets
      BY <1>1, <2>2, OneCycle DEF WritingIsTrue, AtomicEvents
    <3>2. e.left > 0 /\ stage'[e.packet] = "asked" <=> e.left > 0 /\ stage[e.packet] = "asked"
      BY <1>4, <2>1, <2>2, <3>1
    <3> QED BY <1>2, <3>1, <3>2, Zenon DEF WriteCycle, writingVars
  <2> QED BY <1>1, <1>2, <1>6, <2>2, Zenon DEF WritingIsTrue, writingVars
<1> QED BY <1>1, <1>6, <1>7, <1>8, ReadFromDramInv DEF PlacesInv

LEMMA DepartPlaced ==
  ASSUME PlacesInv, NEW p \in Packets, Depart(p)
  PROVE  PlacesInv'
<1>1. EngineInv /\ NoDuplicates /\ WritingIsTrue /\ \A q \in Packets : Placed(q)
  BY Zenon DEF PlacesInv
<1>2. /\ stage[p] = "asked" /\ location[p] = "NOTINBUFFER"
      /\ \A i \in DOMAIN channel : channel[i].packet # p
      /\ stage' = [stage EXCEPT ![p] = "new"]
      /\ stored' = [stored EXCEPT ![p] = 0]
      /\ UNCHANGED <<location, channel, writeVec, readVec, events, writingPacket, writingStopFlag>>
  BY Zenon DEF Depart, Fetched, engineVars, writingVars
<1>3. /\ stage \in [Packets -> {"new", "stored", "asked"}]
      /\ stored \in [Packets -> Nat]
  BY <1>1 DEF EngineInv, PacketsOK
<1>4. /\ stage'[p] = "new" /\ stored'[p] = 0
      /\ \A q \in Packets \ {p} : stage'[q] = stage[q] /\ stored'[q] = stored[q]
  BY <1>2, <1>3
<1>5. /\ Atomics' = Atomics
      /\ NoDuplicates'
      /\ \A q \in Packets : (Reading(q)' <=> Reading(q)) /\ (Writing(q)' <=> Writing(q))
      /\ \A q \in Packets : (WriteSent(q)' <=> WriteSent(q)) /\ (WriteWaits(q)' <=> WriteWaits(q))
      /\ \A q \in Packets : (ReadSent(q)' <=> ReadSent(q)) /\ (ReadWaits(q)' <=> ReadWaits(q))
  BY <1>1, <1>2, Zenon DEF Atomics, NoDuplicates, Reading, Writing, WriteSent, WriteWaits, ReadSent, ReadWaits
<1>6. ~WriteSent(p)
  BY <1>2 DEF WriteSent, Request, Range
<1>7. ASSUME NEW q \in Packets
      PROVE  Placed(q)'
  <2>1. CASE q = p
    <3>1. /\ ~WriteWaits(p) /\ ~ReadSent(p) /\ ~ReadWaits(p) /\ ~Reading(p)
          /\ location'[p] = "NOTINBUFFER"
      BY <1>1, <1>2, <1>6 DEF Placed, WritePlaces, ReadPlaces, InOffChipBuffer
    <3>2. WritePlaces(p)'
      BY <1>5, <1>6, <3>1, Zenon DEF WritePlaces
    <3>3. ReadPlaces(p)'
      BY <1>4, <1>5, <3>1 DEF ReadPlaces
    <3>4. LocationIsTrue(p)'
      BY <1>4, <3>1 DEF LocationIsTrue
    <3> QED BY <2>1, <3>2, <3>3, <3>4 DEF Placed
  <2>2. CASE q # p
    BY <1>1, <1>2, <1>4, <1>5, <2>2, PlacedFrame DEF SamePlace
  <2> QED BY <2>1, <2>2
<1>8. WritingIsTrue'
  <2>1. ASSUME NEW e \in Atomics, e.result = "PKTWRITE"
        PROVE  e.packet \in Packets \ {p}
    BY <1>1, <1>2, <2>1, OneCycle DEF WritingIsTrue, WriteCycle, AtomicEvents
  <2>2. UNCHANGED writingVars
    BY <1>2 DEF writingVars
  <2> QED BY <1>1, <1>2, <1>4, <1>5, <2>1, <2>2, WritingFrame
<1> QED BY <1>1, <1>5, <1>7, <1>8, DepartInv DEF PlacesInv

-----------------------------------------------------------------------------
(***************************************************************************)
(* The arithmetic of a write: OpTimes operations are just enough for the   *)
(* bytes, and stay so for what an atomic operation leaves.                 *)
(***************************************************************************)
LEMMA OpTimesJustEnough ==
  ASSUME NEW n \in Nat
  PROVE  OpTimes(n) \in Nat /\ JustEnough(OpTimes(n), n)
<1> DEFINE B == BurstSize
           q == n \div B
           r == n % B
<1>1. B \in Nat \ {0}
  BY BufferAssumption
<1>2. q \in Nat /\ r \in 0 .. B - 1 /\ n = q * B + r
  BY <1>1
<1>3. OpTimes(n) = IF r = 0 THEN q ELSE q + 1
  <2>1. OpTimes(n) = q + (IF r = 0 THEN 0 ELSE 1)
    BY DEF OpTimes
  <2> QED BY <1>2, <2>1
<1> HIDE DEF B, q, r
<1>4. (q + 1) * B = q * B + B /\ (q - 1) * B = q * B - B /\ q * B \in Nat
  BY <1>1, <1>2
<1>5. CASE r = 0
  <2>1. OpTimes(n) = q /\ n = q * B
    BY <1>2, <1>3, <1>4, <1>5
  <2>2. (q - 1) * B < n
    BY <1>1, <1>4, <2>1
  <2>3. JustEnough(q, n)
    BY <1>4, <2>1, <2>2 DEF JustEnough, B
  <2> QED BY <1>2, <2>1, <2>3
<1>6. CASE r # 0
  <2>1. OpTimes(n) = q + 1 /\ n < q * B + B /\ q * B < n
    BY <1>1, <1>2, <1>3, <1>4, <1>6
  <2>2. n <= (q + 1) * B /\ (q + 1) - 1 = q
    BY <1>1, <1>2, <1>4, <2>1
  <2>3. JustEnough(q + 1, n)
    BY <2>1, <2>2 DEF JustEnough, B
  <2> QED BY <1>2, <2>1, <2>3
<1> QED BY <1>5, <1>6

BytesMoved(ops, rest) == IF ops * BurstSize < rest THEN ops * BurstSize ELSE rest

LEMMA AtomicMove ==
  ASSUME NEW left \in Nat, left > 0, NEW rest \in Nat, JustEnough(left, rest)
  PROVE  /\ OpsNow(left) \in 1 .. left
         /\ BytesMoved(OpsNow(left), rest) \in 1 .. rest
         /\ JustEnough(left - OpsNow(left), rest - BytesMoved(OpsNow(left), rest))
<1> DEFINE B == BurstSize
           ops == OpsNow(left)
           bytes == BytesMoved(ops, rest)
<1>1. B \in Nat /\ B > 0
  BY BufferAssumption
<1>2. ops \in 1 .. left
  BY BufferAssumption DEF OpsNow
<1>3. rest <= left * B /\ (left - 1) * B < rest /\ rest > 0
  BY OperationsForBytes DEF JustEnough
<1>4. bytes = IF ops * B < rest THEN ops * B ELSE rest
  BY DEF BytesMoved
<1> HIDE DEF B, ops, bytes
<1>5. ops * B \in Nat /\ ops * B > 0
  BY <1>1, <1>2
<1>6. bytes \in 1 .. rest
  BY <1>3, <1>4, <1>5
<1>7. CASE ops = left
  <2>1. bytes = rest
    BY <1>3, <1>4, <1>7
  <2>2. 0 * B = 0
    BY <1>1
  <2>3. left - ops = 0 /\ rest - bytes = 0
    BY <1>7, <2>1
  <2>4. JustEnough(0, 0)
    BY <2>2 DEF JustEnough, B
  <2> QED BY <1>2, <1>6, <2>3, <2>4 DEF ops, bytes
<1>8. CASE ops < left
  <2> DEFINE more == left - 1 - ops
  <2>1. more \in Nat /\ left - 1 = ops + more /\ left = (ops + more) + 1 /\ left - ops = more + 1
    BY <1>2, <1>8
  <2> HIDE DEF more
  <2>2. /\ (ops + more) * B = ops * B + more * B
        /\ ((ops + more) + 1) * B = ops * B + more * B + B
        /\ (more + 1) * B = more * B + B
        /\ more * B \in Nat
    BY <1>1, <1>2, <2>1
  <2>3. ops * B + more * B < rest /\ rest <= ops * B + more * B + B
    BY <1>3, <2>1, <2>2
  <2>4. bytes = ops * B
    BY <1>4, <1>5, <2>2, <2>3
  <2>5. rest - bytes <= (more + 1) * B /\ more * B < rest - bytes
    BY <1>1, <1>5, <2>2, <2>3, <2>4
  <2>6. JustEnough(more + 1, rest - bytes)
    <3>1. (more + 1) - 1 = more
      BY <2>1
    <3> QED BY <2>5, <3>1 DEF JustEnough, B
  <2> QED BY <1>2, <1>6, <2>1, <2>6 DEF ops, bytes
<1> QED BY <1>2, <1>7, <1>8

-----------------------------------------------------------------------------
(***************************************************************************)
(* The bytes of one atomic write, and where it leaves the packet.          *)
(***************************************************************************)
LEMMA AtomicWriteMoves ==
  ASSUME PacketsOK, NEW p \in Packets, NEW left \in Nat, left > 0, NEW writing,
         JustEnough(left, Size[p] - stored[p]), AtomicWrite(p, left, {}, writing)
  PROVE  /\ \A q \in Packets \ {p} : location'[q] = location[q] /\ stored'[q] = stored[q]
         /\ stored'[p] \in stored[p] + 1 .. Size[p]
         /\ location'[p] = IF stored'[p] = Size[p] THEN "OFFCHIPBUFFER" ELSE "WRITINGTOOFFCHIPBUFFER"
         /\ writingPacket' = writing
         /\ \E e \in AtomicEvents :
              /\ Atomics' = {e} /\ e.result = "PKTWRITE" /\ e.packet = p
              /\ JustEnough(e.left, Size[p] - stored'[p])
<1> DEFINE ops == OpsNow(left)
           rest == Size[p] - stored[p]
           bytes == BytesMoved(ops, rest)
           e == CycleAtomic(p, "PKTWRITE", left - ops)
<1>1. /\ stored' = [stored EXCEPT ![p] = @ + bytes]
      /\ location' = [location EXCEPT ![p] = IF bytes = rest THEN "OFFCHIPBUFFER"
                                                             ELSE "WRITINGTOOFFCHIPBUFFER"]
      /\ events' = {} \cup {e}
      /\ writingPacket' = writing
  BY Zenon DEF AtomicWrite, BytesMoved
<1>2. rest \in Nat /\ Size[p] \in Nat /\ stored[p] \in Nat
  BY BufferAssumption DEF PacketsOK
<1>3. ops \in 1 .. left /\ bytes \in 1 .. rest /\ JustEnough(left - ops, rest - bytes)
  BY <1>2, AtomicMove
<1>4. left - ops \in Nat
  BY <1>3
<1>5. e.at = "CycleAtomic" /\ e.result = "PKTWRITE" /\ e.packet = p /\ e.left = left - ops
  BY DEF CycleAtomic
<1>6. e \in AtomicEvents
  BY <1>4 DEF CycleAtomic, AtomicEvents
<1> HIDE DEF ops, bytes, e
<1>7. /\ stored'[p] = stored[p] + bytes
      /\ location'[p] = IF bytes = rest THEN "OFFCHIPBUFFER" ELSE "WRITINGTOOFFCHIPBUFFER"
      /\ \A q \in Packets \ {p} : location'[q] = location[q] /\ stored'[q] = stored[q]
  BY <1>1 DEF PacketsOK
<1>8. /\ stored'[p] \in stored[p] + 1 .. Size[p]
      /\ stored'[p] = Size[p] <=> bytes = rest
      /\ Size[p] - stored'[p] = rest - bytes
  BY <1>2, <1>3, <1>7
<1>9. Atomics' = {e}
  BY <1>1, <1>5 DEF Atomics
<1>10. JustEnough(e.left, Size[p] - stored'[p])
  BY <1>3, <1>5, <1>8, Zenon
<1>11. location'[p] = IF stored'[p] = Size[p] THEN "OFFCHIPBUFFER" ELSE "WRITINGTOOFFCHIPBUFFER"
  BY <1>7, <1>8
<1> QED BY <1>1, <1>5, <1>6, <1>7, <1>8, <1>9, <1>10, <1>11, Zenon

(***************************************************************************)
(* A packet whose write goes on, or begins, is where the write leaves it.  *)
(***************************************************************************)
LEMMA WritingPlaced ==
  ASSUME PacketsOK, \A q \in Packets : Placed(q),
         NEW p \in Packets, NEW left \in Nat, left > 0,
         JustEnough(left, Size[p] - stored[p]), AtomicWrite(p, left, {}, p),
         stage[p] = "stored", stage' = stage, ~writingStopFlag, UNCHANGED writingStopFlag,
         ~WriteSent(p)', ~WriteWaits(p)', ~ReadSent(p)', ~ReadWaits(p)',
         \A e \in Atomics : e.packet = p,
         \A q \in Packets \ {p} : /\ WriteSent(q)' <=> WriteSent(q)
                                  /\ WriteWaits(q)' <=> WriteWaits(q)
                                  /\ ReadSent(q)' <=> ReadSent(q)
                                  /\ ReadWaits(q)' <=> ReadWaits(q)
  PROVE  WritingIsTrue' /\ \A q \in Packets : Placed(q)'
<1>1. /\ \A q \in Packets \ {p} : location'[q] = location[q] /\ stored'[q] = stored[q]
      /\ stored'[p] \in stored[p] + 1 .. Size[p]
      /\ location'[p] = IF stored'[p] = Size[p] THEN "OFFCHIPBUFFER" ELSE "WRITINGTOOFFCHIPBUFFER"
      /\ writingPacket' = p
  BY AtomicWriteMoves
<1>2. PICK e \in AtomicEvents :
              /\ Atomics' = {e} /\ e.result = "PKTWRITE" /\ e.packet = p
              /\ JustEnough(e.left, Size[p] - stored'[p])
  BY AtomicWriteMoves
<1>3. /\ Writing(p)' /\ ~Reading(p)'
      /\ \A q \in Packets \ {p} : ~Writing(q)' /\ ~Reading(q)' /\ ~Writing(q) /\ ~Reading(q)
  BY <1>2 DEF Writing, Reading
<1>4. stored[p] \in Nat /\ Size[p] \in Nat /\ stored'[p] \in Int
  BY <1>1, BufferAssumption DEF PacketsOK
<1>5. WriteCycle(e)'
  <2>1. location'[p] \in {"WRITINGTOOFFCHIPBUFFER", "OFFCHIPBUFFER"} /\ stored'[p] > 0
    BY <1>1, <1>4
  <2> QED BY <1>1, <1>2, <2>1, Zenon DEF WriteCycle
<1>6. WritingIsTrue'
  BY <1>2, <1>5, Zenon DEF WritingIsTrue
<1>7. Placed(p)'
  <2>1. WritePlaces(p)' /\ ReadPlaces(p)'
    BY <1>3, Zenon DEF WritePlaces, ReadPlaces
  <2>2. LocationIsTrue(p)'
    BY <1>1, <1>3, <1>4 DEF LocationIsTrue
  <2> QED BY <2>1, <2>2 DEF Placed
<1>8. ASSUME NEW q \in Packets \ {p}
      PROVE  Placed(q)'
  BY <1>1, <1>3, PlacedFrame DEF SamePlace
<1> QED BY <1>6, <1>7, <1>8

LEMMA StartWriteCyclePlaced ==
  ASSUME PlacesInv, NEW i \in DOMAIN writeVec, StartWriteCycle(i)
  PROVE  PlacesInv'
<1>1. EngineInv /\ NoDuplicates /\ WritingIsTrue /\ \A q \in Packets : Placed(q)
  BY Zenon DEF PlacesInv
<1>0. PICK p : p = writeVec[i]
  OBVIOUS
<1>2. /\ InterWriteReqWaitEvent \in events
      /\ writeVec' = RemoveAt(writeVec, i)
      /\ UNCHANGED <<stage, channel, readVec>>
      /\ ScheduleCycleAtomic(p, "PKTWRITE", OpTimes(Size[p]), events \ {InterWriteReqWaitEvent}, p)
  BY <1>0, Zenon DEF StartWriteCycle
<1>3. /\ writeVec \in Seq(Packets) /\ p \in Packets /\ PacketsOK /\ EngineOK
      /\ p \in Range(writeVec)
  BY <1>0, <1>1 DEF EngineInv, QueuesOK, Range
<1>4. Range(writeVec') = Range(writeVec) \ {p} /\ IsInjective(writeVec')
  BY <1>0, <1>1, <1>2, <1>3, RemoveAtElements DEF NoDuplicates
<1>5. Atomics = {} /\ events \ {InterWriteReqWaitEvent} = {}
  <2>1. \A e, f \in events : e = f
    BY <1>1, EngineInvImplies, Zenon DEF OneEventChain
  <2> QED BY <1>1, <1>2, <2>1, OneCycle, Zenon
<1>6. ~writingStopFlag
  BY <1>1, <1>5 DEF WritingIsTrue
<1>7. /\ WriteWaits(p) /\ ~WriteSent(p) /\ ~ReadSent(p) /\ ~ReadWaits(p)
      /\ stage[p] = "stored" /\ stored[p] = 0
  BY <1>1, <1>3 DEF WriteWaits, Placed, WritePlaces, ReadPlaces, LocationIsTrue
<1>8. /\ NoDuplicates'
      /\ ~WriteSent(p)' /\ ~WriteWaits(p)' /\ ~ReadSent(p)' /\ ~ReadWaits(p)'
      /\ \A q \in Packets \ {p} : /\ WriteSent(q)' <=> WriteSent(q)
                                  /\ WriteWaits(q)' <=> WriteWaits(q)
                                  /\ ReadSent(q)' <=> ReadSent(q)
                                  /\ ReadWaits(q)' <=> ReadWaits(q)
  BY <1>1, <1>2, <1>4, <1>7 DEF NoDuplicates, WriteSent, WriteWaits, ReadSent, ReadWaits
<1>9. /\ OpTimes(Size[p]) \in Nat /\ OpTimes(Size[p]) > 0
      /\ JustEnough(OpTimes(Size[p]), Size[p] - stored[p])
  <2>1. Size[p] \in Nat /\ Size[p] > 0 /\ Size[p] - stored[p] = Size[p]
    BY <1>3, <1>7, BufferAssumption
  <2>2. OpTimes(Size[p]) \in Nat /\ JustEnough(OpTimes(Size[p]), Size[p])
    BY <2>1, OpTimesJustEnough
  <2> QED BY <2>1, <2>2, OperationsForBytes
<1>10. AtomicWrite(p, OpTimes(Size[p]), {}, p) /\ UNCHANGED writingStopFlag
  <2>1. ~CycleIsOver(OpTimes(Size[p]))
    BY <1>6, <1>9 DEF CycleIsOver
  <2> QED BY <1>2, <1>5, <2>1, Zenon DEF ScheduleCycleAtomic
<1>11. WritingIsTrue' /\ \A q \in Packets : Placed(q)'
  BY <1>1, <1>2, <1>3, <1>5, <1>6, <1>7, <1>8, <1>9, <1>10, WritingPlaced
<1> QED BY <1>1, <1>8, <1>11, StartWriteCycleInv DEF PlacesInv

(***************************************************************************)
(* A cycle that ends: the packet of a read has been fetched, nothing else  *)
(* moves.                                                                  *)
(***************************************************************************)
LEMMA CycleEnds ==
  ASSUME EngineInv, NEW p \in Packets, NEW result \in {"PKTWRITE", "PKTREAD"}, NEW left, NEW writing,
         CycleComplete(p, result, left, {}, writing)
  PROVE  /\ Atomics' = {}
         /\ stored' = stored
         /\ writingStopFlag' <=> writingStopFlag /\ left = 0
         /\ result = "PKTWRITE" => location' = location /\ writingPacket' = NoPacket
         /\ result = "PKTREAD" =>
              /\ location' = [location EXCEPT ![p] = "NOTINBUFFER"]
              /\ ~writingStopFlag => writingPacket' = writing
<1>1. Atomics' = {}
  <2>1. ScheduleCycle({}) /\ wrr \in WrrState
    BY Zenon DEF CycleComplete, EngineInv, EngineOK
  <2> QED BY <2>1, NoAtomicsAfterDecision
<1>2. writingStopFlag' <=> writingStopFlag /\ left = 0
  BY Zenon DEF CycleComplete, StopFlagAfter
<1>3. writingPacket' = IF result = "PKTWRITE" \/ (writingStopFlag /\ left # 0)
                        THEN NoPacket ELSE writing
  BY Zenon DEF CycleComplete
<1>4. stored' = stored /\ IF result = "PKTREAD" THEN FetchComplete(p) ELSE location' = location
  BY Zenon DEF CycleComplete
<1>5. "PKTREAD" # "PKTWRITE"
  OBVIOUS
<1> QED BY <1>1, <1>2, <1>3, <1>4, <1>5, Zenon DEF FetchComplete

(***************************************************************************)
(* The end of a read, which may be at its start when DRAM holds nothing of *)
(* the packet.                                                             *)
(***************************************************************************)
LEMMA FetchedPlaced ==
  ASSUME EngineInv, \A q \in Packets : Placed(q), NEW p \in Packets, NEW left, NEW writing,
         CycleComplete(p, "PKTREAD", left, {}, writing), stage' = stage,
         stage[p] = "asked", stored[p] = 0, ~writingStopFlag, writing = NoPacket,
         ~ReadSent(p)', ~ReadWaits(p)',
         \A q \in Packets \ {p} : ~Writing(q) /\ ~Reading(q),
         \A q \in Packets : WriteSent(q)' <=> WriteSent(q),
         \A q \in Packets : WriteWaits(q)' <=> WriteWaits(q),
         \A q \in Packets \ {p} : ReadSent(q)' <=> ReadSent(q),
         \A q \in Packets \ {p} : ReadWaits(q)' <=> ReadWaits(q)
  PROVE  WritingIsTrue' /\ \A q \in Packets : Placed(q)'
<1>1. /\ Atomics' = {}
      /\ stored' = stored
      /\ ~writingStopFlag'
      /\ location' = [location EXCEPT ![p] = "NOTINBUFFER"]
      /\ writingPacket' = NoPacket
  BY CycleEnds
<1>2. /\ location'[p] = "NOTINBUFFER"
      /\ \A q \in Packets \ {p} : location'[q] = location[q]
  BY <1>1 DEF EngineInv, PacketsOK
<1>3. \A q \in Packets : ~Writing(q)' /\ ~Reading(q)'
  BY <1>1 DEF Writing, Reading
<1>4. WritingIsTrue'
  BY <1>1, Zenon DEF WritingIsTrue
<1>5. Placed(p)'
  <2>1. ~WriteWaits(p)
    BY DEF Placed, WritePlaces
  <2>2. WritePlaces(p)'
    BY <1>2, <2>1, Zenon DEF WritePlaces
  <2>3. ReadPlaces(p)'
    BY <1>2, <1>3 DEF ReadPlaces, InOffChipBuffer
  <2>4. LocationIsTrue(p)'
    BY <1>1, <1>2 DEF LocationIsTrue
  <2> QED BY <2>2, <2>3, <2>4 DEF Placed
<1>6. ASSUME NEW q \in Packets \ {p}
      PROVE  Placed(q)'
  <2>1. SamePlace(q)
    BY <1>1, <1>2, <1>3, Zenon DEF SamePlace
  <2> QED BY <2>1, PlacedFrame
<1> QED BY <1>4, <1>5, <1>6

(***************************************************************************)
(* A read takes the bytes of its packet out of DRAM.                       *)
(***************************************************************************)
LEMMA ReadingPlaced ==
  ASSUME EngineInv, \A q \in Packets : Placed(q), NEW p \in Packets,
         AtomicRead(p, {}, NoPacket), stage' = stage,
         stage[p] = "asked", InOffChipBuffer(p), ~writingStopFlag, UNCHANGED writingStopFlag,
         ~ReadSent(p)', ~ReadWaits(p)',
         \A q \in Packets \ {p} : ~Writing(q) /\ ~Reading(q),
         \A q \in Packets : WriteSent(q)' <=> WriteSent(q),
         \A q \in Packets : WriteWaits(q)' <=> WriteWaits(q),
         \A q \in Packets \ {p} : ReadSent(q)' <=> ReadSent(q),
         \A q \in Packets \ {p} : ReadWaits(q)' <=> ReadWaits(q)
  PROVE  WritingIsTrue' /\ \A q \in Packets : Placed(q)'
<1> DEFINE e == CycleAtomic(p, "PKTREAD", 0)
<1>1. /\ stored' = [stored EXCEPT ![p] = 0]
      /\ events' = {} \cup {e}
      /\ writingPacket' = NoPacket
      /\ location' = location
  BY Zenon DEF AtomicRead
<1>2. e.at = "CycleAtomic" /\ e.result = "PKTREAD" /\ e.packet = p
  BY DEF CycleAtomic
<1> HIDE DEF e
<1>3. Atomics' = {e}
  BY <1>1, <1>2 DEF Atomics
<1>4. /\ Reading(p)' /\ ~Writing(p)'
      /\ \A q \in Packets \ {p} : ~Writing(q)' /\ ~Reading(q)'
  BY <1>2, <1>3 DEF Writing, Reading
<1>5. /\ stored'[p] = 0 /\ 0 < Size[p]
      /\ \A q \in Packets \ {p} : stored'[q] = stored[q]
  <2>1. stored \in [Packets -> Nat]
    BY DEF EngineInv, PacketsOK
  <2>2. 0 < Size[p]
    BY BufferAssumption
  <2> QED BY <1>1, <2>1, <2>2
<1>6. WritingIsTrue'
  BY <1>1, <1>2, <1>3 DEF WritingIsTrue
<1>7. Placed(p)'
  <2>1. WritePlaces(p)'
    BY <1>1, Zenon DEF Placed, WritePlaces
  <2>2. ReadPlaces(p)'
    BY <1>1, <1>4, <1>5, Zenon DEF ReadPlaces, InOffChipBuffer
  <2>3. LocationIsTrue(p)'
    BY <1>1, <1>5 DEF Placed, LocationIsTrue, InOffChipBuffer
  <2> QED BY <2>1, <2>2, <2>3 DEF Placed
<1>8. ASSUME NEW q \in Packets \ {p}
      PROVE  Placed(q)'
  <2>1. SamePlace(q)
    BY <1>1, <1>4, <1>5, Zenon DEF SamePlace
  <2> QED BY <2>1, PlacedFrame
<1> QED BY <1>6, <1>7, <1>8

LEMMA StartReadCyclePlaced ==
  ASSUME PlacesInv, StartReadCycle
  PROVE  PlacesInv'
<1>1. EngineInv /\ NoDuplicates /\ WritingIsTrue /\ \A q \in Packets : Placed(q)
  BY Zenon DEF PlacesInv
<1>2. /\ CycleStart("PKTREAD") \in events
      /\ events \ {CycleStart("PKTREAD")} = {}
      /\ readVec # <<>>
  <2>1. OneEventChain /\ CycleStart("PKTREAD") \in events
    BY <1>1, EngineInvImplies, Zenon DEF StartReadCycle
  <2> QED BY <2>1, Zenon DEF OneEventChain
<1>0. PICK p : p = readVec[1]
  OBVIOUS
<1>3. /\ readVec' = Tail(readVec)
      /\ ScheduleCycleAtomic(p, "PKTREAD", OpTimes(stored[p]), {}, writingPacket)
      /\ UNCHANGED <<stage, channel, writeVec>>
  BY <1>0, <1>2, Zenon DEF StartReadCycle
<1>4. readVec \in Seq(Packets) /\ p \in Packets
  BY <1>0, <1>1, <1>2 DEF EngineInv, QueuesOK
<1>5. /\ p \in Range(readVec)
      /\ Range(readVec') = Range(readVec) \ {p}
      /\ IsInjective(readVec')
  BY <1>0, <1>1, <1>2, <1>3, <1>4, TailElements DEF NoDuplicates
<1>6. /\ ReadWaits(p) /\ ~ReadSent(p) /\ stage[p] = "asked" /\ InOffChipBuffer(p)
  BY <1>1, <1>4, <1>5 DEF ReadWaits, Placed, ReadPlaces
<1>7. Atomics = {}
  BY <1>1, <1>2, OneCycle
<1>8. ~writingStopFlag /\ writingPacket = NoPacket
  BY <1>1, <1>7 DEF WritingIsTrue
<1>9. /\ NoDuplicates'
      /\ ~ReadSent(p)' /\ ~ReadWaits(p)'
      /\ \A q \in Packets \ {p} : ~Writing(q) /\ ~Reading(q)
      /\ \A q \in Packets : WriteSent(q)' <=> WriteSent(q)
      /\ \A q \in Packets : WriteWaits(q)' <=> WriteWaits(q)
      /\ \A q \in Packets \ {p} : ReadSent(q)' <=> ReadSent(q)
      /\ \A q \in Packets \ {p} : ReadWaits(q)' <=> ReadWaits(q)
  BY <1>1, <1>3, <1>5, <1>6, <1>7
  DEF NoDuplicates, WriteSent, WriteWaits, ReadSent, ReadWaits, Writing, Reading
<1>10. stage' = stage
  BY <1>3
<1>11. CASE CycleIsOver(OpTimes(stored[p]))
  <2>1. CycleComplete(p, "PKTREAD", OpTimes(stored[p]), {}, writingPacket)
    BY <1>3, <1>11, Zenon DEF ScheduleCycleAtomic
  <2>2. stored[p] = 0
    <3>1. OpTimes(stored[p]) = 0 /\ stored[p] \in Nat
      BY <1>1, <1>4, <1>8, <1>11 DEF CycleIsOver, EngineInv, PacketsOK
    <3> QED BY <3>1, OpTimesJustEnough, OperationsForBytes
  <2>3. WritingIsTrue' /\ \A q \in Packets : Placed(q)'
    BY <1>1, <1>4, <1>6, <1>8, <1>9, <1>10, <2>1, <2>2, FetchedPlaced
  <2> QED BY <1>1, <1>9, <2>3, StartReadCycleInv DEF PlacesInv
<1>12. CASE ~CycleIsOver(OpTimes(stored[p]))
  <2>1. AtomicRead(p, {}, NoPacket) /\ UNCHANGED writingStopFlag
    BY <1>3, <1>8, <1>12 DEF ScheduleCycleAtomic
  <2>2. WritingIsTrue' /\ \A q \in Packets : Placed(q)'
    BY <1>1, <1>4, <1>6, <1>8, <1>9, <1>10, <2>1, ReadingPlaced
  <2> QED BY <1>1, <1>9, <2>2, StartReadCycleInv DEF PlacesInv
<1> QED BY <1>11, <1>12

LEMMA NextAtomicPlaced ==
  ASSUME PlacesInv, NEW e \in events, NextAtomic(e)
  PROVE  PlacesInv'
<1>1. EngineInv /\ NoDuplicates /\ WritingIsTrue /\ \A q \in Packets : Placed(q)
  BY Zenon DEF PlacesInv
<1>2. /\ UNCHANGED <<stage, channel, writeVec, readVec>>
      /\ ScheduleCycleAtomic(e.packet, e.result, e.left, events \ {e}, writingPacket)
      /\ e \in Atomics
  BY Zenon DEF NextAtomic, Atomics
<1>3. events \ {e} = {} /\ \A f \in Atomics : f = e
  BY <1>1, EngineInvImplies, Zenon DEF OneEventChain, Atomics
<1> DEFINE p == e.packet
<1>4. p \in Packets /\ e.result \in {"PKTWRITE", "PKTREAD"} /\ e.left \in Nat
  BY <1>1, <1>2, OneCycle DEF AtomicEvents
<1>5. ScheduleCycleAtomic(p, e.result, e.left, {}, writingPacket)
  BY <1>2, <1>3, Zenon
<1> HIDE DEF p
<1>6. /\ NoDuplicates'
      /\ \A q \in Packets : /\ WriteSent(q)' <=> WriteSent(q)
                            /\ WriteWaits(q)' <=> WriteWaits(q)
                            /\ ReadSent(q)' <=> ReadSent(q)
                            /\ ReadWaits(q)' <=> ReadWaits(q)
  BY <1>1, <1>2 DEF NoDuplicates, WriteSent, WriteWaits, ReadSent, ReadWaits
<1>7. \A q \in Packets \ {p} : ~Writing(q) /\ ~Reading(q)
  BY <1>3, Zenon DEF Writing, Reading, p
<1>8. CASE e.result = "PKTWRITE"
  <2>1. WriteCycle(e)
    BY <1>1, <1>2, <1>8 DEF WritingIsTrue
  <2>2. /\ writingPacket = p
        /\ location[p] \in {"WRITINGTOOFFCHIPBUFFER", "OFFCHIPBUFFER"}
        /\ JustEnough(e.left, Size[p] - stored[p])
        /\ writingStopFlag <=> e.left > 0 /\ stage[p] = "asked"
    BY <2>1, Zenon DEF WriteCycle, p
  <2>3. Size[p] - stored[p] \in Nat
    BY <1>1, <1>4, BufferAssumption DEF EngineInv, PacketsOK
  <2>4. e.left > 0 <=> Size[p] - stored[p] > 0
    BY <1>4, <2>2, <2>3, OperationsForBytes
  <2>5. CASE CycleIsOver(e.left)
    <3>1. CycleComplete(p, "PKTWRITE", e.left, {}, writingPacket)
      BY <1>5, <1>8, <2>5, Zenon DEF ScheduleCycleAtomic
    <3>2. /\ Atomics' = {} /\ stored' = stored /\ location' = location /\ writingPacket' = NoPacket
          /\ writingStopFlag' <=> writingStopFlag /\ e.left = 0
      BY <1>1, <1>4, <3>1, CycleEnds
    <3>3. WritingIsTrue'
      <4>1. ~writingStopFlag'
        BY <1>4, <2>2, <3>2
      <4> QED BY <3>2, <4>1, Zenon DEF WritingIsTrue
    <3>4. \A q \in Packets : ~Writing(q)' /\ ~Reading(q)'
      BY <3>2 DEF Writing, Reading
    <3>5. Placed(p)'
      <4>1. ~Reading(p)
        BY <1>3, <1>8 DEF Reading
      <4>2. WritePlaces(p)'
        BY <1>1, <1>2, <1>4, <1>6, <3>2 DEF Placed, WritePlaces
      <4>3. ReadPlaces(p)'
        BY <1>1, <1>2, <1>4, <1>6, <3>2, <3>4, <4>1 DEF Placed, ReadPlaces, InOffChipBuffer
      <4>4. stage[p] = "stored" => stored[p] = Size[p]
        <5>1. stage[p] = "stored" => e.left = 0
          BY <1>4, <2>2, <2>5 DEF CycleIsOver
        <5> QED BY <1>1, <1>4, <2>3, <2>4, <5>1, BufferAssumption DEF EngineInv, PacketsOK
      <4>5. LocationIsTrue(p)'
        <5>1. stored[p] \in Nat /\ Size[p] \in Nat /\ LocationIsTrue(p)
          BY <1>1, <1>4, BufferAssumption DEF EngineInv, PacketsOK, Placed
        <5> QED BY <1>2, <2>2, <3>2, <4>4, <5>1 DEF LocationIsTrue
      <4> QED BY <4>2, <4>3, <4>5 DEF Placed
    <3>6. ASSUME NEW q \in Packets \ {p}
          PROVE  Placed(q)'
      <4>1. SamePlace(q)
        BY <1>2, <1>6, <1>7, <3>2, <3>4, Zenon DEF SamePlace
      <4> QED BY <1>1, <4>1, PlacedFrame
    <3> QED BY <1>1, <1>6, <3>3, <3>5, <3>6, NextAtomicInv DEF PlacesInv
  <2>6. CASE ~CycleIsOver(e.left)
    <3>1. AtomicWrite(p, e.left, {}, p) /\ UNCHANGED writingStopFlag
      BY <1>5, <1>8, <2>2, <2>6 DEF ScheduleCycleAtomic
    <3>2. e.left > 0 /\ ~writingStopFlag
      BY <1>4, <2>6 DEF CycleIsOver
    <3>3. LocationIsTrue(p) /\ WritePlaces(p) /\ ReadPlaces(p)
      BY <1>1, <1>4 DEF Placed
    <3>4. stage[p] = "stored"
      BY <2>2, <3>2, <3>3 DEF LocationIsTrue
    <3>5. ~WriteSent(p)' /\ ~WriteWaits(p)' /\ ~ReadSent(p)' /\ ~ReadWaits(p)'
      <4>1. ~WriteSent(p) /\ ~WriteWaits(p)
        BY <2>2, <3>3 DEF WritePlaces
      <4>2. ~ReadSent(p) /\ ~ReadWaits(p)
        BY <3>3, <3>4 DEF ReadPlaces
      <4> QED BY <1>4, <1>6, <4>1, <4>2
    <3>6. WritingIsTrue' /\ \A q \in Packets : Placed(q)'
      <4>1. PacketsOK /\ stage' = stage /\ \A f \in Atomics : f.packet = p
        BY <1>1, <1>2, <1>3 DEF EngineInv, p
      <4> QED BY <1>1, <1>4, <1>6, <2>2, <3>1, <3>2, <3>4, <3>5, <4>1, WritingPlaced
    <3> QED BY <1>1, <1>6, <3>6, NextAtomicInv DEF PlacesInv
  <2> QED BY <2>5, <2>6
<1>9. CASE e.result = "PKTREAD"
  <2>1. Reading(p)
    BY <1>2, <1>9 DEF Reading, p
  <2>2. writingPacket = NoPacket /\ ~writingStopFlag
    <3>1. \A f \in Atomics : f.result # "PKTWRITE"
      BY <1>3, <1>9
    <3> QED BY <1>1, <3>1, Zenon DEF WritingIsTrue
  <2>3. stage[p] = "asked" /\ InOffChipBuffer(p) /\ stored[p] = 0 /\ ~ReadSent(p)' /\ ~ReadWaits(p)'
    BY <1>1, <1>4, <1>6, <2>1 DEF Placed, ReadPlaces
  <2>4. stage' = stage
    BY <1>2
  <2>5. WritingIsTrue' /\ \A q \in Packets : Placed(q)'
    <3>1. CASE CycleIsOver(e.left)
      <4>1. CycleComplete(p, "PKTREAD", e.left, {}, writingPacket)
        BY <1>5, <1>9, <3>1, Zenon DEF ScheduleCycleAtomic
      <4> QED BY <1>1, <1>4, <1>6, <1>7, <2>2, <2>3, <2>4, <4>1, FetchedPlaced
    <3>2. CASE ~CycleIsOver(e.left)
      <4>1. AtomicRead(p, {}, NoPacket) /\ UNCHANGED writingStopFlag
        BY <1>5, <1>9, <2>2, <3>2 DEF ScheduleCycleAtomic
      <4> QED BY <1>1, <1>4, <1>6, <1>7, <2>2, <2>3, <2>4, <4>1, ReadingPlaced
    <3> QED BY <3>1, <3>2
  <2> QED BY <1>1, <1>6, <2>5, NextAtomicInv DEF PlacesInv
<1> QED BY <1>4, <1>8, <1>9

(***************************************************************************)
(* The places of the packets, in every reachable state.                    *)
(***************************************************************************)
LEMMA InitPlaces == Init => PlacesInv
<1> SUFFICES ASSUME Init
             PROVE  PlacesInv
  OBVIOUS
<1>1. EngineInv
  BY InitEngineInv
<1>2. Atomics = {} /\ Range(channel) = {} /\ Range(writeVec) = {} /\ Range(readVec) = {}
  BY DEF Init, Atomics, Range
<1>3. NoDuplicates
  BY DEF Init, NoDuplicates, IsInjective
<1>4. \A p \in Packets : ~WriteSent(p) /\ ~WriteWaits(p) /\ ~ReadSent(p) /\ ~ReadWaits(p) /\ ~Reading(p)
  BY <1>2 DEF WriteSent, WriteWaits, ReadSent, ReadWaits, Reading
<1>5. \A p \in Packets : location[p] = "NOTINBUFFER" /\ stored[p] = 0 /\ stage[p] = "new"
  BY DEF Init
<1>6. \A p \in Packets : Placed(p)
  BY <1>4, <1>5 DEF Placed, WritePlaces, ReadPlaces, LocationIsTrue, InOffChipBuffer
<1>7. WritingIsTrue
  BY <1>2, Zenon DEF Init, WritingIsTrue
<1> QED BY <1>1, <1>3, <1>6, <1>7 DEF PlacesInv

LEMMA StutterPlaces == PlacesInv /\ UNCHANGED vars => PlacesInv'
<1> SUFFICES ASSUME PlacesInv, UNCHANGED vars
             PROVE  PlacesInv'
  OBVIOUS
<1>1. /\ location' = location /\ stored' = stored /\ stage' = stage /\ channel' = channel
      /\ writeVec' = writeVec /\ readVec' = readVec /\ events' = events
      /\ UNCHANGED writingVars
  BY Zenon DEF vars, packetVars, engineVars
<1>2. Atomics' = Atomics
  BY <1>1 DEF Atomics
<1>3. EngineInv'
  BY NextEngineInv, Zenon DEF PlacesInv
<1>4. NoDuplicates'
  BY <1>1, Zenon DEF PlacesInv, NoDuplicates
<1>5. WritingIsTrue'
  BY <1>1, <1>2, WritingFrame, Zenon DEF PlacesInv
<1>6. ASSUME NEW p \in Packets
      PROVE  Placed(p)'
  <2>1. SamePlace(p)
    BY <1>1, <1>2, Zenon DEF SamePlace, WriteSent, WriteWaits, ReadSent, ReadWaits, Reading, Writing
  <2>2. Placed(p)
    BY Zenon DEF PlacesInv
  <2> QED BY <2>1, <2>2, PlacedFrame
<1> QED BY <1>3, <1>4, <1>5, <1>6 DEF PlacesInv

LEMMA NextPlaces == PlacesInv /\ [Next]_vars => PlacesInv'
<1>1. PlacesInv /\ Next => PlacesInv'
  BY WritePlaced, ReadFromWcachePlaced, ReadInterruptsWritePlaced, ReadFromDramPlaced,
     RequestArrivesPlaced, StartWriteCyclePlaced, StartReadCyclePlaced, NextAtomicPlaced,
     DepartPlaced, Zenon DEF Next
<1> QED BY <1>1, StutterPlaces

LEMMA AlwaysPlaces == Spec => []PlacesInv
BY InitPlaces, NextPlaces, PTL DEF Spec

-----------------------------------------------------------------------------
(***************************************************************************)
(* OnePlace counts what the invariant says of sets.                        *)
(***************************************************************************)
LEMMA PlacesCounted ==
  ASSUME PlacesInv, NEW p \in Packets
  PROVE  /\ Cardinality(Requested("write", p)) = IF WriteSent(p) THEN 1 ELSE 0
         /\ Cardinality(Requested("read", p)) = IF ReadSent(p) THEN 1 ELSE 0
         /\ Cardinality(Waiting(writeVec, p)) = IF WriteWaits(p) THEN 1 ELSE 0
         /\ Cardinality(Waiting(readVec, p)) = IF ReadWaits(p) THEN 1 ELSE 0
         /\ Cardinality(ReadEvents(p)) = IF Reading(p) THEN 1 ELSE 0
         /\ Waiting(writeVec, p) = {} <=> ~WriteWaits(p)
         /\ WriteEvents(p) # {} <=> Writing(p)
<1>1. /\ EngineInv /\ channel \in Seq(Requests) /\ writeVec \in Seq(Packets) /\ readVec \in Seq(Packets)
      /\ IsInjective(channel) /\ IsInjective(writeVec) /\ IsInjective(readVec)
  BY Zenon DEF PlacesInv, EngineInv, QueuesOK, NoDuplicates
<1>2. /\ Cardinality(Requested("write", p)) = IF WriteSent(p) THEN 1 ELSE 0
      /\ Cardinality(Requested("read", p)) = IF ReadSent(p) THEN 1 ELSE 0
  BY <1>1, OccursOnce DEF Requested, WriteSent, ReadSent, Request
<1>3. /\ Cardinality(Waiting(writeVec, p)) = IF WriteWaits(p) THEN 1 ELSE 0
      /\ Cardinality(Waiting(readVec, p)) = IF ReadWaits(p) THEN 1 ELSE 0
  BY <1>1, OccursOnce DEF Waiting, WriteWaits, ReadWaits
<1>4. Cardinality(ReadEvents(p)) = IF Reading(p) THEN 1 ELSE 0
  <2>1. \A e, f \in Atomics : e = f
    BY <1>1, OneCycle
  <2>2. CASE Reading(p)
    <3>1. PICK e \in Atomics : e.result = "PKTREAD" /\ e.packet = p
      BY <2>2 DEF Reading
    <3>2. ReadEvents(p) = {e}
      BY <2>1, <3>1 DEF ReadEvents, Atomics
    <3> QED BY <2>2, <3>2, FS_Singleton
  <2>3. CASE ~Reading(p)
    <3>1. ReadEvents(p) = {}
      BY <2>3 DEF ReadEvents, Reading, Atomics
    <3> QED BY <2>3, <3>1, FS_EmptySet
  <2> QED BY <2>2, <2>3
<1>5. Waiting(writeVec, p) = {} <=> ~WriteWaits(p)
  BY <1>1 DEF Waiting, WriteWaits, Range
<1>6. WriteEvents(p) # {} <=> Writing(p)
  BY DEF WriteEvents, Writing, Atomics
<1> QED BY <1>2, <1>3, <1>4, <1>5, <1>6

LEMMA PlacesImplyOnePlace == PlacesInv => OnePlace
<1> SUFFICES ASSUME PlacesInv
             PROVE  OnePlace
  OBVIOUS
<1> SUFFICES ASSUME NEW p \in Packets
             PROVE  LET writes == Cardinality(Requested("write", p)) + Cardinality(Waiting(writeVec, p))
                        reads == Cardinality(Requested("read", p)) + Cardinality(Waiting(readVec, p))
                                   + Cardinality(ReadEvents(p))
                    IN /\ reads = IF stage[p] = "asked" /\ InOffChipBuffer(p) THEN 1 ELSE 0
                       /\ stage[p] = "new" => ~InOffChipBuffer(p)
                       /\ CASE location[p] = "NOTINBUFFER" -> stored[p] = 0 /\ Waiting(writeVec, p) = {}
                            [] location[p] = "WCACHE" -> stored[p] = 0 /\ stage[p] = "stored" /\ writes = 1
                            [] location[p] = "WRITINGTOOFFCHIPBUFFER" ->
                                 /\ writes = 0
                                 /\ stored[p] < Size[p]
                                 /\ stage[p] = "stored" => stored[p] > 0 /\ WriteEvents(p) # {}
                            [] OTHER -> writes = 0 /\ stored[p] \in {Size[p], 0}
  BY DEF OnePlace
<1> DEFINE ws == Cardinality(Requested("write", p))
           ww == Cardinality(Waiting(writeVec, p))
           rs == Cardinality(Requested("read", p))
           rw == Cardinality(Waiting(readVec, p))
           rr == Cardinality(ReadEvents(p))
<1>1. /\ ws = IF WriteSent(p) THEN 1 ELSE 0
      /\ ww = IF WriteWaits(p) THEN 1 ELSE 0
      /\ rs = IF ReadSent(p) THEN 1 ELSE 0
      /\ rw = IF ReadWaits(p) THEN 1 ELSE 0
      /\ rr = IF Reading(p) THEN 1 ELSE 0
      /\ Waiting(writeVec, p) = {} <=> ~WriteWaits(p)
      /\ WriteEvents(p) # {} <=> Writing(p)
  BY PlacesCounted
<1> HIDE DEF ws, ww, rs, rw, rr
<1>2. WritePlaces(p) /\ ReadPlaces(p) /\ LocationIsTrue(p)
  BY DEF PlacesInv, Placed
<1>3. rs + rw + rr = IF stage[p] = "asked" /\ InOffChipBuffer(p) THEN 1 ELSE 0
  BY <1>1, <1>2 DEF ReadPlaces
<1>4. stage[p] = "new" => ~InOffChipBuffer(p)
  BY <1>2 DEF LocationIsTrue, InOffChipBuffer
<1>5. CASE location[p] = "NOTINBUFFER"
  BY <1>1, <1>2, <1>3, <1>4, <1>5 DEF WritePlaces, LocationIsTrue, ws, ww, rs, rw, rr
<1>6. CASE location[p] = "WCACHE"
  <2>1. stored[p] = 0 /\ stage[p] = "stored" /\ ws + ww = 1
    BY <1>1, <1>2, <1>6 DEF WritePlaces, LocationIsTrue
  <2> QED BY <1>3, <1>4, <1>6, <2>1 DEF ws, ww, rs, rw, rr
<1>7. CASE location[p] = "WRITINGTOOFFCHIPBUFFER"
  <2>1. ws + ww = 0 /\ stored[p] < Size[p]
    BY <1>1, <1>2, <1>7 DEF WritePlaces, LocationIsTrue
  <2>2. ASSUME stage[p] = "stored"
        PROVE  stored[p] > 0 /\ WriteEvents(p) # {}
    <3>1. Writing(p)
      BY <1>2, <1>7, <2>2 DEF LocationIsTrue
    <3> QED BY <1>1, <3>1 DEF PlacesInv, WritingIsTrue, WriteCycle, Writing
  <2> QED BY <1>3, <1>4, <1>7, <2>1, <2>2 DEF ws, ww, rs, rw, rr
<1>8. CASE location[p] \in {"OFFCHIPBUFFER", "ONCHIPBUFFER"}
  <2>1. ws + ww = 0 /\ stored[p] \in {Size[p], 0}
    BY <1>1, <1>2, <1>8 DEF WritePlaces, LocationIsTrue
  <2> QED BY <1>3, <1>4, <1>8, <2>1 DEF ws, ww, rs, rw, rr
<1>9. location[p] \in {"NOTINBUFFER", "WCACHE", "WRITINGTOOFFCHIPBUFFER",
                     "OFFCHIPBUFFER", "ONCHIPBUFFER"}
  BY <1>2 DEF LocationIsTrue
<1> QED BY <1>5, <1>6, <1>7, <1>8, <1>9

LEMMA PlacesImplyStopFlag == PlacesInv => StopFlagDiscipline
<1> SUFFICES ASSUME PlacesInv
             PROVE  StopFlagDiscipline
  OBVIOUS
<1>1. EngineInv /\ WritingIsTrue
  BY Zenon DEF PlacesInv
<1>2. CASE \A e \in Atomics : e.result # "PKTWRITE"
  <2>1. ~writingStopFlag
    BY <1>1, <1>2, Zenon DEF WritingIsTrue
  <2>2. \A p \in Packets : WriteEvents(p) = {}
    BY <1>2 DEF WriteEvents, Atomics
  <2> QED BY <2>1, <2>2, Zenon DEF StopFlagDiscipline
<1>3. ASSUME NEW e \in Atomics, e.result = "PKTWRITE"
      PROVE  StopFlagDiscipline
  <2>1. WriteCycle(e)
    BY <1>1, <1>3, Zenon DEF WritingIsTrue
  <2>2. /\ writingPacket = e.packet
        /\ writingStopFlag <=> e.left > 0 /\ stage[e.packet] = "asked"
    BY <2>1, Zenon DEF WriteCycle
  <2>3. e.packet \in Packets
    BY <1>1, OneCycle DEF AtomicEvents
  <2>4. e \in WriteEvents(e.packet)
    BY <1>3 DEF WriteEvents, Atomics
  <2>5. \A p \in Packets : \A f \in WriteEvents(p) : f = e
    BY <1>1, OneCycle DEF WriteEvents, Atomics
  <2> QED BY <2>2, <2>3, <2>4, <2>5, Zenon DEF StopFlagDiscipline
<1> QED BY <1>2, <1>3

(***************************************************************************)
(* Only an atomic write adds bytes in DRAM.                                *)
(***************************************************************************)
LEMMA OnlyWritesAddBytes ==
  ASSUME PacketsOK, NEW p \in Packets, NEW result, NEW left, NEW pending, NEW writing,
         ScheduleCycleAtomic(p, result, left, pending, writing),
         NEW q \in Packets, stored'[q] > stored[q]
  PROVE  q = p /\ result = "PKTWRITE" /\ left # 0 /\ ~writingStopFlag
<1>1. stored \in [Packets -> Nat] /\ stored[q] \in Nat /\ stored[p] \in Nat
  BY DEF PacketsOK
<1>2. stored' # stored
  BY <1>1
<1>3. ~CycleIsOver(left)
  BY <1>2, Zenon DEF ScheduleCycleAtomic, CycleComplete
<1>4. CASE result = "PKTWRITE"
  <2>1. PICK n : stored' = [stored EXCEPT ![p] = n]
    BY <1>3, <1>4, Zenon DEF ScheduleCycleAtomic, AtomicWrite
  <2>2. q = p
    BY <1>1, <2>1
  <2> QED BY <1>3, <1>4, <2>2, Zenon DEF CycleIsOver
<1>5. CASE result # "PKTWRITE"
  <2>1. stored' = [stored EXCEPT ![p] = 0]
    BY <1>3, <1>5, Zenon DEF ScheduleCycleAtomic, AtomicRead
  <2> QED BY <1>1, <2>1
<1> QED BY <1>4, <1>5

LEMMA CancelledStops ==
  PlacesInv /\ [Next]_vars => [\A p \in Packets : stored'[p] > stored[p] => stage'[p] = "stored"]_vars
<1> SUFFICES ASSUME PlacesInv, Next, NEW q \in Packets, stored'[q] > stored[q]
             PROVE  stage'[q] = "stored"
  OBVIOUS
<1>1. /\ EngineInv /\ PacketsOK /\ QueuesOK /\ WritingIsTrue
      /\ \A p \in Packets : Placed(p)
  BY Zenon DEF PlacesInv, EngineInv
<1>2. stored \in [Packets -> Nat] /\ stored[q] \in Nat
  BY <1>1 DEF PacketsOK
<1>3. stored' # stored
  BY <1>2
<1>4. CASE \E i \in DOMAIN writeVec : StartWriteCycle(i)
  <2>1. PICK i \in DOMAIN writeVec : StartWriteCycle(i)
    BY <1>4
  <2>2. PICK p : p = writeVec[i]
    OBVIOUS
  <2>3. p \in Packets /\ WriteWaits(p)
    BY <1>1, <2>2 DEF QueuesOK, WriteWaits, Range
  <2>4. stage' = stage /\ q = p
    BY <1>1, <2>1, <2>2, <2>3, OnlyWritesAddBytes DEF StartWriteCycle
  <2> QED BY <1>1, <2>3, <2>4 DEF Placed, WritePlaces
<1>5. CASE \E e \in events : NextAtomic(e)
  <2>1. PICK e \in events : NextAtomic(e)
    BY <1>5
  <2>2. e \in Atomics /\ e.packet \in Packets /\ e.left \in Nat
    BY <1>1, <2>1, OneCycle DEF NextAtomic, Atomics, AtomicEvents
  <2>3. stage' = stage /\ q = e.packet /\ e.result = "PKTWRITE" /\ e.left # 0 /\ ~writingStopFlag
    <3>1. ScheduleCycleAtomic(e.packet, e.result, e.left, events \ {e}, writingPacket) /\ stage' = stage
      BY <2>1, Zenon DEF NextAtomic
    <3> QED BY <1>1, <2>2, <3>1, OnlyWritesAddBytes
  <2>4. WriteCycle(e)
    BY <1>1, <2>2, <2>3, Zenon DEF WritingIsTrue
  <2>5. stage[q] # "asked" /\ location[q] \in {"WRITINGTOOFFCHIPBUFFER", "OFFCHIPBUFFER"}
    BY <2>2, <2>3, <2>4 DEF WriteCycle
  <2> QED BY <1>1, <2>3, <2>5 DEF Placed, LocationIsTrue
<1>6. CASE StartReadCycle
  <2>1. readVec # <<>>
    BY <1>3, <1>6, Zenon DEF StartReadCycle, packetVars
  <2>2. PICK p : p = readVec[1]
    OBVIOUS
  <2>3. p \in Packets
    BY <1>1, <2>1, <2>2 DEF QueuesOK
  <2>4. PICK pending : ScheduleCycleAtomic(p, "PKTREAD", OpTimes(stored[p]), pending, writingPacket)
    BY <1>6, <2>1, <2>2, Zenon DEF StartReadCycle
  <2> QED BY <1>1, <2>3, <2>4, OnlyWritesAddBytes
<1>7. CASE \E p \in Packets : Depart(p)
  <2>1. PICK p \in Packets : stored' = [stored EXCEPT ![p] = 0]
    BY <1>7, Zenon DEF Depart
  <2> QED BY <1>2, <2>1
<1>8. CASE (\E p \in Packets : Write(p) \/ ReadFromWcache(p) \/ ReadInterruptsWrite(p) \/ ReadFromDram(p))
             \/ RequestArrives
  BY <1>3, <1>8, Zenon DEF Write, ReadFromWcache, ReadInterruptsWrite, ReadFromDram, RequestArrives,
                           packetVars
<1> QED BY <1>4, <1>5, <1>6, <1>7, <1>8, Zenon DEF Next

(***************************************************************************)
(* Every packet is in one place, the one its location names: its requests  *)
(* are neither lost nor doubled on their way through channel, vectors and  *)
(* engine, whatever the read that catches it (CancelWrite, ReadRequest).   *)
(***************************************************************************)
THEOREM PacketsInOnePlace == Spec => []OnePlace
BY AlwaysPlaces, PlacesImplyOnePlace, PTL

(***************************************************************************)
(* m_writingStopFlag is up exactly while the write it is meant for is      *)
(* under way, so it never stops the cycle of another packet.               *)
(***************************************************************************)
THEOREM StopFlagStopsItsWrite == Spec => []StopFlagDiscipline
BY AlwaysPlaces, PlacesImplyStopFlag, PTL

(***************************************************************************)
(* The engine writes no byte of a packet that was asked for.               *)
(***************************************************************************)
THEOREM CancelledWritesStop == Spec => CancelledWriteStops
<1>1. PlacesInv /\ [Next]_vars => [\A p \in Packets : stored'[p] > stored[p] => stage'[p] = "stored"]_vars
  BY CancelledStops
<1> QED BY <1>1, AlwaysPlaces, PTL DEF Spec, CancelledWriteStops

-----------------------------------------------------------------------------
(***************************************************************************)
(* The memories.  A step moves bytes of one packet at most, and moves in   *)
(* the counters what it moves in the packet.                               *)
(***************************************************************************)
CacheCount(p) == IF InWcache(p) THEN 1 ELSE 0

MemoryStep(p) ==
  /\ \A q \in Packets \ {p} : location'[q] = location[q] /\ stored'[q] = stored[q] /\ stage'[q] = stage[q]
  /\ wcacheUsed' = wcacheUsed - Held(p) + Held(p)'
  /\ nWcachePackets' = nWcachePackets - CacheCount(p) + CacheCount(p)'
  /\ dramUsed' = dramUsed - stored[p] + stored'[p]
  /\ wcacheUsed' <= WcacheSize

LEMMA MemoryStepKeeps ==
  ASSUME MemoryInv, PacketsOK, PacketsOK', NEW p \in Packets, MemoryStep(p)
  PROVE  MemoryInv'
<1>1. /\ IsFiniteSet(Packets)
      /\ \A q \in Packets : Size[q] \in Nat /\ stored[q] \in Nat /\ stored'[q] \in Nat
  BY BufferAssumption DEF PacketsOK
<1>2. \A q \in Packets : Held(q) \in Int /\ Held(q)' \in Int
  BY <1>1 DEF Held
<1>3. \A q \in Packets \ {p} : (InWcache(q)' <=> InWcache(q)) /\ stored'[q] = stored[q]
  BY DEF MemoryStep, InWcache
<1>4. wcacheUsed' = SumFunctionOnSet(CacheBytes, Packets)'
  <2>1. \A q \in Packets : CacheBytes[q] = Held(q) /\ CacheBytes'[q] = Held(q)'
    BY DEF CacheBytes
  <2>2. \A q \in Packets \ {p} : Held(q)' = Held(q)
    BY <1>3, Zenon DEF Held
  <2>3. SumFunctionOnSet(CacheBytes', Packets) = SumFunctionOnSet(CacheBytes, Packets) - CacheBytes[p] + CacheBytes'[p]
    <3>1. \A q \in Packets : CacheBytes[q] \in Int /\ CacheBytes'[q] \in Int
      BY <1>2, <2>1
    <3>2. \A q \in Packets \ {p} : CacheBytes[q] = CacheBytes'[q]
      BY <2>1, <2>2
    <3> QED BY <1>1, <3>1, <3>2, SumChange
  <2>4. wcacheUsed = SumFunctionOnSet(CacheBytes, Packets) /\ wcacheUsed' = wcacheUsed - Held(p) + Held(p)'
    BY Zenon DEF MemoryInv, MemoryStep
  <2>5. wcacheUsed' = SumFunctionOnSet(CacheBytes', Packets)
    BY <2>1, <2>3, <2>4
  <2> QED BY <2>5
<1>5. dramUsed' = SumFunctionOnSet(stored, Packets)'
  <2>1. SumFunctionOnSet(stored', Packets) = SumFunctionOnSet(stored, Packets) - stored[p] + stored'[p]
    <3>1. \A q \in Packets : stored[q] \in Int /\ stored'[q] \in Int
      BY <1>1
    <3>2. \A q \in Packets \ {p} : stored[q] = stored'[q]
      BY <1>3
    <3> QED BY <1>1, <3>1, <3>2, SumChange
  <2>2. dramUsed' = SumFunctionOnSet(stored', Packets)
    BY <2>1 DEF MemoryInv, MemoryStep
  <2> QED BY <2>2
<1>6. nWcachePackets' = Cardinality({q \in Packets : InWcache(q)})'
  <2> DEFINE C == {q \in Packets : InWcache(q)}
  <2>1. PICK D : D = {q \in Packets : InWcache(q)'}
    OBVIOUS
  <2>2. IsFiniteSet(C) /\ nWcachePackets = Cardinality(C) /\ Cardinality(C) \in Nat
    BY <1>1, FS_Subset, FS_CardinalityType DEF MemoryInv
  <2>3. nWcachePackets' = nWcachePackets - CacheCount(p) + CacheCount(p)'
    BY Zenon DEF MemoryStep
  <2>4. CASE InWcache(p) <=> InWcache(p)'
    <3>1. D = C
      BY <1>3, <2>1, <2>4
    <3>2. CacheCount(p)' = CacheCount(p) /\ CacheCount(p) \in Int
      BY <2>4 DEF CacheCount
    <3> QED BY <2>1, <2>2, <2>3, <3>1, <3>2
  <2>5. CASE InWcache(p) /\ ~InWcache(p)'
    <3>1. D = C \ {p} /\ p \in C
      BY <1>3, <2>1, <2>5
    <3>2. Cardinality(D) = Cardinality(C) - 1
      BY <2>2, <3>1, FS_RemoveElement
    <3>3. CacheCount(p)' = 0 /\ CacheCount(p) = 1
      BY <2>5 DEF CacheCount
    <3> QED BY <2>1, <2>2, <2>3, <3>2, <3>3
  <2>6. CASE ~InWcache(p) /\ InWcache(p)'
    <3>1. D = C \cup {p} /\ p \notin C
      BY <1>3, <2>1, <2>6
    <3>2. Cardinality(D) = Cardinality(C) + 1
      BY <2>2, <3>1, FS_AddElement
    <3>3. CacheCount(p)' = 1 /\ CacheCount(p) = 0
      BY <2>6 DEF CacheCount
    <3> QED BY <2>1, <2>2, <2>3, <3>2, <3>3
  <2> QED BY <2>4, <2>5, <2>6
<1> QED BY <1>4, <1>5, <1>6 DEF MemoryInv, MemoryStep

(***************************************************************************)
(* A step that leaves counters and packets alone.                          *)
(***************************************************************************)
LEMMA MemoryFrame ==
  ASSUME MemoryInv, PacketsOK, UNCHANGED counterVars, stored' = stored,
         \A q \in Packets : InWcache(q)' <=> InWcache(q)
  PROVE  MemoryInv'
<1>1. wcacheUsed' = wcacheUsed /\ nWcachePackets' = nWcachePackets /\ dramUsed' = dramUsed
  BY Zenon DEF counterVars
<1>2. CacheBytes' = CacheBytes
  BY DEF CacheBytes, Held
<1>3. {q \in Packets : InWcache(q)}' = {q \in Packets : InWcache(q)}
  OBVIOUS
<1> QED BY <1>1, <1>2, <1>3, Zenon DEF MemoryInv

LEMMA WriteMemory ==
  ASSUME PlacesInv, MemoryInv, NEW p \in Packets, Write(p)
  PROVE  MemoryStep(p)
<1>1. PacketsOK /\ stage \in [Packets -> {"new", "stored", "asked"}] /\ LocationIsTrue(p) /\ Size[p] \in Nat
  BY BufferAssumption DEF PlacesInv, EngineInv, Placed
<1>2. /\ stage[p] = "new" /\ Size[p] <= WcacheSize - wcacheUsed
      /\ stage' = [stage EXCEPT ![p] = "stored"]
      /\ wcacheUsed' = wcacheUsed + Size[p]
      /\ nWcachePackets' = nWcachePackets + 1
      /\ location' = [location EXCEPT ![p] = "WCACHE"]
      /\ stored' = stored /\ dramUsed' = dramUsed
  BY Zenon DEF Write, WcacheHasRoom
<1>3. stored[p] = 0
  BY <1>1, <1>2 DEF LocationIsTrue
<1>4. ~InWcache(p) /\ InWcache(p)'
  BY <1>1, <1>2 DEF InWcache, PacketsOK
<1>5. Held(p) = 0 /\ Held(p)' = Size[p] /\ CacheCount(p) = 0 /\ CacheCount(p)' = 1
  BY <1>1, <1>2, <1>3, <1>4 DEF Held, CacheCount
<1>6. wcacheUsed' <= WcacheSize
  BY <1>1, <1>2, BufferAssumption DEF PacketsOK
<1> QED BY <1>1, <1>2, <1>3, <1>5, <1>6 DEF MemoryStep, PacketsOK

(***************************************************************************)
(* A read releases the rest of its packet in the write cache.              *)
(***************************************************************************)
LEMMA ReleaseMemory ==
  ASSUME PlacesInv, MemoryInv, NEW p \in Packets,
         stage[p] = "stored", location[p] \in {"WCACHE", "WRITINGTOOFFCHIPBUFFER"},
         ReleaseWcache(p), stage' = [stage EXCEPT ![p] = "asked"],
         \A q \in Packets \ {p} : location'[q] = location[q],
         stored' = stored, dramUsed' = dramUsed
  PROVE  MemoryStep(p)
<1>1. PacketsOK /\ stage \in [Packets -> {"new", "stored", "asked"}] /\ Size[p] \in Nat
      /\ stored[p] \in Nat /\ stored[p] <= Size[p]
  BY BufferAssumption DEF PlacesInv, EngineInv, PacketsOK
<1>2. /\ wcacheUsed' = wcacheUsed - (Size[p] - stored[p])
      /\ nWcachePackets' = nWcachePackets - 1
  BY Zenon DEF ReleaseWcache
<1>3. InWcache(p) /\ ~InWcache(p)'
  BY <1>1 DEF InWcache
<1>4. Held(p) = Size[p] - stored[p] /\ Held(p)' = 0 /\ CacheCount(p) = 1 /\ CacheCount(p)' = 0
  BY <1>3 DEF Held, CacheCount
<1>5. wcacheUsed' <= WcacheSize
  BY <1>1, <1>2, BufferAssumption DEF PacketsOK, MemoryInv
<1> QED BY <1>1, <1>2, <1>4, <1>5 DEF MemoryStep, PacketsOK

(***************************************************************************)
(* The engine moves bytes from the write cache into DRAM, or out of it.    *)
(***************************************************************************)
LEMMA CycleMemory ==
  ASSUME PacketsOK, MemoryInv, NEW p \in Packets, NEW result \in {"PKTWRITE", "PKTREAD"},
         NEW left \in Nat, NEW pending, NEW writing,
         ScheduleCycleAtomic(p, result, left, pending, writing), stage' = stage,
         result = "PKTWRITE" /\ left # 0 /\ ~writingStopFlag =>
           stage[p] = "stored" /\ location[p] \in {"WCACHE", "WRITINGTOOFFCHIPBUFFER"},
         result = "PKTREAD" => stage[p] = "asked"
  PROVE  MemoryStep(p)
<1>1. Size[p] \in Nat /\ stored[p] \in Nat /\ stored[p] <= Size[p]
  BY BufferAssumption DEF PacketsOK
<1>2. wcacheUsed \in Int /\ wcacheUsed <= WcacheSize /\ WcacheSize \in Nat
      /\ nWcachePackets \in Int /\ dramUsed \in Int
  BY BufferAssumption DEF PacketsOK, MemoryInv
<1>3. CASE CycleIsOver(left)
  <2>1. UNCHANGED <<stored, wcacheUsed, dramUsed, nWcachePackets>>
    BY <1>3, Zenon DEF ScheduleCycleAtomic, CycleComplete
  <2>2. location' = location \/ (result = "PKTREAD" /\ location' = [location EXCEPT ![p] = "NOTINBUFFER"])
    BY <1>3, Zenon DEF ScheduleCycleAtomic, CycleComplete, FetchComplete
  <2>3. (InWcache(p)' <=> InWcache(p)) /\ \A q \in Packets \ {p} : location'[q] = location[q]
    BY <2>2 DEF InWcache, PacketsOK
  <2>4. Held(p)' = Held(p) /\ CacheCount(p)' = CacheCount(p) /\ Held(p) \in Int /\ CacheCount(p) \in Int
    BY <1>1, <2>1, <2>3 DEF Held, CacheCount
  <2> QED BY <1>1, <1>2, <2>1, <2>3, <2>4 DEF MemoryStep
<1>4. CASE ~CycleIsOver(left) /\ result = "PKTWRITE"
  <2> DEFINE rest == Size[p] - stored[p]
             bytes == BytesMoved(OpsNow(left), rest)
  <2>1. /\ stored' = [stored EXCEPT ![p] = @ + bytes]
        /\ wcacheUsed' = wcacheUsed - bytes
        /\ dramUsed' = dramUsed + bytes
        /\ location' = [location EXCEPT ![p] = IF bytes = rest THEN "OFFCHIPBUFFER"
                                                               ELSE "WRITINGTOOFFCHIPBUFFER"]
        /\ nWcachePackets' = IF bytes = rest THEN nWcachePackets - 1 ELSE nWcachePackets
    BY <1>4, Zenon DEF ScheduleCycleAtomic, AtomicWrite, BytesMoved
  <2>2. rest \in Nat /\ bytes \in Nat /\ bytes <= rest
    <3>1. OpsNow(left) \in Nat /\ BurstSize \in Nat
      BY BufferAssumption DEF OpsNow
    <3>2. OpsNow(left) * BurstSize \in Nat
      BY <3>1
    <3> QED BY <1>1, <3>2 DEF BytesMoved
  <2>3. stage[p] = "stored" /\ location[p] \in {"WCACHE", "WRITINGTOOFFCHIPBUFFER"}
    BY <1>4 DEF CycleIsOver
  <2> HIDE DEF bytes
  <2>4. /\ stored'[p] = stored[p] + bytes
        /\ location'[p] = IF bytes = rest THEN "OFFCHIPBUFFER" ELSE "WRITINGTOOFFCHIPBUFFER"
        /\ \A q \in Packets \ {p} : location'[q] = location[q] /\ stored'[q] = stored[q]
    BY <2>1 DEF PacketsOK
  <2>5. InWcache(p) /\ (InWcache(p)' <=> bytes # rest)
    BY <2>3, <2>4 DEF InWcache
  <2>6. Held(p) = rest /\ Held(p)' = rest - bytes
    <3>1. Held(p) = rest
      BY <2>5 DEF Held
    <3>2. Size[p] - stored'[p] = rest - bytes
      BY <1>1, <2>2, <2>4
    <3>3. CASE bytes = rest
      BY <2>2, <2>5, <3>1, <3>3 DEF Held
    <3>4. CASE bytes # rest
      BY <2>5, <3>1, <3>2, <3>4 DEF Held
    <3> QED BY <3>3, <3>4
  <2>7. nWcachePackets' = nWcachePackets - CacheCount(p) + CacheCount(p)'
    BY <1>2, <2>1, <2>5 DEF CacheCount
  <2>8. /\ wcacheUsed' = wcacheUsed - Held(p) + Held(p)' /\ wcacheUsed' <= WcacheSize
        /\ dramUsed' = dramUsed - stored[p] + stored'[p]
    BY <1>1, <1>2, <2>1, <2>2, <2>4, <2>6
  <2> QED BY <2>4, <2>7, <2>8 DEF MemoryStep
<1>5. CASE ~CycleIsOver(left) /\ result = "PKTREAD"
  <2>1. /\ stored' = [stored EXCEPT ![p] = 0]
        /\ dramUsed' = dramUsed - stored[p]
        /\ UNCHANGED <<location, wcacheUsed, nWcachePackets>>
    BY <1>5, Zenon DEF ScheduleCycleAtomic, AtomicRead, BytesRead
  <2>2. ~InWcache(p) /\ ~InWcache(p)'
    BY <1>5 DEF InWcache
  <2>3. Held(p) = 0 /\ Held(p)' = 0 /\ CacheCount(p) = 0 /\ CacheCount(p)' = 0
    BY <2>2 DEF Held, CacheCount
  <2>4. stored'[p] = 0 /\ \A q \in Packets \ {p} : stored'[q] = stored[q]
    BY <2>1 DEF PacketsOK
  <2> QED BY <1>1, <1>2, <2>1, <2>3, <2>4 DEF MemoryStep
<1> QED BY <1>3, <1>4, <1>5

(***************************************************************************)
(* What the two kinds of cycle serve: a write goes on only with a packet   *)
(* that is stored and has bytes in the write cache, a read only with one   *)
(* that was asked for.                                                     *)
(***************************************************************************)
LEMMA StartWriteServes ==
  ASSUME PlacesInv, NEW i \in DOMAIN writeVec, NEW p, p = writeVec[i], StartWriteCycle(i)
  PROVE  /\ p \in Packets /\ stage[p] = "stored" /\ location[p] = "WCACHE" /\ stored[p] = 0
         /\ stage' = stage /\ OpTimes(Size[p]) \in Nat
         /\ ScheduleCycleAtomic(p, "PKTWRITE", OpTimes(Size[p]), {}, p)
<1>1. PlacesInv /\ EngineInv /\ QueuesOK
  BY Zenon DEF PlacesInv, EngineInv
<1>2. p \in Packets /\ WriteWaits(p)
  BY <1>1 DEF QueuesOK, WriteWaits, Range
<1>3. stage[p] = "stored" /\ location[p] = "WCACHE" /\ stored[p] = 0
  BY <1>1, <1>2 DEF PlacesInv, Placed, WritePlaces, LocationIsTrue
<1>4. /\ stage' = stage /\ InterWriteReqWaitEvent \in events
      /\ ScheduleCycleAtomic(p, "PKTWRITE", OpTimes(Size[p]), events \ {InterWriteReqWaitEvent}, p)
  BY Zenon DEF StartWriteCycle
<1>5. events \ {InterWriteReqWaitEvent} = {}
  <2>1. \A e, f \in events : e = f
    BY <1>1, EngineInvImplies, Zenon DEF OneEventChain
  <2> QED BY <1>4, <2>1, Zenon
<1>6. OpTimes(Size[p]) \in Nat
  <2>1. Size[p] \in Nat
    BY <1>2, BufferAssumption
  <2> QED BY <2>1, OpTimesNat
<1>7. ScheduleCycleAtomic(p, "PKTWRITE", OpTimes(Size[p]), {}, p)
  BY <1>4, <1>5, Zenon
<1> QED BY <1>2, <1>3, <1>4, <1>6, <1>7

LEMMA StartReadServes ==
  ASSUME PlacesInv, StartReadCycle
  PROVE  \E p \in Packets :
           /\ stage[p] = "asked" /\ stage' = stage /\ OpTimes(stored[p]) \in Nat
           /\ UNCHANGED writeVec
           /\ ScheduleCycleAtomic(p, "PKTREAD", OpTimes(stored[p]), {}, writingPacket)
<1>1. PlacesInv /\ EngineInv /\ QueuesOK /\ PacketsOK
  BY Zenon DEF PlacesInv, EngineInv
<1>2. CycleStart("PKTREAD") \in events /\ events \ {CycleStart("PKTREAD")} = {} /\ readVec # <<>>
  <2>1. OneEventChain /\ CycleStart("PKTREAD") \in events
    BY <1>1, EngineInvImplies, Zenon DEF StartReadCycle
  <2> QED BY <2>1, Zenon DEF OneEventChain
<1>3. PICK p : p = readVec[1]
  OBVIOUS
<1>4. p \in Packets /\ ReadWaits(p)
  BY <1>1, <1>2, <1>3 DEF QueuesOK, ReadWaits, Range
<1>5. stage[p] = "asked" /\ stored[p] \in Nat
  BY <1>1, <1>4 DEF PlacesInv, Placed, ReadPlaces, PacketsOK
<1>6. /\ UNCHANGED <<stage, channel, writeVec>>
      /\ ScheduleCycleAtomic(p, "PKTREAD", OpTimes(stored[p]), {}, writingPacket)
  BY <1>2, <1>3, Zenon DEF StartReadCycle
<1> QED BY <1>4, <1>5, <1>6, OpTimesNat

LEMMA NextAtomicServes ==
  ASSUME PlacesInv, NEW e \in events, NextAtomic(e)
  PROVE  /\ e \in Atomics /\ e.packet \in Packets /\ e.left \in Nat
         /\ e.result \in {"PKTWRITE", "PKTREAD"}
         /\ e.result = "PKTWRITE" /\ e.left # 0 /\ ~writingStopFlag =>
              stage[e.packet] = "stored" /\ location[e.packet] \in {"WCACHE", "WRITINGTOOFFCHIPBUFFER"}
         /\ e.result = "PKTREAD" => stage[e.packet] = "asked"
         /\ stage' = stage /\ UNCHANGED writeVec
         /\ ScheduleCycleAtomic(e.packet, e.result, e.left, {}, writingPacket)
<1>1. PlacesInv /\ EngineInv /\ PacketsOK /\ WritingIsTrue
  BY Zenon DEF PlacesInv, EngineInv
<1>2. e \in Atomics /\ UNCHANGED <<stage, channel, writeVec, readVec>>
      /\ ScheduleCycleAtomic(e.packet, e.result, e.left, events \ {e}, writingPacket)
  BY Zenon DEF NextAtomic, Atomics
<1>3. e.packet \in Packets /\ e.left \in Nat /\ e.result \in {"PKTWRITE", "PKTREAD"}
  BY <1>1, <1>2, OneCycle DEF AtomicEvents
<1>4. events \ {e} = {}
  BY <1>1, EngineInvImplies, Zenon DEF OneEventChain
<1>5. ScheduleCycleAtomic(e.packet, e.result, e.left, {}, writingPacket)
  BY <1>2, <1>4, Zenon
<1>6. Placed(e.packet)
  BY <1>1, <1>3, Zenon DEF PlacesInv
<1>7. ASSUME e.result = "PKTWRITE", e.left # 0, ~writingStopFlag
      PROVE  stage[e.packet] = "stored" /\ location[e.packet] \in {"WCACHE", "WRITINGTOOFFCHIPBUFFER"}
  <2>1. WriteCycle(e)
    BY <1>1, <1>2, <1>7, Zenon DEF WritingIsTrue
  <2>2. /\ location[e.packet] \in {"WRITINGTOOFFCHIPBUFFER", "OFFCHIPBUFFER"}
        /\ JustEnough(e.left, Size[e.packet] - stored[e.packet])
        /\ stage[e.packet] # "asked"
    BY <1>3, <1>7, <2>1 DEF WriteCycle
  <2>3. Size[e.packet] - stored[e.packet] \in Nat
    BY <1>1, <1>3, BufferAssumption DEF PacketsOK
  <2>4. Size[e.packet] - stored[e.packet] > 0
    BY <1>3, <1>7, <2>2, <2>3, OperationsForBytes
  <2>5. stored[e.packet] # Size[e.packet]
    BY <1>1, <1>3, <2>4, BufferAssumption DEF PacketsOK
  <2> QED BY <1>6, <2>2, <2>5 DEF Placed, LocationIsTrue
<1>8. ASSUME e.result = "PKTREAD"
      PROVE  stage[e.packet] = "asked"
  <2>1. Reading(e.packet)
    BY <1>2, <1>8, Zenon DEF Reading
  <2> QED BY <1>6, <2>1, Zenon DEF Placed, ReadPlaces
<1> QED BY <1>2, <1>3, <1>5, <1>7, <1>8, Zenon

LEMMA NextMemory ==
  PlacesInv /\ PlacesInv' /\ MemoryInv /\ [Next]_vars => MemoryInv'
<1> SUFFICES ASSUME PlacesInv, PlacesInv', MemoryInv, [Next]_vars
             PROVE  MemoryInv'
  OBVIOUS
<1>1. PacketsOK /\ PacketsOK'
  BY Zenon DEF PlacesInv, EngineInv
<1>2. (\E p \in Packets : MemoryStep(p)) => MemoryInv'
  BY <1>1, MemoryStepKeeps
<1>3. CASE \E p \in Packets : Write(p)
  BY <1>2, <1>3, WriteMemory
<1>4. ASSUME NEW p \in Packets, ReadFromWcache(p) \/ ReadInterruptsWrite(p)
      PROVE  MemoryInv'
  <2>1. /\ stage[p] = "stored" /\ location[p] \in {"WCACHE", "WRITINGTOOFFCHIPBUFFER"}
        /\ ReleaseWcache(p) /\ stage' = [stage EXCEPT ![p] = "asked"]
        /\ stored' = stored /\ dramUsed' = dramUsed
        /\ location' = location \/ location' = [location EXCEPT ![p] = "NOTINBUFFER"]
    BY <1>4, Zenon DEF ReadFromWcache, ReadInterruptsWrite, Asked, FetchComplete, packetVars
  <2>2. \A q \in Packets \ {p} : location'[q] = location[q]
    BY <1>1, <2>1 DEF PacketsOK
  <2> QED BY <1>2, <2>1, <2>2, ReleaseMemory
<1>5. ASSUME NEW p \in Packets, ReadFromDram(p)
      PROVE  MemoryInv'
  <2>1. /\ location[p] = "OFFCHIPBUFFER" /\ stage' = [stage EXCEPT ![p] = "asked"]
        /\ location' = location /\ stored' = stored /\ UNCHANGED counterVars
    BY <1>5, Zenon DEF ReadFromDram, Asked, packetVars
  <2>2. \A q \in Packets : InWcache(q)' <=> InWcache(q)
    BY <2>1 DEF InWcache, PlacesInv, EngineInv
  <2> QED BY <1>1, <2>1, <2>2, MemoryFrame
<1>6. CASE RequestArrives \/ UNCHANGED vars
  <2>1. stage' = stage /\ location' = location /\ stored' = stored /\ UNCHANGED counterVars
    BY <1>6, Zenon DEF RequestArrives, packetVars, vars
  <2>2. \A q \in Packets : InWcache(q)' <=> InWcache(q)
    BY <2>1 DEF InWcache
  <2> QED BY <1>1, <2>1, <2>2, MemoryFrame
<1>7. ASSUME NEW i \in DOMAIN writeVec, StartWriteCycle(i)
      PROVE  MemoryInv'
  <2>1. PICK p : p = writeVec[i]
    OBVIOUS
  <2>2. /\ p \in Packets /\ stage[p] = "stored" /\ location[p] = "WCACHE" /\ stored[p] = 0
        /\ stage' = stage /\ OpTimes(Size[p]) \in Nat
        /\ ScheduleCycleAtomic(p, "PKTWRITE", OpTimes(Size[p]), {}, p)
    BY <1>7, <2>1, StartWriteServes
  <2>3. MemoryStep(p)
    BY <1>1, <2>2, CycleMemory
  <2> QED BY <1>2, <2>2, <2>3
<1>8. CASE StartReadCycle
  <2>1. PICK p \in Packets :
           /\ stage[p] = "asked" /\ stage' = stage /\ OpTimes(stored[p]) \in Nat
           /\ UNCHANGED writeVec
           /\ ScheduleCycleAtomic(p, "PKTREAD", OpTimes(stored[p]), {}, writingPacket)
    BY <1>8, StartReadServes
  <2>2. MemoryStep(p)
    BY <1>1, <2>1, CycleMemory
  <2> QED BY <1>2, <2>2
<1>9. ASSUME NEW e \in events, NextAtomic(e)
      PROVE  MemoryInv'
  <2>1. /\ e \in Atomics /\ e.packet \in Packets /\ e.left \in Nat
        /\ e.result \in {"PKTWRITE", "PKTREAD"}
        /\ e.result = "PKTWRITE" /\ e.left # 0 /\ ~writingStopFlag =>
             stage[e.packet] = "stored" /\ location[e.packet] \in {"WCACHE", "WRITINGTOOFFCHIPBUFFER"}
        /\ e.result = "PKTREAD" => stage[e.packet] = "asked"
        /\ stage' = stage
        /\ ScheduleCycleAtomic(e.packet, e.result, e.left, {}, writingPacket)
    BY <1>9, NextAtomicServes
  <2>2. MemoryStep(e.packet)
    BY <1>1, <2>1, CycleMemory
  <2> QED BY <1>2, <2>1, <2>2
<1>10. ASSUME NEW p \in Packets, Depart(p)
       PROVE  MemoryInv'
  <2>1. /\ location[p] = "NOTINBUFFER" /\ stage' = [stage EXCEPT ![p] = "new"]
        /\ stored' = [stored EXCEPT ![p] = 0] /\ location' = location /\ UNCHANGED counterVars
    BY <1>10, Zenon DEF Depart, Fetched
  <2>2. stored' = stored
    <3>1. stored[p] = 0
      BY <2>1 DEF PlacesInv, Placed, LocationIsTrue
    <3> QED BY <1>1, <2>1, <3>1 DEF PacketsOK
  <2>3. \A q \in Packets : InWcache(q)' <=> InWcache(q)
    BY <2>1 DEF InWcache, PlacesInv, EngineInv
  <2> QED BY <1>1, <2>1, <2>2, <2>3, MemoryFrame
<1> QED BY <1>3, <1>4, <1>5, <1>6, <1>7, <1>8, <1>9, <1>10, Zenon DEF Next

LEMMA InitMemory == Init => MemoryInv
<1> SUFFICES ASSUME Init
             PROVE  MemoryInv
  OBVIOUS
<1>1. \A p \in Packets : ~InWcache(p) /\ stored[p] = 0
  BY DEF Init, InWcache
<1>2. wcacheUsed = 0 /\ dramUsed = 0 /\ nWcachePackets = 0
  BY DEF Init
<1>3. {p \in Packets : InWcache(p)} = {}
  BY <1>1
<1>4. \A p \in Packets : CacheBytes[p] = 0
  BY <1>1 DEF CacheBytes, Held
<1>5. SumFunctionOnSet(CacheBytes, Packets) = 0 /\ SumFunctionOnSet(stored, Packets) = 0
  BY <1>1, <1>4, SumZero, BufferAssumption
<1>6. wcacheUsed <= WcacheSize
  BY <1>2, BufferAssumption
<1> QED BY <1>2, <1>3, <1>5, <1>6, FS_EmptySet DEF MemoryInv

LEMMA AlwaysMemory == Spec => [](PlacesInv /\ MemoryInv)
<1>1. PlacesInv /\ MemoryInv /\ [Next]_vars => (PlacesInv /\ MemoryInv)'
  BY NextPlaces, NextMemory
<1> QED BY <1>1, InitPlaces, InitMemory, PTL DEF Spec

LEMMA MemoryImpliesAccounted == PlacesInv /\ MemoryInv => MemoriesAccounted
<1> SUFFICES ASSUME PlacesInv, MemoryInv
             PROVE  MemoriesAccounted
  OBVIOUS
<1>1. PacketsOK
  BY Zenon DEF PlacesInv, EngineInv
<1>2. CacheBytes = [p \in Packets |-> IF InWcache(p) THEN Size[p] - stored[p] ELSE 0] /\ DOMAIN CacheBytes = Packets
  BY DEF CacheBytes, Held
<1>3. DOMAIN stored = Packets
  BY <1>1 DEF PacketsOK
<1>4. wcacheUsed = SumFunction(CacheBytes) /\ dramUsed = SumFunction(stored)
  BY <1>2, <1>3, Zenon DEF MemoryInv, SumFunction
<1>5. wcacheUsed \in 0 .. WcacheSize
  <2>1. \A p \in Packets : CacheBytes[p] \in Nat
    BY <1>1, BufferAssumption DEF CacheBytes, Held, PacketsOK
  <2>2. SumFunctionOnSet(CacheBytes, Packets) \in Nat
    BY <2>1, SumNat, BufferAssumption
  <2> QED BY <2>2, BufferAssumption DEF MemoryInv
<1> QED BY <1>2, <1>4, <1>5, Zenon DEF MemoriesAccounted, MemoryInv

(***************************************************************************)
(* The write cache is charged for exactly the bytes of the stored packets  *)
(* outside DRAM and DRAM for those inside, however reads interrupt writes. *)
(***************************************************************************)
THEOREM MemoriesAreAccounted == Spec => []MemoriesAccounted
BY AlwaysMemory, MemoryImpliesAccounted, PTL

-----------------------------------------------------------------------------
(***************************************************************************)
(* DRAM with packets of one size.  A decision to write has seen room for   *)
(* the first packet of the vector, hence for any.                          *)
(***************************************************************************)
EqualSizes == \A p, q \in Packets : Size[p] = Size[q]

LEMMA RemainderIsLess ==
  ASSUME NEW n \in Nat, NEW d \in Nat \ {0}
  PROVE  n % d <= n
<1> DEFINE q == n \div d
           r == n % d
<1>1. q \in Nat /\ r \in 0 .. d - 1 /\ n = q * d + r
  OBVIOUS
<1> HIDE DEF q, r
<1>2. q * d \in Nat
  BY <1>1
<1>3. r <= n
  BY <1>1, <1>2
<1> QED BY <1>3 DEF r

LEMMA ArbitrateWRRoom ==
  ASSUME NEW wvec \in Seq(Packets), NEW rvec, NEW used \in Int, used <= DramSize,
         wrr \in WrrState, ArbitrateWR(wvec, rvec, used).result = "PKTWRITE"
  PROVE  \E q \in Packets : used + Size[q] <= DramSize
<1>1. wvec # <<>>
  BY ArbitrateWRSound
<1>2. ~DramIsFull(wvec, used)
  <2> DEFINE Of(r) == [result |-> r, wrr |-> wrr]
  <2>1. SUFFICES ASSUME DramIsFull(wvec, used)
                 PROVE  ArbitrateWR(wvec, rvec, used).result \in {"NONE", "PKTREAD"}
    OBVIOUS
  <2>2. ArbitrateWR(wvec, rvec, used) \in {Of("NONE"), Of("PKTREAD")}
    BY <2>1, Zenon DEF ArbitrateWR
  <2>3. \A r : Of(r).result = r
    OBVIOUS
  <2> HIDE DEF Of
  <2> QED BY <2>2, <2>3
<1>3. wvec[1] \in Packets /\ Size[wvec[1]] \in Nat
  BY <1>1, BufferAssumption
<1>4. Size[wvec[1]] <= DramRemain(used)
  <2>1. DramRemain(used) \in Nat
    BY BufferAssumption DEF DramRemain
  <2> QED BY <1>1, <1>2, <1>3, <2>1 DEF DramIsFull
<1>5. DramRemain(used) <= DramSize - used
  <2>1. DramSize - used \in Nat /\ Wrap \in Nat \ {0}
    BY BufferAssumption
  <2> QED BY <2>1, RemainderIsLess DEF DramRemain
<1>6. used + Size[wvec[1]] <= DramSize
  <2>1. DramRemain(used) \in Int /\ DramSize \in Int
    BY BufferAssumption DEF DramRemain
  <2> QED BY <1>3, <1>4, <1>5, <2>1
<1> QED BY <1>3, <1>6

RoomForAny == \A p \in Packets : dramUsed + Size[p] <= DramSize

LEMMA DecisionRoom ==
  ASSUME EqualSizes, wrr \in WrrState, writeVec' \in Seq(Packets), dramUsed' \in Int, dramUsed' <= DramSize,
         NEW pending, ScheduleCycle(pending), InterWriteReqWaitEvent \notin pending
  PROVE  InterWriteReqWaitEvent \in events' => RoomForAny'
<1> DEFINE d == ArbitrateWR(writeVec', readVec', dramUsed')
<1>1. events' = IF d.result = "NONE" THEN pending ELSE pending \cup {CycleStart(d.result)}
  BY Zenon DEF ScheduleCycle
<1>2. d.result \in {"NONE", "PKTWRITE", "PKTREAD"}
  BY ArbitrateWRSound, Zenon
<1>3. d.result = "PKTWRITE" => \E q \in Packets : dramUsed' + Size[q] <= DramSize
  BY ArbitrateWRRoom
<1> HIDE DEF d
<1>4. CycleStart("PKTREAD") # InterWriteReqWaitEvent
  BY DEF CycleStart, InterWriteReqWaitEvent
<1>5. InterWriteReqWaitEvent \in events' => d.result = "PKTWRITE"
  BY <1>1, <1>2, <1>4, Zenon
<1>6. (\E q \in Packets : dramUsed' + Size[q] <= DramSize) => RoomForAny'
  BY DEF EqualSizes, RoomForAny
<1> QED BY <1>3, <1>5, <1>6

(***************************************************************************)
(* Whatever the callers do to the engine, the room it waits with stays.    *)
(***************************************************************************)
LEMMA RoomFrame ==
  ASSUME EqualSizes, DramRoom, EngineInv, EngineInv', dramUsed' = dramUsed, stored' = stored,
         UNCHANGED engineVars \/ KickIfIdle \/ ScheduleCycle(CancelWait(events))
  PROVE  DramRoom'
<1>1. /\ wrr \in WrrState /\ writeVec' \in Seq(Packets) /\ dramUsed \in Int /\ EngineOK
      /\ dramUsed <= DramSize
      /\ InterWriteReqWaitEvent \in events => RoomForAny
      /\ \A e \in Atomics : e.result = "PKTWRITE" =>
           dramUsed + (Size[e.packet] - stored[e.packet]) <= DramSize
  BY Zenon DEF EngineInv, EngineOK, QueuesOK, PacketsOK, DramRoom, RoomForAny
<1>2. RoomForAny => RoomForAny'
  BY DEF RoomForAny
<1>3. CASE UNCHANGED engineVars \/ (KickIfIdle /\ state # "IDLE")
  <2>1. events' = events
    BY <1>3, Zenon DEF KickIfIdle, engineVars
  <2> QED BY <1>1, <1>2, <2>1 DEF DramRoom, Atomics, RoomForAny
<1>4. CASE KickIfIdle /\ state = "IDLE"
  <2>1. events = {} /\ ScheduleCycle({})
    BY <1>1, <1>4, Zenon DEF KickIfIdle, EngineOK
  <2>2. Atomics' = {}
    BY <1>1, <2>1, NoAtomicsAfterDecision
  <2>3. InterWriteReqWaitEvent \in events' => RoomForAny'
    BY <1>1, <2>1, DecisionRoom
  <2> QED BY <1>1, <2>2, <2>3 DEF DramRoom, RoomForAny
<1>5. CASE ScheduleCycle(CancelWait(events))
  <2>1. InterWriteReqWaitEvent \notin CancelWait(events)
    BY DEF CancelWait
  <2>2. InterWriteReqWaitEvent \in events' => RoomForAny'
    BY <1>1, <1>5, <2>1, DecisionRoom
  <2>3. Atomics' = {e \in CancelWait(events) : e.at = "CycleAtomic"}
    BY <1>1, <1>5, ScheduleCycleStep, ScheduledAtomics
  <2>4. Atomics' \subseteq Atomics
    BY <2>3 DEF CancelWait, Atomics
  <2> QED BY <1>1, <2>2, <2>4 DEF DramRoom, RoomForAny
<1> QED BY <1>3, <1>4, <1>5

LEMMA CycleRoom ==
  ASSUME EqualSizes, PacketsOK, wrr \in WrrState, dramUsed <= DramSize, writeVec' \in Seq(Packets),
         NEW p \in Packets, NEW result \in {"PKTWRITE", "PKTREAD"}, NEW left \in Nat, NEW writing,
         ScheduleCycleAtomic(p, result, left, {}, writing),
         result = "PKTWRITE" => dramUsed + (Size[p] - stored[p]) <= DramSize
  PROVE  DramRoom'
<1>1. Size[p] \in Nat /\ stored[p] \in Nat /\ stored[p] <= Size[p] /\ dramUsed \in Int /\ DramSize \in Nat
  BY BufferAssumption DEF PacketsOK
<1>2. CASE CycleIsOver(left)
  <2>1. dramUsed' = dramUsed /\ ScheduleCycle({})
    BY <1>2, Zenon DEF ScheduleCycleAtomic, CycleComplete
  <2>2. Atomics' = {}
    BY <2>1, NoAtomicsAfterDecision
  <2>3. InterWriteReqWaitEvent \in events' => RoomForAny'
    BY <1>1, <2>1, DecisionRoom
  <2> QED BY <2>1, <2>2, <2>3 DEF DramRoom, RoomForAny
<1>3. CASE ~CycleIsOver(left) /\ result = "PKTWRITE"
  <2> DEFINE rest == Size[p] - stored[p]
             bytes == BytesMoved(OpsNow(left), rest)
             e == CycleAtomic(p, "PKTWRITE", left - OpsNow(left))
  <2>1. /\ stored' = [stored EXCEPT ![p] = @ + bytes]
        /\ dramUsed' = dramUsed + bytes
        /\ events' = {} \cup {e}
    BY <1>3, Zenon DEF ScheduleCycleAtomic, AtomicWrite, BytesMoved
  <2>2. rest \in Nat /\ bytes \in Nat /\ bytes <= rest
    <3>1. OpsNow(left) \in Nat /\ BurstSize \in Nat
      BY BufferAssumption DEF OpsNow
    <3>2. OpsNow(left) * BurstSize \in Nat
      BY <3>1
    <3> QED BY <1>1, <3>2 DEF BytesMoved
  <2>3. e.packet = p /\ e # InterWriteReqWaitEvent /\ e.at = "CycleAtomic"
    BY DEF CycleAtomic, CycleStart, InterWriteReqWaitEvent
  <2> HIDE DEF e, bytes
  <2>4. Atomics' = {e} /\ InterWriteReqWaitEvent \notin events'
    BY <2>1, <2>3 DEF Atomics
  <2>5. stored'[p] = stored[p] + bytes
    BY <2>1 DEF PacketsOK
  <2>6. dramUsed' <= DramSize /\ dramUsed' + (Size[p] - stored'[p]) <= DramSize
    BY <1>1, <1>3, <2>1, <2>2, <2>5
  <2> QED BY <2>3, <2>4, <2>6 DEF DramRoom
<1>4. CASE ~CycleIsOver(left) /\ result = "PKTREAD"
  <2> DEFINE e == CycleAtomic(p, "PKTREAD", 0)
  <2>1. dramUsed' = dramUsed - stored[p] /\ events' = {} \cup {e}
    BY <1>4, Zenon DEF ScheduleCycleAtomic, AtomicRead, BytesRead
  <2>2. e.result = "PKTREAD" /\ e # InterWriteReqWaitEvent
    BY DEF CycleAtomic, CycleStart, InterWriteReqWaitEvent
  <2> HIDE DEF e
  <2>3. dramUsed' <= DramSize
    BY <1>1, <2>1
  <2> QED BY <2>1, <2>2, <2>3 DEF DramRoom, Atomics
<1> QED BY <1>2, <1>3, <1>4

LEMMA NextRoom ==
  ASSUME EqualSizes, PlacesInv, PlacesInv', DramRoom, [Next]_vars
  PROVE  DramRoom'
<1>1. EngineInv /\ EngineInv' /\ PacketsOK /\ wrr \in WrrState /\ writeVec' \in Seq(Packets)
  BY Zenon DEF PlacesInv, EngineInv, EngineOK, QueuesOK
<1>2. /\ dramUsed <= DramSize
      /\ InterWriteReqWaitEvent \in events => RoomForAny
      /\ \A e \in Atomics : e.result = "PKTWRITE" =>
           dramUsed + (Size[e.packet] - stored[e.packet]) <= DramSize
  BY Zenon DEF DramRoom, RoomForAny
<1>3. ASSUME NEW p \in Packets,
             Write(p) \/ ReadFromWcache(p) \/ ReadInterruptsWrite(p) \/ ReadFromDram(p)
      PROVE  DramRoom'
  <2>1. dramUsed' = dramUsed /\ stored' = stored
    BY <1>3, Zenon DEF Write, ReadFromWcache, ReadInterruptsWrite, ReadFromDram, packetVars, counterVars
  <2>2. UNCHANGED engineVars \/ KickIfIdle \/ ScheduleCycle(CancelWait(events))
    BY <1>3, Zenon DEF Write, ReadFromWcache, ReadInterruptsWrite, ReadFromDram, SendRequest,
                       SendWriteRequestComplete, SendReadRequestComplete, CancelRequest, EraseWriteRequest
  <2> QED BY <1>1, <2>1, <2>2, RoomFrame
<1>4. CASE RequestArrives \/ UNCHANGED vars
  <2>1. dramUsed' = dramUsed /\ stored' = stored
    BY <1>4, Zenon DEF RequestArrives, vars, packetVars, counterVars
  <2>2. UNCHANGED engineVars \/ KickIfIdle
    BY <1>4, Zenon DEF RequestArrives, SendWriteRequestComplete, SendReadRequestComplete, vars
  <2> QED BY <1>1, <2>1, <2>2, RoomFrame
<1>5. ASSUME NEW i \in DOMAIN writeVec, StartWriteCycle(i)
      PROVE  DramRoom'
  <2>1. PICK p : p = writeVec[i]
    OBVIOUS
  <2>2. /\ p \in Packets /\ stored[p] = 0 /\ OpTimes(Size[p]) \in Nat
        /\ ScheduleCycleAtomic(p, "PKTWRITE", OpTimes(Size[p]), {}, p)
    BY <1>5, <2>1, StartWriteServes
  <2>3. RoomForAny
    BY <1>2, <1>5, Zenon DEF StartWriteCycle
  <2>4. dramUsed + (Size[p] - stored[p]) <= DramSize
    <3>1. Size[p] \in Nat /\ Size[p] - stored[p] = Size[p]
      BY <2>2, BufferAssumption
    <3> QED BY <2>2, <2>3, <3>1 DEF RoomForAny
  <2> QED BY <1>1, <1>2, <2>2, <2>4, CycleRoom
<1>6. CASE StartReadCycle
  <2>1. PICK p \in Packets :
           /\ stage[p] = "asked" /\ stage' = stage /\ OpTimes(stored[p]) \in Nat
           /\ UNCHANGED writeVec
           /\ ScheduleCycleAtomic(p, "PKTREAD", OpTimes(stored[p]), {}, writingPacket)
    BY <1>6, StartReadServes
  <2> QED BY <1>1, <1>2, <2>1, CycleRoom
<1>7. ASSUME NEW e \in events, NextAtomic(e)
      PROVE  DramRoom'
  <2>1. /\ e \in Atomics /\ e.packet \in Packets /\ e.left \in Nat
        /\ e.result \in {"PKTWRITE", "PKTREAD"}
        /\ ScheduleCycleAtomic(e.packet, e.result, e.left, {}, writingPacket)
    BY <1>7, NextAtomicServes
  <2> QED BY <1>1, <1>2, <2>1, CycleRoom
<1>8. ASSUME NEW p \in Packets, Depart(p)
      PROVE  DramRoom'
  <2>1. /\ location[p] = "NOTINBUFFER" /\ stored' = [stored EXCEPT ![p] = 0]
        /\ UNCHANGED <<counterVars, engineVars>>
    BY <1>8, Zenon DEF Depart, Fetched
  <2>2. stored' = stored
    <3>1. stored[p] = 0
      BY <2>1 DEF PlacesInv, Placed, LocationIsTrue
    <3> QED BY <1>1, <2>1, <3>1 DEF PacketsOK
  <2>3. dramUsed' = dramUsed
    BY <2>1, Zenon DEF counterVars
  <2> QED BY <1>1, <2>1, <2>2, <2>3, RoomFrame
<1> QED BY <1>3, <1>4, <1>5, <1>6, <1>7, <1>8, Zenon DEF Next

LEMMA InitRoom == Init => DramRoom
<1> SUFFICES ASSUME Init
             PROVE  DramRoom
  OBVIOUS
<1>1. dramUsed = 0 /\ events = {}
  BY DEF Init
<1> QED BY <1>1, BufferAssumption DEF DramRoom, Atomics

(***************************************************************************)
(* With packets of one size DRAM is never overfilled: the room ArbitrateWR *)
(* has seen is still there when the write cycle it scheduled begins, and   *)
(* until it ends.  (The look is at the first packet waiting and a write    *)
(* takes any of them, so that sizes must be equal: DramNeverOverflows is   *)
(* violated otherwise, as a run shows.)                                    *)
(***************************************************************************)
THEOREM DramHasRoom ==
  ASSUME \A p, q \in Packets : Size[p] = Size[q]
  PROVE  Spec => []DramNeverOverflows
<1>1. EqualSizes
  BY DEF EqualSizes
<1>2. PlacesInv /\ DramRoom /\ [Next]_vars => (PlacesInv /\ DramRoom)'
  BY <1>1, NextPlaces, NextRoom
<1>3. DramRoom => DramNeverOverflows
  BY DEF DramRoom, DramNeverOverflows
<1> QED BY <1>2, <1>3, InitPlaces, InitRoom, PTL DEF Spec
=============================================================================
