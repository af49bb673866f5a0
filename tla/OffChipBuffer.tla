---------------------------- MODULE OffChipBuffer ----------------------------
(***************************************************************************)
(* The off-chip buffer of a hybrid SRAM/DRAM switch: a write cache, an HBM *)
(* engine that moves packets from the cache into DRAM and back out, and    *)
(* the channel its requests travel through (off-chip-buffer.{h,cc}).       *)
(*                                                                         *)
(* The engine is a chain of simulator events: CycleStart, one Atomic per   *)
(* atomic HBM operation, and so on.  Times are abstracted: a pending event *)
(* fires at any moment, so that the switch's calls fall between any two    *)
(* events.  The request channel has one constant delay, hence is a FIFO.   *)
(*                                                                         *)
(* The callers are folded into "stage": the traffic control layer stores a *)
(* packet once, its queue disc later asks for it once, and the packet is   *)
(* gone some time after it was fetched.  The fetch status, which the       *)
(* buffer never reads, is kept by SwitchPort with the device that does.    *)
(***************************************************************************)
EXTENDS WrrArbiter, SequencesExt, FiniteSets

CONSTANTS Packets,         \* the packet objects alive at the same time
          Size,            \* bytes of each packet, headers included
          WcacheSize,      \* m_wcacheSize
          DramSize,        \* m_dramSize
          BurstSize,       \* m_dramBitWidth * m_dramBurstLength, bytes of one HBM operation
          AtomicOpLength,  \* m_dramAtomicOpLength, HBM operations between two events
          ArbAlgorithm,    \* m_arbAlgorithm
          DelayedChannel,  \* m_channelDelay # 0
          NoPacket,        \* nullptr
          Wrap             \* the modulus of the unsigned counters

ASSUME BufferAssumption ==
  /\ IsFiniteSet(Packets)
  /\ NoPacket \notin Packets
  /\ Size \in [Packets -> Nat \ {0}]
  /\ WcacheSize \in Nat
  /\ DramSize \in Nat
  /\ BurstSize \in Nat \ {0}
  /\ AtomicOpLength \in Nat \ {0}
  /\ ArbAlgorithm \in ArbAlgorithms
  /\ DelayedChannel \in BOOLEAN
  /\ Wrap \in Nat \ {0}

VARIABLES
  location,         \* Packet::m_location
  stored,           \* Packet::m_mmuDramStoredSize
  stage,            \* the callers: not here yet, stored, asked for
  channel,          \* requests under way to the engine
  writeVec,         \* m_writeRequestVec
  readVec,          \* m_readRequestVec
  wcacheUsed,       \* m_wcacheUsed
  dramUsed,         \* m_dramUsed
  nWcachePackets,   \* m_nWcachePackets
  nDramPackets,     \* m_nDramPackets
  state,            \* m_state
  events,           \* the engine's events in the simulator's queue
  wrr,              \* the arbiter's counters
  writingPacket,    \* m_writingPacket
  writingStopFlag   \* m_writingStopFlag

packetVars  == <<location, stored>>
counterVars == <<wcacheUsed, dramUsed, nWcachePackets, nDramPackets>>
engineVars  == <<state, events, wrr>>
writingVars == <<writingPacket, writingStopFlag>>
vars == <<packetVars, stage, channel, writeVec, readVec, counterVars, engineVars, writingVars>>

-----------------------------------------------------------------------------
Locations ==
  {"NOTINBUFFER", "ONCHIPBUFFER", "OFFCHIPBUFFER", "WCACHE", "WRITINGTOOFFCHIPBUFFER"}

Requests == [op : {"write", "read"}, packet : Packets]

(***************************************************************************)
(* Engine events.  A CycleStart of a write is the one event the code       *)
(* remembers (m_interWriteReqWaitEvent) and may cancel.                    *)
(***************************************************************************)
CycleStart(result) == [at |-> "CycleStart", result |-> result]

CycleAtomic(p, result, left) ==
  [at |-> "CycleAtomic", packet |-> p, result |-> result, left |-> left]

Events ==
  [at : {"CycleStart"}, result : {"PKTWRITE", "PKTREAD"}]
    \cup [at : {"CycleAtomic"}, packet : Packets, result : {"PKTWRITE", "PKTREAD"}, left : Nat]

InterWriteReqWaitEvent == CycleStart("PKTWRITE")

(***************************************************************************)
(* HBM operations that move n bytes, the last one possibly not full.       *)
(***************************************************************************)
OpTimes(n) == (n \div BurstSize) + (IF n % BurstSize = 0 THEN 0 ELSE 1)

(***************************************************************************)
(* m_dramSize - m_dramUsed in unsigned arithmetic.                         *)
(***************************************************************************)
DramRemain(used) == (DramSize - used) % Wrap

InOffChipBuffer(p) == location[p] \in {"OFFCHIPBUFFER", "WCACHE", "WRITINGTOOFFCHIPBUFFER"}

-----------------------------------------------------------------------------
(***************************************************************************)
(* ScheduleCycle and ArbitrateWR.  The engine stops when there is no work, *)
(* and also when the first write request does not fit into DRAM and there  *)
(* is nothing to read.  (m_thresholdOfReadRequest is 0 and never set, the  *)
(* shortcut it guards is dead code.)                                       *)
(***************************************************************************)
WrongDramIsFull(wvec, used) == FALSE  \* mutant: no look at the room in DRAM

DramIsFull(wvec, used) == wvec # <<>> /\ DramRemain(used) < Size[wvec[1]]

WrongArbitrateWR(wvec, rvec, used) ==  \* mutant: a full DRAM stops the reads too
  IF (wvec = <<>> /\ rvec = <<>>) \/ DramIsFull(wvec, used)
    THEN [result |-> "NONE", wrr |-> wrr]
    ELSE WrrDecision(ArbAlgorithm, wrr, wvec # <<>>, rvec # <<>>)

ArbitrateWR(wvec, rvec, used) ==
  IF rvec = <<>> /\ (wvec = <<>> \/ DramIsFull(wvec, used))
    THEN [result |-> "NONE", wrr |-> wrr]
    ELSE IF DramIsFull(wvec, used)
           THEN [result |-> "PKTREAD", wrr |-> wrr]
           ELSE WrrDecision(ArbAlgorithm, wrr, wvec # <<>>, rvec # <<>>)

(***************************************************************************)
(* pending: the events left in the simulator's queue by the caller.        *)
(***************************************************************************)
ScheduleCycle(pending) ==
  LET decision == ArbitrateWR(writeVec', readVec', dramUsed')
  IN /\ wrr' = decision.wrr
     /\ state' = IF decision.result = "NONE" THEN "IDLE" ELSE "BUSY"
     /\ events' = IF decision.result = "NONE" THEN pending
                                              ELSE pending \cup {CycleStart(decision.result)}

KickIfIdle ==
  IF state = "IDLE" THEN ScheduleCycle(events) ELSE UNCHANGED engineVars

(***************************************************************************)
(* A request reaches the engine: SendWriteRequestComplete drops the write  *)
(* of a packet that was fetched while the request was in the channel.      *)
(***************************************************************************)
WrongSendWriteRequestComplete(p) ==  \* mutant: a fetched packet is queued again
  /\ UNCHANGED readVec
  /\ writeVec' = Append(writeVec, p)
  /\ KickIfIdle

SendWriteRequestComplete(p) ==
  /\ UNCHANGED readVec
  /\ IF location'[p] = "NOTINBUFFER"
       THEN UNCHANGED <<writeVec, engineVars>>
       ELSE /\ writeVec' = Append(writeVec, p)
            /\ KickIfIdle

SendReadRequestComplete(p) ==
  /\ UNCHANGED writeVec
  /\ readVec' = Append(readVec, p)
  /\ KickIfIdle

SendRequest(op, p) ==
  IF DelayedChannel
    THEN /\ channel' = Append(channel, [op |-> op, packet |-> p])
         /\ UNCHANGED <<writeVec, readVec, engineVars>>
    ELSE /\ UNCHANGED channel
         /\ IF op = "write" THEN SendWriteRequestComplete(p) ELSE SendReadRequestComplete(p)

(***************************************************************************)
(* SwitchMmu::FetchComplete, as far as the location shows it: a packet     *)
(* asked for has been fetched once it is nowhere in the buffer.            *)
(***************************************************************************)
FetchComplete(p) == location' = [location EXCEPT ![p] = "NOTINBUFFER"]

Fetched(p) == stage[p] = "asked" /\ location[p] = "NOTINBUFFER"

-----------------------------------------------------------------------------
Init ==
  /\ location = [p \in Packets |-> "NOTINBUFFER"]
  /\ stored = [p \in Packets |-> 0]
  /\ stage = [p \in Packets |-> "new"]
  /\ channel = <<>>
  /\ writeVec = <<>>
  /\ readVec = <<>>
  /\ wcacheUsed = 0
  /\ dramUsed = 0
  /\ nWcachePackets = 0
  /\ nDramPackets = 0
  /\ state = "IDLE"
  /\ events = {}
  /\ wrr = InitWrr
  /\ writingPacket = NoPacket
  /\ writingStopFlag = FALSE

(***************************************************************************)
(* The switch stores p off chip. The code asserts that there is room in    *)
(* the write cache: its caller's admission check has left it.              *)
(* m_dramBusFrequency is not 0: with 0 no request would be sent, and the   *)
(* cache would never be emptied.                                           *)
(***************************************************************************)
WcacheHasRoom(p) == Size[p] <= WcacheSize - wcacheUsed

Write(p) ==
  /\ stage[p] = "new"
  /\ ~InOffChipBuffer(p)
  /\ WcacheHasRoom(p)
  /\ stage' = [stage EXCEPT ![p] = "stored"]
  /\ wcacheUsed' = wcacheUsed + Size[p]
  /\ nWcachePackets' = nWcachePackets + 1
  /\ location' = [location EXCEPT ![p] = "WCACHE"]
  /\ UNCHANGED <<stored, dramUsed, nDramPackets, writingVars>>
  /\ SendRequest("write", p)

RequestArrives ==
  /\ channel # <<>>
  /\ channel' = Tail(channel)
  /\ UNCHANGED <<packetVars, stage, counterVars, writingVars>>
  /\ IF channel[1].op = "write"
       THEN SendWriteRequestComplete(channel[1].packet)
       ELSE SendReadRequestComplete(channel[1].packet)

-----------------------------------------------------------------------------
(***************************************************************************)
(* CancelWrite takes back the part of a packet that is still in the write  *)
(* cache.  Its write cycle is told to stop, its request is erased, or (it  *)
(* is still in the channel) it will be dropped on arrival.  When the last  *)
(* write request goes away while the engine waits for the start of a write *)
(* cycle, the wait is called off and the engine decides again.             *)
(***************************************************************************)
WrongReleaseWcache(p) ==  \* mutant: the whole packet is released
  /\ wcacheUsed' = wcacheUsed - Size[p]
  /\ nWcachePackets' = nWcachePackets - 1

ReleaseWcache(p) ==
  /\ wcacheUsed' = wcacheUsed - (Size[p] - stored[p])
  /\ nWcachePackets' = nWcachePackets - 1

WrongCancelWait(pending) == pending  \* mutant: the wait event is not cancelled

CancelWait(pending) == pending \ {InterWriteReqWaitEvent}

EraseWriteRequest(p) ==
  \E i \in DOMAIN writeVec :
    /\ writeVec[i] = p
    /\ writeVec' = RemoveAt(writeVec, i)
    /\ IF writeVec' = <<>> /\ InterWriteReqWaitEvent \in events
         THEN ScheduleCycle(CancelWait(events))
         ELSE UNCHANGED engineVars

CancelRequest(p) ==
  /\ UNCHANGED <<channel, readVec, writingPacket>>
  /\ IF writingPacket = p
       THEN writingStopFlag' = TRUE /\ UNCHANGED <<writeVec, engineVars>>
       ELSE /\ UNCHANGED writingStopFlag
            /\ IF Contains(writeVec, p) THEN EraseWriteRequest(p)
                                        ELSE UNCHANGED <<writeVec, engineVars>>

Asked(p) ==
  /\ stage[p] = "stored"
  /\ InOffChipBuffer(p)
  /\ stage' = [stage EXCEPT ![p] = "asked"]

(***************************************************************************)
(* Read of a packet that is in the write cache only: fetched at once.      *)
(***************************************************************************)
ReadFromWcache(p) ==
  /\ Asked(p)
  /\ location[p] \in {"WCACHE", "WRITINGTOOFFCHIPBUFFER"}
  /\ stored[p] = 0
  /\ ReleaseWcache(p)
  /\ UNCHANGED <<stored, dramUsed, nDramPackets>>
  /\ FetchComplete(p)
  /\ CancelRequest(p)

(***************************************************************************)
(* Read of a packet the engine is writing: the rest in the cache is taken  *)
(* now, the part in DRAM is asked for.  (A packet with bytes in DRAM is    *)
(* not in writeVec, see OnePlace, so no request is erased here.)           *)
(***************************************************************************)
ReadInterruptsWrite(p) ==
  /\ Asked(p)
  /\ location[p] \in {"WCACHE", "WRITINGTOOFFCHIPBUFFER"}
  /\ stored[p] # 0
  /\ ReleaseWcache(p)
  /\ writingStopFlag' = (writingStopFlag \/ writingPacket = p)
  /\ UNCHANGED <<packetVars, dramUsed, nDramPackets, writingPacket>>
  /\ SendRequest("read", p)

ReadFromDram(p) ==
  /\ Asked(p)
  /\ location[p] = "OFFCHIPBUFFER"
  /\ UNCHANGED <<packetVars, counterVars, writingVars>>
  /\ SendRequest("read", p)

-----------------------------------------------------------------------------
(***************************************************************************)
(* ScheduleCycleComplete, reached from ScheduleCycleAtomic when no         *)
(* operation is left or the stop flag is up; left tells the two apart.     *)
(* writing is m_writingPacket at the entry of ScheduleCycleAtomic.         *)
(***************************************************************************)
WrongStopFlagAfter(left) == writingStopFlag  \* mutant: the flag stays up

StopFlagAfter(left) == writingStopFlag /\ left = 0

CycleComplete(p, result, left, pending, writing) ==
  /\ writingStopFlag' = StopFlagAfter(left)
  /\ writingPacket' = IF result = "PKTWRITE" \/ (writingStopFlag /\ left # 0)
                        THEN NoPacket ELSE writing
  /\ UNCHANGED <<stored, wcacheUsed, dramUsed, nWcachePackets>>
  /\ IF result = "PKTREAD"
       THEN /\ nDramPackets' = IF stored[p] = 0 THEN (nDramPackets - 1) % Wrap
                                                ELSE nDramPackets
            /\ FetchComplete(p)
       ELSE UNCHANGED <<location, nDramPackets>>
  /\ ScheduleCycle(pending)

(***************************************************************************)
(* One atomic write: at most AtomicOpLength bursts, counted at its start.  *)
(***************************************************************************)
WrongOpsNow(left) == AtomicOpLength  \* mutant: not clamped to what is left

OpsNow(left) == IF left < AtomicOpLength THEN left ELSE AtomicOpLength

AtomicWrite(p, left, pending, writing) ==
  LET ops == OpsNow(left)
      rest == Size[p] - stored[p]
      bytes == IF ops * BurstSize < rest THEN ops * BurstSize ELSE rest
      whole == bytes = rest
  IN /\ stored' = [stored EXCEPT ![p] = @ + bytes]
     /\ wcacheUsed' = wcacheUsed - bytes
     /\ dramUsed' = dramUsed + bytes
     /\ location' = [location EXCEPT ![p] = IF whole THEN "OFFCHIPBUFFER"
                                                     ELSE "WRITINGTOOFFCHIPBUFFER"]
     /\ nWcachePackets' = IF whole THEN nWcachePackets - 1 ELSE nWcachePackets
     /\ nDramPackets' = IF whole THEN (nDramPackets + 1) % Wrap ELSE nDramPackets
     /\ events' = pending \cup {CycleAtomic(p, "PKTWRITE", left - ops)}
     /\ writingPacket' = writing
     /\ UNCHANGED <<state, wrr>>

(***************************************************************************)
(* A read is one operation, never interrupted: all bytes leave DRAM now,   *)
(* the packet is fetched when the operation ends.                          *)
(***************************************************************************)
BytesRead(p) == stored[p]

AtomicRead(p, pending, writing) ==
  /\ stored' = [stored EXCEPT ![p] = 0]
  /\ dramUsed' = dramUsed - BytesRead(p)
  /\ events' = pending \cup {CycleAtomic(p, "PKTREAD", 0)}
  /\ writingPacket' = writing
  /\ UNCHANGED <<location, wcacheUsed, nWcachePackets, nDramPackets, state, wrr>>

WrongCycleIsOver(left) == left = 0  \* mutant: the stop flag is not looked at

CycleIsOver(left) == left = 0 \/ writingStopFlag

ScheduleCycleAtomic(p, result, left, pending, writing) ==
  IF CycleIsOver(left)
    THEN CycleComplete(p, result, left, pending, writing)
    ELSE /\ UNCHANGED writingStopFlag
         /\ IF result = "PKTWRITE" THEN AtomicWrite(p, left, pending, writing)
                                   ELSE AtomicRead(p, pending, writing)

(***************************************************************************)
(* ScheduleCycleStart: a write cycle takes a write request at random, a    *)
(* read cycle the first read request.                                      *)
(***************************************************************************)
StartWriteCycle(i) ==
  /\ InterWriteReqWaitEvent \in events
  /\ writeVec' = RemoveAt(writeVec, i)
  /\ UNCHANGED <<stage, channel, readVec>>
  /\ ScheduleCycleAtomic(writeVec[i], "PKTWRITE", OpTimes(Size[writeVec[i]]),
                         events \ {InterWriteReqWaitEvent}, writeVec[i])

StartReadCycle ==
  /\ CycleStart("PKTREAD") \in events
  /\ UNCHANGED <<stage, channel, writeVec>>
  /\ LET pending == events \ {CycleStart("PKTREAD")}
     IN IF readVec = <<>>
          THEN /\ UNCHANGED <<packetVars, readVec, counterVars, writingVars>>
               /\ ScheduleCycle(pending)
          ELSE /\ readVec' = Tail(readVec)
               /\ ScheduleCycleAtomic(readVec[1], "PKTREAD", OpTimes(stored[readVec[1]]), pending,
                                      writingPacket)

NextAtomic(e) ==
  /\ e.at = "CycleAtomic"
  /\ UNCHANGED <<stage, channel, writeVec, readVec>>
  /\ ScheduleCycleAtomic(e.packet, e.result, e.left, events \ {e}, writingPacket)

(***************************************************************************)
(* The device has sent a fetched packet and no request holds a pointer to  *)
(* it: p then stands for the next packet object the switch receives, which *)
(* is constructed outside the buffer.                                      *)
(***************************************************************************)
Depart(p) ==
  /\ Fetched(p)
  /\ \A i \in DOMAIN channel : channel[i].packet # p
  /\ stage' = [stage EXCEPT ![p] = "new"]
  /\ stored' = [stored EXCEPT ![p] = 0]
  /\ UNCHANGED <<location, channel, writeVec, readVec, counterVars, engineVars, writingVars>>

Next ==
  \/ \E p \in Packets : Write(p)
  \/ \E p \in Packets : ReadFromWcache(p)
  \/ \E p \in Packets : ReadInterruptsWrite(p)
  \/ \E p \in Packets : ReadFromDram(p)
  \/ RequestArrives
  \/ \E i \in DOMAIN writeVec : StartWriteCycle(i)
  \/ StartReadCycle
  \/ \E e \in events : NextAtomic(e)
  \/ \E p \in Packets : Depart(p)

(***************************************************************************)
(* The simulator runs every scheduled event; nobody has to call the        *)
(* buffer.                                                                 *)
(***************************************************************************)
Fairness ==
  /\ WF_vars(RequestArrives)
  /\ WF_vars(\E i \in DOMAIN writeVec : StartWriteCycle(i))
  /\ WF_vars(StartReadCycle)
  /\ WF_vars(\E e \in events : NextAtomic(e))

Spec == Init /\ [][Next]_vars
FairSpec == Spec /\ Fairness

-----------------------------------------------------------------------------
(***************************************************************************)
(* Types.                                                                  *)
(***************************************************************************)
TypeOK ==
  /\ location \in [Packets -> Locations]
  /\ stored \in [Packets -> Nat]
  /\ stage \in [Packets -> {"new", "stored", "asked"}]
  /\ channel \in Seq(Requests)
  /\ writeVec \in Seq(Packets)
  /\ readVec \in Seq(Packets)
  /\ wcacheUsed \in Int
  /\ dramUsed \in Int
  /\ nWcachePackets \in Int
  /\ nDramPackets \in 0 .. Wrap - 1
  /\ state \in {"IDLE", "BUSY"}
  /\ events \subseteq Events
  /\ wrr \in WrrState
  /\ writingPacket \in Packets \cup {NoPacket}
  /\ writingStopFlag \in BOOLEAN

(***************************************************************************)
(* The engine is one chain of events: BUSY exactly while one event is      *)
(* pending, never two (a cancelled wait is really gone before the engine   *)
(* decides again), and a cycle that starts finds a request to serve.       *)
(***************************************************************************)
OneEventChain ==
  /\ \A e, f \in events : e = f
  /\ state = "IDLE" <=> events = {}
  /\ InterWriteReqWaitEvent \in events => writeVec # <<>>
  /\ CycleStart("PKTREAD") \in events => readVec # <<>>
  /\ readVec # <<>> => state = "BUSY"

(***************************************************************************)
(* The stop flag is up exactly while the packet being written has been     *)
(* asked for and has operations left, so that it stops that write at its   *)
(* next atomic operation and never the cycle of another packet.            *)
(***************************************************************************)
WriteEvents(p) == {e \in events : e.at = "CycleAtomic" /\ e.result = "PKTWRITE" /\ e.packet = p}

StopFlagDiscipline ==
  writingStopFlag <=>
    \E p \in Packets : \E e \in WriteEvents(p) :
      writingPacket = p /\ e.left > 0 /\ stage[p] = "asked"

(***************************************************************************)
(* Every packet is where its location says, in one place: the write        *)
(* request of a packet in the write cache exists once, the read request of *)
(* a packet asked for exists once until it is fetched, and a fetched       *)
(* packet has left nothing behind.                                         *)
(***************************************************************************)
Requested(op, p) == {i \in DOMAIN channel : channel[i] = [op |-> op, packet |-> p]}
Waiting(vec, p) == {i \in DOMAIN vec : vec[i] = p}
ReadEvents(p) == {e \in events : e.at = "CycleAtomic" /\ e.result = "PKTREAD" /\ e.packet = p}

OnePlace ==
  \A p \in Packets :
    LET writes == Cardinality(Requested("write", p)) + Cardinality(Waiting(writeVec, p))
        reads == Cardinality(Requested("read", p)) + Cardinality(Waiting(readVec, p))
                   + Cardinality(ReadEvents(p))
    IN /\ reads = IF stage[p] = "asked" /\ InOffChipBuffer(p) THEN 1 ELSE 0
       /\ stage[p] = "new" => ~InOffChipBuffer(p)
       /\ CASE location[p] = "NOTINBUFFER" -> stored[p] = 0 /\ Waiting(writeVec, p) = {}
            [] location[p] = "WCACHE" -> stored[p] = 0 /\ stage[p] = "stored" /\ writes = 1
            [] location[p] = "WRITINGTOOFFCHIPBUFFER" ->
                 /\ writes = 0
                 /\ stored[p] < Size[p]
                 /\ stage[p] = "stored" => stored[p] > 0 /\ WriteEvents(p) # {}
            [] OTHER -> writes = 0 /\ stored[p] \in {Size[p], 0}

(***************************************************************************)
(* The write cache holds exactly the bytes of the stored packets that have *)
(* not reached DRAM, and counts those packets; DRAM holds exactly the      *)
(* bytes the packets say they have there: a write that is interrupted      *)
(* gives its bytes back once, to each memory its own.                      *)
(***************************************************************************)
InWcache(p) == stage[p] = "stored" /\ location[p] \in {"WCACHE", "WRITINGTOOFFCHIPBUFFER"}

MemoriesAccounted ==
  /\ wcacheUsed = SumFunction([p \in Packets |-> IF InWcache(p) THEN Size[p] - stored[p] ELSE 0])
  /\ nWcachePackets = Cardinality({p \in Packets : InWcache(p)})
  /\ wcacheUsed \in 0 .. WcacheSize
  /\ dramUsed = SumFunction(stored)

(***************************************************************************)
(* DRAM is never filled beyond its size.                                   *)
(***************************************************************************)
DramNeverOverflows == dramUsed <= DramSize

(***************************************************************************)
(* Once the queue disc has asked for a packet the engine writes no further *)
(* byte of it to DRAM, in whatever state the read caught it.               *)
(***************************************************************************)
CancelledWriteStops ==
  [][\A p \in Packets : stored'[p] > stored[p] => stage'[p] = "stored"]_vars

(***************************************************************************)
(* Every packet asked for is fetched: no read is lost, starved by writes,  *)
(* or left behind in an engine that went idle.                             *)
(***************************************************************************)
AskedIsFetched ==
  \A p \in Packets : stage[p] = "asked" ~> Fetched(p)

=============================================================================
