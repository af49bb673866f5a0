------------------------------ MODULE SwitchMmu ------------------------------
(***************************************************************************)
(* The memory management unit of the hybrid switch (switch-mmu.{h,cc}): it *)
(* decides for every incoming packet whether it goes on chip (SRAM), off   *)
(* chip, or is dropped, hands it back when the queue disc asks for it, and *)
(* keeps the counters the next decisions are made from.  The off-chip side *)
(* is OffChipBuffer, whose steps call back into the counters.              *)
(*                                                                         *)
(* FBM's clock and its utilities, computed in floating point, are          *)
(* abstracted: a decision period may be running, over or out of date at    *)
(* any packet, and either memory may have the higher utility.              *)
(***************************************************************************)
EXTENDS OffChipBuffer

CONSTANTS Queues,          \* the queues, records of port, pri and index
          QueueOf,         \* the queue of each packet
          OnChipSize,      \* m_onChipBufferSize
          BmAlgorithms,    \* the algorithms the switch may be configured with
          AckLimit,        \* packets below it are ACKs (100 in the code)
          DtAlpha,         \* DT_alpha
          WredTh,          \* m_wredTh, 0 = no threshold for DEEPHIR
          Hw,              \* HW's thresholds for the port rate and priority of each queue
          EnableOnChipPdp  \* m_enableOnChipPdp

HwParameters ==
  [cgMax : Nat, cgMin : Nat, longCgQlen : Nat, wcacheFullTh : Nat, wcacheCgTh : Nat,
   alphaOfQueue : Nat, alphaOfPriority : Nat, alphaOfPort : Nat]

ASSUME MmuAssumption ==
  /\ Queues \subseteq [port : Nat, pri : Nat, index : Nat]
  /\ QueueOf \in [Packets -> Queues]
  /\ OnChipSize \in Nat
  /\ BmAlgorithms \subseteq {"HW", "TDT", "YSL", "BASELINE", "DEEPHIR", "OTHER"}
  /\ AckLimit \in Nat
  /\ DtAlpha \in Nat
  /\ WredTh \in [{q.pri : q \in Queues} -> Nat]
  /\ Hw \in [Queues -> HwParameters]
  /\ EnableOnChipPdp \in BOOLEAN

VARIABLES
  onChipRemain,   \* m_onChipBufferRemain
  usedSram,       \* UsedSram_Size_Cycle
  priOnChipUsed,  \* m_priOnChipUsed
  priDpUsed,      \* m_priDpUsed
  qUsed,          \* m_qUsed
  qlens,          \* m_qlens
  activeQueNum,   \* m_activeQueNum
  nPackets,       \* m_nPackets
  wcacheQlen,     \* m_wcacheQlen
  priWcacheUsed,  \* m_priWcacheUsed
  dramQlen,       \* m_dramQlen
  priDramUsed,    \* m_priDramUsed
  bm,             \* m_bmAlgorithm
  cgStatus,       \* m_cgStatus = CONGESTION
  storeDecision,  \* storeDecision: the queue's packets go on chip
  started         \* T_seq > 1: the queue has seen a data packet

sramVars    == <<onChipRemain, usedSram, priOnChipUsed, priDpUsed>>
queueVars   == <<qUsed, qlens, activeQueNum, nPackets>>
offChipVars == <<wcacheQlen, priWcacheUsed, dramQlen, priDramUsed>>
bmVars      == <<bm, cgStatus, storeDecision, started>>
mmuVars     == <<vars, sramVars, queueVars, offChipVars, bmVars>>

-----------------------------------------------------------------------------
Ports      == {q.port : q \in Queues}
Priorities == {q.pri : q \in Queues}
PortPri(q)   == <<q.port, q.pri>>
PortIndex(q) == <<q.port, q.index>>

Plus(counter, key, n) == [counter EXCEPT ![key] = @ + n]

MmuInit ==
  /\ Init
  /\ onChipRemain = OnChipSize
  /\ usedSram = [q \in Queues |-> 0]
  /\ priOnChipUsed = [pri \in Priorities |-> 0]
  /\ priDpUsed = [k \in {PortPri(q) : q \in Queues} |-> 0]
  /\ qUsed = [q \in Queues |-> 0]
  /\ qlens = [k \in {PortIndex(q) : q \in Queues} |-> 0]
  /\ activeQueNum = [port \in Ports |-> 0]
  /\ nPackets = 0
  /\ wcacheQlen = [q \in Queues |-> 0]
  /\ priWcacheUsed = [pri \in Priorities |-> 0]
  /\ dramQlen = [q \in Queues |-> 0]
  /\ priDramUsed = [pri \in Priorities |-> 0]
  /\ bm \in BmAlgorithms
  /\ cgStatus = [q \in Queues |-> FALSE]
  /\ storeDecision = [q \in Queues |-> TRUE]
  /\ started = [q \in Queues |-> FALSE]

-----------------------------------------------------------------------------
(***************************************************************************)
(* Admission.  A decision is the packet's place and what the algorithm     *)
(* remembers for its queue.                                                *)
(***************************************************************************)
Decide(q, to) ==
  [to |-> to, congested |-> cgStatus[q], sram |-> storeDecision[q], started |-> started[q]]

HasDramSpace(p) == DramRemain(dramUsed) >= Size[p]

WrongHasOffChipSpace(p) == HasDramSpace(p)  \* mutant: the write cache's room is forgotten

HasOffChipSpace(p) == WcacheSize - wcacheUsed > Size[p] /\ HasDramSpace(p)

OnChipElseOffChip(p, fits) ==
  IF fits THEN "ONCHIP" ELSE IF HasOffChipSpace(p) THEN "OFFCHIP" ELSE "DROP"

BelowDt(p) == usedSram[QueueOf[p]] + Size[p] <= DtAlpha * onChipRemain

CheckBaselineBmAlgorithm(p) ==
  Decide(QueueOf[p],
         IF WcacheSize - wcacheUsed >= Size[p] /\ HasDramSpace(p) THEN "OFFCHIP" ELSE "DROP")

BelowWred(p) ==
  LET q == QueueOf[p] IN qUsed[q] + Size[p] <= WredTh[q.pri]

CheckDeepHirBmAlgorithm(p) ==
  Decide(QueueOf[p],
         OnChipElseOffChip(p, /\ Size[p] <= onChipRemain
                              /\ Size[p] < AckLimit
                                   \/ /\ WredTh[QueueOf[p].pri] = 0 \/ BelowWred(p)
                                      /\ BelowDt(p)))

(***************************************************************************)
(* HW: thresholds on queues, on the write cache and on SRAM; a queue stays *)
(* congested until it is shorter than cgMin.                               *)
(***************************************************************************)
GetHWCgStatus(q) ==
  qUsed[q] > Hw[q].cgMax \/ (cgStatus[q] /\ qUsed[q] >= Hw[q].cgMin)

HwRefuses(p, q) ==
  \/ ~BelowWred(p)
  \/ /\ GetHWCgStatus(q)
     /\ \/ wcacheUsed >= Hw[q].wcacheFullTh
        \/ wcacheUsed >= Hw[q].wcacheCgTh /\ qUsed[q] > Hw[q].longCgQlen

HwAllowsOnChip(q) ==
  LET share == Hw[q].alphaOfPriority * onChipRemain
  IN /\ qUsed[q] <= Hw[q].alphaOfQueue * onChipRemain
     /\ priOnChipUsed[q.pri] < share
     /\ EnableOnChipPdp =>
          priDpUsed[PortPri(q)] * (Hw[q].alphaOfPriority + 1)
            < Hw[q].alphaOfPort * (share - priOnChipUsed[q.pri])

HwAllowsOffChip(p, q) == wcacheUsed < Hw[q].wcacheFullTh /\ HasDramSpace(p)

HwPlace(p, q) ==
  LET fits == onChipRemain >= Size[p]
      offChip == HwAllowsOffChip(p, q)
  IN IF qUsed[q] = 0 /\ fits THEN "ONCHIP"
     ELSE IF HwRefuses(p, q) THEN "DROP"
     ELSE IF fits /\ HwAllowsOnChip(q) /\ ~(GetHWCgStatus(q) /\ offChip) THEN "ONCHIP"
     ELSE IF offChip THEN "OFFCHIP" ELSE "DROP"

CheckHWBmAlgorithm(p) ==
  LET q == QueueOf[p]
  IN [Decide(q, HwPlace(p, q)) EXCEPT !.congested = GetHWCgStatus(q)]

(***************************************************************************)
(* FBM (called TDT in the code): the direction of a queue is chosen at the *)
(* end of a period and kept while both memories hold more of the queue's   *)
(* bytes than the packet has.                                              *)
(* At the start, or after a long pause, it is chosen by what fits; a mixed *)
(* queue then keeps its direction without a look at what fits.             *)
(***************************************************************************)
IsMixed(p) ==
  LET q == QueueOf[p]
  IN usedSram[q] > Size[p] /\ qUsed[q] - usedSram[q] > Size[p]

FitsSram(p) == BelowDt(p) /\ Size[p] <= onChipRemain

Follow(p, sram) ==
  IF sram THEN (IF FitsSram(p) THEN "ONCHIP" ELSE "DROP")
          ELSE (IF HasOffChipSpace(p) THEN "OFFCHIP" ELSE "DROP")

FbmAck(p) ==
  Decide(QueueOf[p], OnChipElseOffChip(p, Size[p] <= onChipRemain))

FbmReset(p) ==
  LET q == QueueOf[p]
      place == IF IsMixed(p) THEN (IF storeDecision[q] THEN "ONCHIP" ELSE "OFFCHIP")
                             ELSE OnChipElseOffChip(p, FitsSram(p))
  IN [Decide(q, place) EXCEPT !.started = TRUE,
                              !.sram = IF place = "DROP" THEN @ ELSE place = "ONCHIP"]

FbmWithinPeriod(p) ==
  Decide(QueueOf[p], Follow(p, storeDecision[QueueOf[p]]))

FbmDirections(p) == IF IsMixed(p) THEN {storeDecision[QueueOf[p]]} ELSE BOOLEAN

FbmPeriodEnd(p, sram) ==
  [Decide(QueueOf[p], Follow(p, sram)) EXCEPT !.sram = sram]

Check3DTBmAlgorithm(p) ==
  IF Size[p] < AckLimit
    THEN {FbmAck(p)}
    ELSE {FbmReset(p)} \cup
         IF started[QueueOf[p]]
           THEN {FbmWithinPeriod(p)} \cup {FbmPeriodEnd(p, sram) : sram \in FbmDirections(p)}
           ELSE {}

FindBufferLocation(p) ==
  CASE bm = "HW"       -> {CheckHWBmAlgorithm(p)}
    [] bm = "TDT"      -> Check3DTBmAlgorithm(p)
    [] bm = "YSL"      -> {Decide(QueueOf[p], "ONCHIP")}
    [] bm = "BASELINE" -> {CheckBaselineBmAlgorithm(p)}
    [] bm = "DEEPHIR"  -> {CheckDeepHirBmAlgorithm(p)}
    [] OTHER           -> {Decide(QueueOf[p], "OFFCHIP")}

-----------------------------------------------------------------------------
(***************************************************************************)
(* Store and FetchComplete: what a packet means to its queue.              *)
(***************************************************************************)
ChargeQueue(p) ==
  LET q == QueueOf[p]
  IN /\ nPackets' = nPackets + 1
     /\ activeQueNum' = IF qUsed[q] = 0 THEN Plus(activeQueNum, q.port, 1) ELSE activeQueNum
     /\ qUsed' = Plus(qUsed, q, Size[p])
     /\ qlens' = Plus(qlens, PortIndex(q), Size[p])

WrongDischargeQueue(p) ==  \* mutant: activeQueNum is not taken back
  LET q == QueueOf[p]
  IN /\ nPackets' = nPackets - 1
     /\ qUsed' = Plus(qUsed, q, -Size[p])
     /\ qlens' = Plus(qlens, PortIndex(q), -Size[p])
     /\ UNCHANGED activeQueNum

DischargeQueue(p) ==
  LET q == QueueOf[p]
  IN /\ nPackets' = nPackets - 1
     /\ qUsed' = Plus(qUsed, q, -Size[p])
     /\ qlens' = Plus(qlens, PortIndex(q), -Size[p])
     /\ activeQueNum' = IF qUsed'[q] = 0 THEN Plus(activeQueNum, q.port, -1) ELSE activeQueNum

(***************************************************************************)
(* SRAM takes or gives back n bytes of queue q.                            *)
(***************************************************************************)
WrongUseSram(q, n) ==  \* mutant: the port's share is charged to the priority only
  /\ onChipRemain' = onChipRemain - n
  /\ usedSram' = Plus(usedSram, q, n)
  /\ priOnChipUsed' = Plus(priOnChipUsed, q.pri, n)
  /\ UNCHANGED priDpUsed

UseSram(q, n) ==
  /\ onChipRemain' = onChipRemain - n
  /\ usedSram' = Plus(usedSram, q, n)
  /\ priOnChipUsed' = Plus(priOnChipUsed, q.pri, n)
  /\ priDpUsed' = Plus(priDpUsed, PortPri(q), n)

(***************************************************************************)
(* The buffer's reports: bytes that enter or leave the write cache, DRAM.  *)
(***************************************************************************)
UseWcache(q, n) ==
  /\ wcacheQlen' = Plus(wcacheQlen, q, n)
  /\ priWcacheUsed' = Plus(priWcacheUsed, q.pri, n)

UseDram(q, n) ==
  /\ dramQlen' = Plus(dramQlen, q, n)
  /\ priDramUsed' = Plus(priDramUsed, q.pri, n)

WriteWcacheComplete(p) ==
  UseWcache(QueueOf[p], Size[p]) /\ UNCHANGED <<dramQlen, priDramUsed>>

WrongReadWcacheComplete(p) ==  \* mutant: the bytes already in DRAM are counted too
  UseWcache(QueueOf[p], -Size[p]) /\ UNCHANGED <<dramQlen, priDramUsed>>

ReadWcacheComplete(p) ==
  UseWcache(QueueOf[p], stored[p] - Size[p]) /\ UNCHANGED <<dramQlen, priDramUsed>>

WriteDramComplete(p) ==
  UseDram(QueueOf[p], stored[p]) /\ UseWcache(QueueOf[p], -stored[p])

ReadDramComplete(p) ==
  UseDram(QueueOf[p], -stored[p]) /\ UNCHANGED <<wcacheQlen, priWcacheUsed>>

(***************************************************************************)
(* Store: the code asserts that the decision fits, so an admission that    *)
(* does not fit stops the program (see AdmissionFits).                     *)
(***************************************************************************)
Fits(p, to) ==
  /\ to = "ONCHIP" => Size[p] <= onChipRemain
  /\ to = "OFFCHIP" => WcacheHasRoom(p)

StoreOnChip(p) ==
  /\ Fits(p, "ONCHIP")
  /\ stage' = [stage EXCEPT ![p] = "stored"]
  /\ location' = [location EXCEPT ![p] = "ONCHIPBUFFER"]
  /\ UseSram(QueueOf[p], Size[p])
  /\ ChargeQueue(p)
  /\ UNCHANGED <<stored, channel, writeVec, readVec, counterVars, engineVars,
                 writingVars, offChipVars>>

StoreOffChip(p) ==
  /\ Write(p)
  /\ WriteWcacheComplete(p)
  /\ ChargeQueue(p)
  /\ UNCHANGED sramVars

Refuse(p) == UNCHANGED <<vars, sramVars, queueVars, offChipVars>>

(***************************************************************************)
(* TrafficControlLayer::Send asks for admission and stores at once.        *)
(***************************************************************************)
Ingress(p) ==
  /\ stage[p] = "new"
  /\ UNCHANGED bm
  /\ \E d \in FindBufferLocation(p) :
       /\ cgStatus' = [cgStatus EXCEPT ![QueueOf[p]] = d.congested]
       /\ storeDecision' = [storeDecision EXCEPT ![QueueOf[p]] = d.sram]
       /\ started' = [started EXCEPT ![QueueOf[p]] = d.started]
       /\ CASE d.to = "ONCHIP"  -> StoreOnChip(p)
            [] d.to = "OFFCHIP" -> StoreOffChip(p)
            [] OTHER            -> Refuse(p)

-----------------------------------------------------------------------------
(***************************************************************************)
(* Fetch.                                                                  *)
(***************************************************************************)
FetchOnChip(p) ==
  /\ stage[p] = "stored"
  /\ location[p] = "ONCHIPBUFFER"
  /\ stage' = [stage EXCEPT ![p] = "asked"]
  /\ UseSram(QueueOf[p], -Size[p])
  /\ FetchComplete(p)
  /\ DischargeQueue(p)
  /\ UNCHANGED <<stored, channel, writeVec, readVec, counterVars, engineVars, writingVars,
                 offChipVars, bmVars>>

FetchFromWcache(p) ==
  /\ ReadFromWcache(p)
  /\ ReadWcacheComplete(p)
  /\ DischargeQueue(p)
  /\ UNCHANGED <<sramVars, bmVars>>

FetchBeingWritten(p) ==
  /\ ReadInterruptsWrite(p)
  /\ ReadWcacheComplete(p)
  /\ UNCHANGED <<sramVars, queueVars, bmVars>>

FetchFromDram(p) ==
  /\ ReadFromDram(p)
  /\ UNCHANGED <<sramVars, queueVars, offChipVars, bmVars>>

-----------------------------------------------------------------------------
(***************************************************************************)
(* The engine's steps and what each reports: the end of a write and of a   *)
(* read cycle, and the read of a packet out of DRAM.                       *)
(***************************************************************************)
WrongReport(p, result, left) ==  \* mutant: the queue is discharged when the read starts
  IF CycleIsOver(left)
    THEN UNCHANGED queueVars /\ (IF result = "PKTWRITE" THEN WriteDramComplete(p)
                                                        ELSE UNCHANGED offChipVars)
    ELSE IF result = "PKTREAD" THEN ReadDramComplete(p) /\ DischargeQueue(p)
                               ELSE UNCHANGED <<queueVars, offChipVars>>

Report(p, result, left) ==
  IF CycleIsOver(left)
    THEN IF result = "PKTWRITE" THEN WriteDramComplete(p) /\ UNCHANGED queueVars
                                ELSE DischargeQueue(p) /\ UNCHANGED offChipVars
    ELSE /\ UNCHANGED queueVars
         /\ IF result = "PKTREAD" THEN ReadDramComplete(p) ELSE UNCHANGED offChipVars

MmuRequestArrives ==
  RequestArrives /\ UNCHANGED <<sramVars, queueVars, offChipVars, bmVars>>

MmuStartWriteCycle ==
  \E i \in DOMAIN writeVec :
    /\ StartWriteCycle(i)
    /\ Report(writeVec[i], "PKTWRITE", OpTimes(Size[writeVec[i]]))
    /\ UNCHANGED <<sramVars, bmVars>>

MmuStartReadCycle ==
  /\ StartReadCycle
  /\ IF readVec = <<>> THEN UNCHANGED <<queueVars, offChipVars>>
                       ELSE Report(readVec[1], "PKTREAD", OpTimes(stored[readVec[1]]))
  /\ UNCHANGED <<sramVars, bmVars>>

MmuNextAtomic ==
  \E e \in events :
    /\ NextAtomic(e)
    /\ Report(e.packet, e.result, e.left)
    /\ UNCHANGED <<sramVars, bmVars>>

MmuDepart(p) ==
  Depart(p) /\ UNCHANGED <<sramVars, queueVars, offChipVars, bmVars>>

MmuNext ==
  \/ \E p \in Packets : Ingress(p)
  \/ \E p \in Packets : FetchOnChip(p)
  \/ \E p \in Packets : FetchFromWcache(p)
  \/ \E p \in Packets : FetchBeingWritten(p)
  \/ \E p \in Packets : FetchFromDram(p)
  \/ MmuRequestArrives
  \/ MmuStartWriteCycle
  \/ MmuStartReadCycle
  \/ MmuNextAtomic
  \/ \E p \in Packets : MmuDepart(p)

(***************************************************************************)
(* The fairness of OffChipBuffer: the simulator runs scheduled events.     *)
(***************************************************************************)
MmuFairness ==
  /\ WF_mmuVars(MmuRequestArrives)
  /\ WF_mmuVars(MmuStartWriteCycle)
  /\ WF_mmuVars(MmuStartReadCycle)
  /\ WF_mmuVars(MmuNextAtomic)

MmuSpec == MmuInit /\ [][MmuNext]_mmuVars
MmuFairSpec == MmuSpec /\ MmuFairness

-----------------------------------------------------------------------------
(***************************************************************************)
(* Types.  No unsigned counter is taken below zero.                        *)
(***************************************************************************)
MmuTypeOK ==
  /\ TypeOK
  /\ onChipRemain \in Nat
  /\ usedSram \in [Queues -> Nat]
  /\ priOnChipUsed \in [Priorities -> Nat]
  /\ priDpUsed \in [{PortPri(q) : q \in Queues} -> Nat]
  /\ qUsed \in [Queues -> Nat]
  /\ qlens \in [{PortIndex(q) : q \in Queues} -> Nat]
  /\ activeQueNum \in [Ports -> Nat]
  /\ nPackets \in Nat
  /\ wcacheQlen \in [Queues -> Nat]
  /\ priWcacheUsed \in [Priorities -> Nat]
  /\ dramQlen \in [Queues -> Nat]
  /\ priDramUsed \in [Priorities -> Nat]
  /\ bm \in BmAlgorithms
  /\ cgStatus \in [Queues -> BOOLEAN]
  /\ storeDecision \in [Queues -> BOOLEAN]
  /\ started \in [Queues -> BOOLEAN]

(***************************************************************************)
(* A packet is only admitted to a memory that has room for it, whatever    *)
(* packets are being written, read and cancelled meanwhile: the assertions *)
(* of Store and SendWriteRequestStart never fail.                          *)
(***************************************************************************)
AdmissionFits ==
  \A p \in Packets : stage[p] = "new" => \A d \in FindBufferLocation(p) : Fits(p, d.to)

(***************************************************************************)
(* The code does not keep to that where it decides without a look at the   *)
(* room: YSL and the algorithm of last resort always, FBM for a mixed      *)
(* queue when its period starts, HW where the write cache is full before   *)
(* wcacheFullTh is reached.  HW's defaults, 350 and 200 KB, are such       *)
(* thresholds for the default write cache of 50 KB.  Nowhere else does an  *)
(* admission miss its room.                                                *)
(***************************************************************************)
IgnoresRoom(p, d) ==
  \/ bm \in {"YSL", "OTHER"}
  \/ bm = "TDT" /\ Size[p] >= AckLimit /\ IsMixed(p) /\ d = FbmReset(p)
  \/ /\ bm = "HW" /\ d.to = "OFFCHIP"
     /\ Hw[QueueOf[p]].wcacheFullTh + Size[p] > WcacheSize + 1

OnlyBlindAdmissionsMisfit ==
  \A p \in Packets : stage[p] = "new" =>
    \A d \in FindBufferLocation(p) : Fits(p, d.to) \/ IgnoresRoom(p, d)

(***************************************************************************)
(* The SRAM counters of every level are the bytes of the packets on chip.  *)
(***************************************************************************)
Bytes(sizes, S) == SumFunctionOnSet(sizes, S)

OnChip == {p \in Packets : location[p] = "ONCHIPBUFFER"}

SramAccounted ==
  /\ onChipRemain = OnChipSize - Bytes(Size, OnChip)
  /\ onChipRemain >= 0
  /\ \A q \in Queues : usedSram[q] = Bytes(Size, {p \in OnChip : QueueOf[p] = q})
  /\ \A pri \in Priorities :
       priOnChipUsed[pri] = Bytes(Size, {p \in OnChip : QueueOf[p].pri = pri})
  /\ \A k \in DOMAIN priDpUsed :
       priDpUsed[k] = Bytes(Size, {p \in OnChip : PortPri(QueueOf[p]) = k})

(***************************************************************************)
(* A queue is charged for a packet from its admission until the last byte  *)
(* is fetched, and a port counts its queues that are charged for any: the  *)
(* lengths admission decides by are those of the packets in the switch.    *)
(***************************************************************************)
Charged == {p \in Packets : stage[p] # "new" /\ ~Fetched(p)}

QueuesAccounted ==
  /\ nPackets = Cardinality(Charged)
  /\ \A q \in Queues : qUsed[q] = Bytes(Size, {p \in Charged : QueueOf[p] = q})
  /\ \A k \in DOMAIN qlens : qlens[k] = Bytes(Size, {p \in Charged : PortIndex(QueueOf[p]) = k})
  /\ \A port \in Ports :
       activeQueNum[port] = Cardinality({QueueOf[p] : p \in {r \in Charged : QueueOf[r].port = port}})

(***************************************************************************)
(* The off-chip bytes of a queue are in the write cache or in DRAM.  Those *)
(* a write cycle has moved change hands when the cycle ends, also when a   *)
(* read has stopped it in between.                                         *)
(***************************************************************************)
Moving(p) == IF WriteEvents(p) # {} THEN stored[p] ELSE 0

InCache == [p \in Packets |-> (IF InWcache(p) THEN Size[p] - stored[p] ELSE 0) + Moving(p)]
InDram == [p \in Packets |-> stored[p] - Moving(p)]

OffChipAccounted ==
  /\ \A q \in Queues :
       LET mine == {p \in Packets : QueueOf[p] = q}
       IN wcacheQlen[q] = Bytes(InCache, mine) /\ dramQlen[q] = Bytes(InDram, mine)
  /\ \A pri \in Priorities :
       LET mine == {p \in Packets : QueueOf[p].pri = pri}
       IN priWcacheUsed[pri] = Bytes(InCache, mine) /\ priDramUsed[pri] = Bytes(InDram, mine)

(***************************************************************************)
(* Every byte of the three memories is counted once at each level: queue,  *)
(* priority and port.                                                      *)
(***************************************************************************)
MemoriesCounted == SramAccounted /\ OffChipAccounted

(***************************************************************************)
(* All of this is a packet buffer: every packet admitted is fetched once,  *)
(* soon after it is asked for, and charged to its queue until then.        *)
(***************************************************************************)
Status(p) ==
  CASE stage[p] = "new"    -> "out"
    [] stage[p] = "stored" -> "held"
    [] OTHER               -> IF Fetched(p) THEN "fetched" ELSE "asked"

Buffer == INSTANCE PacketBuffer WITH status <- [p \in Packets |-> Status(p)], charged <- qUsed

IsPacketBuffer == Buffer!PacketBufferSpec
=============================================================================
