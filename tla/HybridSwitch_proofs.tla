------------------------ MODULE HybridSwitch_proofs ------------------------
(***************************************************************************)
(* The memory management unit for any packets, queues, memories and        *)
(* thresholds: what its counters stand for, that admission leaves room,    *)
(* and that it is a packet buffer.  Then the switch built around it: it    *)
(* does what the MMU may do, and what the port may do, so that what is     *)
(* proved of either holds of the whole.                                    *)
(***************************************************************************)
EXTENDS HybridSwitch, OffChipBuffer_proofs

(***************************************************************************)
(* A counter with one entry for each key of D counts the bytes f says of   *)
(* every packet under the key of the packet.                               *)
(***************************************************************************)
Sizing(f) == f \in [Packets -> Nat]

Under(key, k) == {p \in Packets : key[p] = k}

Counts(c, f, key, D) ==
  /\ c \in [D -> Nat]
  /\ \A k \in D : c[k] = SumFunctionOnSet(f, Under(key, k))

(***************************************************************************)
(* From f to g packet p alone changes, by n bytes.                         *)
(***************************************************************************)
Adds(f, g, p, n) ==
  /\ Sizing(f) /\ Sizing(g)
  /\ \A q \in Packets \ {p} : g[q] = f[q]
  /\ g[p] = f[p] + n

Same(f, g) == Sizing(f) /\ Sizing(g) /\ \A q \in Packets : g[q] = f[q]

LEMMA SumOfSizes ==
  ASSUME NEW f, Sizing(f), NEW T \in SUBSET Packets
  PROVE  SumFunctionOnSet(f, T) \in Nat /\ IsFiniteSet(T)
<1>1. IsFiniteSet(T) /\ \A x \in T : f[x] \in Nat
  BY BufferAssumption, FS_Subset DEF Sizing
<1> QED BY <1>1, SumNat

(***************************************************************************)
(* The counter follows the packet, and stays a natural number.             *)
(***************************************************************************)
LEMMA CounterStep ==
  ASSUME NEW D, NEW key \in [Packets -> D], NEW f, NEW g, NEW c, NEW p \in Packets, NEW n \in Int,
         Counts(c, f, key, D), Adds(f, g, p, n)
  PROVE  Counts(Plus(c, key[p], n), g, key, D)
<1> DEFINE d == Plus(c, key[p], n)
<1>1. /\ Sizing(f) /\ Sizing(g)
      /\ \A q \in Packets \ {p} : g[q] = f[q]
      /\ g[p] = f[p] + n
  BY DEF Adds
<1>2. ASSUME NEW k \in D
      PROVE  d[k] = SumFunctionOnSet(g, Under(key, k))
  <2>1. Under(key, k) \in SUBSET Packets /\ IsFiniteSet(Under(key, k))
    BY <1>1, SumOfSizes DEF Under
  <2>2. \A q \in Under(key, k) : f[q] \in Int /\ g[q] \in Int
    BY <1>1, <2>1 DEF Sizing
  <2>3. c[k] = SumFunctionOnSet(f, Under(key, k)) /\ c \in [D -> Nat]
    BY DEF Counts
  <2>4. CASE k = key[p]
    <3>1. p \in Under(key, k)
      BY <2>4 DEF Under
    <3>2. \A q \in Under(key, k) \ {p} : f[q] = g[q]
      BY <1>1, <2>1
    <3>3. SumFunctionOnSet(g, Under(key, k)) = SumFunctionOnSet(f, Under(key, k)) - f[p] + g[p]
      BY <2>1, <2>2, <3>1, <3>2, SumChange
    <3>4. d[k] = c[k] + n
      BY <2>3, <2>4 DEF Plus
    <3>5. f[p] \in Int /\ g[p] \in Int /\ c[k] \in Int
      BY <2>2, <2>3, <3>1
    <3> QED BY <1>1, <2>3, <3>3, <3>4, <3>5
  <2>5. CASE k # key[p]
    <3>1. \A q \in Under(key, k) : f[q] = g[q]
      BY <1>1, <2>5 DEF Under
    <3>2. SumFunctionOnSet(f, Under(key, k)) = SumFunctionOnSet(g, Under(key, k))
      BY <2>1, <3>1, SumSame
    <3>3. d[k] = c[k]
      BY <2>3, <2>5 DEF Plus
    <3> QED BY <2>3, <3>2, <3>3
  <2> QED BY <2>4, <2>5
<1>3. d \in [D -> Nat]
  <2>1. DOMAIN d = D /\ d = [k \in D |-> d[k]]
    BY DEF Plus, Counts
  <2>2. \A k \in D : SumFunctionOnSet(g, Under(key, k)) \in Nat
    BY <1>1, SumOfSizes DEF Under
  <2> HIDE DEF d
  <2> QED BY <1>2, <2>1, <2>2
<1> HIDE DEF d
<1>4. Counts(d, g, key, D)
  BY <1>2, <1>3 DEF Counts
<1> QED BY <1>4 DEF d

LEMMA CounterSame ==
  ASSUME NEW D, NEW key \in [Packets -> D], NEW f, NEW g, NEW c, Counts(c, f, key, D), Same(f, g)
  PROVE  Counts(c, g, key, D)
<1>1. ASSUME NEW k \in D
      PROVE  SumFunctionOnSet(f, Under(key, k)) = SumFunctionOnSet(g, Under(key, k))
  <2>1. Under(key, k) \in SUBSET Packets /\ IsFiniteSet(Under(key, k))
    BY SumOfSizes DEF Under, Same
  <2>2. \A q \in Under(key, k) : f[q] = g[q]
    BY <2>1 DEF Same
  <2> QED BY <2>1, <2>2, SumSame
<1> QED BY <1>1 DEF Counts

LEMMA CounterZero ==
  ASSUME NEW D, NEW key \in [Packets -> D], NEW f, \A p \in Packets : f[p] = 0
  PROVE  Counts([k \in D |-> 0], f, key, D)
<1>1. ASSUME NEW k \in D
      PROVE  SumFunctionOnSet(f, Under(key, k)) = 0
  <2>1. IsFiniteSet(Under(key, k)) /\ \A x \in Under(key, k) : f[x] = 0
    BY BufferAssumption, FS_Subset DEF Under
  <2> QED BY <2>1, SumZero
<1> QED BY <1>1 DEF Counts

(***************************************************************************)
(* The sum over all packets.                                               *)
(***************************************************************************)
LEMMA TotalStep ==
  ASSUME NEW f, NEW g, NEW p \in Packets, NEW n \in Int, Adds(f, g, p, n)
  PROVE  /\ SumFunctionOnSet(f, Packets) \in Nat /\ SumFunctionOnSet(g, Packets) \in Nat
         /\ SumFunctionOnSet(g, Packets) = SumFunctionOnSet(f, Packets) + n
<1>1. /\ IsFiniteSet(Packets)
      /\ \A q \in Packets : f[q] \in Int /\ g[q] \in Int
      /\ \A q \in Packets \ {p} : f[q] = g[q]
      /\ g[p] = f[p] + n /\ f[p] \in Int
  BY BufferAssumption DEF Adds, Sizing
<1>2. SumFunctionOnSet(g, Packets) = SumFunctionOnSet(f, Packets) - f[p] + g[p]
  BY <1>1, SumChange
<1>3. SumFunctionOnSet(f, Packets) \in Nat /\ SumFunctionOnSet(g, Packets) \in Nat
  BY SumOfSizes DEF Adds
<1> QED BY <1>1, <1>2, <1>3

LEMMA TotalSame ==
  ASSUME NEW f, NEW g, Same(f, g)
  PROVE  SumFunctionOnSet(g, Packets) = SumFunctionOnSet(f, Packets)
<1>1. IsFiniteSet(Packets) /\ \A q \in Packets : f[q] = g[q]
  BY BufferAssumption DEF Same
<1> QED BY <1>1, SumSame

-----------------------------------------------------------------------------
(***************************************************************************)
(* The keys the MMU counts by, and what each memory and each queue holds   *)
(* of a packet.                                                            *)
(***************************************************************************)
PriOf       == [p \in Packets |-> QueueOf[p].pri]
PortPriOf   == [p \in Packets |-> PortPri(QueueOf[p])]
PortIndexOf == [p \in Packets |-> PortIndex(QueueOf[p])]
PortPris    == {PortPri(q) : q \in Queues}
PortIndices == {PortIndex(q) : q \in Queues}

InSram   == [p \in Packets |-> IF location[p] = "ONCHIPBUFFER" THEN Size[p] ELSE 0]
ForQueue == [p \in Packets |-> IF p \in Charged THEN Size[p] ELSE 0]

Busy(port) == {q \in Queues : q.port = port /\ qUsed[q] # 0}

(***************************************************************************)
(* The inductive invariant of the counters: every counter of every level   *)
(* counts the same bytes of the same packets.                              *)
(***************************************************************************)
SramInv ==
  /\ onChipRemain \in Nat
  /\ onChipRemain = OnChipSize - SumFunctionOnSet(InSram, Packets)
  /\ Counts(usedSram, InSram, QueueOf, Queues)
  /\ Counts(priOnChipUsed, InSram, PriOf, Priorities)
  /\ Counts(priDpUsed, InSram, PortPriOf, PortPris)

ActiveInv ==
  /\ activeQueNum \in [Ports -> Nat]
  /\ \A port \in Ports : IsFiniteSet(Busy(port)) /\ activeQueNum[port] = Cardinality(Busy(port))

QueueInv ==
  /\ nPackets = Cardinality(Charged)
  /\ Counts(qUsed, ForQueue, QueueOf, Queues)
  /\ Counts(qlens, ForQueue, PortIndexOf, PortIndices)
  /\ ActiveInv

CacheInv ==
  /\ Counts(wcacheQlen, InCache, QueueOf, Queues)
  /\ Counts(priWcacheUsed, InCache, PriOf, Priorities)

DramInv ==
  /\ Counts(dramQlen, InDram, QueueOf, Queues)
  /\ Counts(priDramUsed, InDram, PriOf, Priorities)

BmInv ==
  /\ bm \in BmAlgorithms
  /\ cgStatus \in [Queues -> BOOLEAN]
  /\ storeDecision \in [Queues -> BOOLEAN]
  /\ started \in [Queues -> BOOLEAN]

MmuInv ==
  /\ PlacesInv
  /\ MemoryInv
  /\ SramInv
  /\ QueueInv
  /\ CacheInv
  /\ DramInv
  /\ BmInv

LEMMA KeyTypes ==
  /\ QueueOf \in [Packets -> Queues]
  /\ PriOf \in [Packets -> Priorities]
  /\ PortPriOf \in [Packets -> PortPris]
  /\ PortIndexOf \in [Packets -> PortIndices]
BY MmuAssumption DEF PriOf, PortPriOf, PortIndexOf, Priorities, PortPris, PortIndices

(***************************************************************************)
(* SRAM: UseSram is right for the bytes that enter or leave it.            *)
(***************************************************************************)
LEMMA UseSramStep ==
  ASSUME SramInv, NEW p \in Packets, NEW n \in Int, UseSram(QueueOf[p], n),
         Adds(InSram, InSram', p, n), n <= onChipRemain
  PROVE  SramInv'
<1> PICK f : f = InSram
  OBVIOUS
<1> PICK g : g = InSram'
  OBVIOUS
<1>1. Adds(f, g, p, n)
  OBVIOUS
<1>2. /\ PriOf[p] = QueueOf[p].pri
      /\ PortPriOf[p] = PortPri(QueueOf[p])
  BY DEF PriOf, PortPriOf
<1>3. /\ onChipRemain' = onChipRemain - n
      /\ usedSram' = Plus(usedSram, QueueOf[p], n)
      /\ priOnChipUsed' = Plus(priOnChipUsed, PriOf[p], n)
      /\ priDpUsed' = Plus(priDpUsed, PortPriOf[p], n)
  BY <1>2 DEF UseSram
<1>4. /\ Counts(usedSram, f, QueueOf, Queues)
      /\ Counts(priOnChipUsed, f, PriOf, Priorities)
      /\ Counts(priDpUsed, f, PortPriOf, PortPris)
  BY DEF SramInv
<1>5. /\ Counts(usedSram', g, QueueOf, Queues)
      /\ Counts(priOnChipUsed', g, PriOf, Priorities)
      /\ Counts(priDpUsed', g, PortPriOf, PortPris)
  BY <1>1, <1>3, <1>4, CounterStep, KeyTypes
<1>6. SumFunctionOnSet(g, Packets) = SumFunctionOnSet(f, Packets) + n
      /\ SumFunctionOnSet(f, Packets) \in Nat
  BY <1>1, TotalStep
<1>7. onChipRemain \in Nat /\ onChipRemain = OnChipSize - SumFunctionOnSet(f, Packets)
  BY DEF SramInv
<1>8. onChipRemain' \in Nat /\ onChipRemain' = OnChipSize - SumFunctionOnSet(g, Packets)
  BY <1>3, <1>6, <1>7, MmuAssumption
<1> QED BY <1>5, <1>8 DEF SramInv

LEMMA SramFrame ==
  ASSUME SramInv, UNCHANGED sramVars, Same(InSram, InSram')
  PROVE  SramInv'
<1> PICK f : f = InSram
  OBVIOUS
<1> PICK g : g = InSram'
  OBVIOUS
<1>1. Same(f, g)
  OBVIOUS
<1>2. /\ Counts(usedSram, f, QueueOf, Queues)
      /\ Counts(priOnChipUsed, f, PriOf, Priorities)
      /\ Counts(priDpUsed, f, PortPriOf, PortPris)
  BY DEF SramInv
<1>3. /\ Counts(usedSram, g, QueueOf, Queues)
      /\ Counts(priOnChipUsed, g, PriOf, Priorities)
      /\ Counts(priDpUsed, g, PortPriOf, PortPris)
  BY <1>1, <1>2, CounterSame, KeyTypes
<1>4. SumFunctionOnSet(g, Packets) = SumFunctionOnSet(f, Packets)
  BY <1>1, TotalSame
<1>5. UNCHANGED <<onChipRemain, usedSram, priOnChipUsed, priDpUsed>>
  BY DEF sramVars
<1>6. onChipRemain \in Nat /\ onChipRemain = OnChipSize - SumFunctionOnSet(f, Packets)
  BY DEF SramInv
<1> QED BY <1>3, <1>4, <1>5, <1>6 DEF SramInv

(***************************************************************************)
(* The write cache and DRAM, likewise.                                     *)
(***************************************************************************)
LEMMA UseWcacheStep ==
  ASSUME CacheInv, NEW p \in Packets, NEW n \in Int, UseWcache(QueueOf[p], n),
         Adds(InCache, InCache', p, n)
  PROVE  CacheInv'
<1> PICK f : f = InCache
  OBVIOUS
<1> PICK g : g = InCache'
  OBVIOUS
<1>1. Adds(f, g, p, n)
  OBVIOUS
<1>2. PriOf[p] = QueueOf[p].pri
  BY DEF PriOf
<1>3. /\ wcacheQlen' = Plus(wcacheQlen, QueueOf[p], n)
      /\ priWcacheUsed' = Plus(priWcacheUsed, PriOf[p], n)
  BY <1>2 DEF UseWcache
<1>4. Counts(wcacheQlen, f, QueueOf, Queues) /\ Counts(priWcacheUsed, f, PriOf, Priorities)
  BY DEF CacheInv
<1>5. Counts(wcacheQlen', g, QueueOf, Queues) /\ Counts(priWcacheUsed', g, PriOf, Priorities)
  BY <1>1, <1>3, <1>4, CounterStep, KeyTypes
<1> QED BY <1>5 DEF CacheInv

LEMMA CacheFrame ==
  ASSUME CacheInv, UNCHANGED <<wcacheQlen, priWcacheUsed>>, Same(InCache, InCache')
  PROVE  CacheInv'
<1> PICK f : f = InCache
  OBVIOUS
<1> PICK g : g = InCache'
  OBVIOUS
<1>1. Counts(wcacheQlen, f, QueueOf, Queues) /\ Counts(priWcacheUsed, f, PriOf, Priorities) /\ Same(f, g)
  BY DEF CacheInv
<1>2. Counts(wcacheQlen, g, QueueOf, Queues) /\ Counts(priWcacheUsed, g, PriOf, Priorities)
  BY <1>1, CounterSame, KeyTypes
<1>3. wcacheQlen' = wcacheQlen /\ priWcacheUsed' = priWcacheUsed
  OBVIOUS
<1> QED BY <1>2, <1>3 DEF CacheInv

LEMMA UseDramStep ==
  ASSUME DramInv, NEW p \in Packets, NEW n \in Int, UseDram(QueueOf[p], n),
         Adds(InDram, InDram', p, n)
  PROVE  DramInv'
<1> PICK f : f = InDram
  OBVIOUS
<1> PICK g : g = InDram'
  OBVIOUS
<1>1. Adds(f, g, p, n)
  OBVIOUS
<1>2. PriOf[p] = QueueOf[p].pri
  BY DEF PriOf
<1>3. /\ dramQlen' = Plus(dramQlen, QueueOf[p], n)
      /\ priDramUsed' = Plus(priDramUsed, PriOf[p], n)
  BY <1>2 DEF UseDram
<1>4. Counts(dramQlen, f, QueueOf, Queues) /\ Counts(priDramUsed, f, PriOf, Priorities)
  BY DEF DramInv
<1>5. Counts(dramQlen', g, QueueOf, Queues) /\ Counts(priDramUsed', g, PriOf, Priorities)
  BY <1>1, <1>3, <1>4, CounterStep, KeyTypes
<1> QED BY <1>5 DEF DramInv

LEMMA DramFrame ==
  ASSUME DramInv, UNCHANGED <<dramQlen, priDramUsed>>, Same(InDram, InDram')
  PROVE  DramInv'
<1> PICK f : f = InDram
  OBVIOUS
<1> PICK g : g = InDram'
  OBVIOUS
<1>1. Counts(dramQlen, f, QueueOf, Queues) /\ Counts(priDramUsed, f, PriOf, Priorities) /\ Same(f, g)
  BY DEF DramInv
<1>2. Counts(dramQlen, g, QueueOf, Queues) /\ Counts(priDramUsed, g, PriOf, Priorities)
  BY <1>1, CounterSame, KeyTypes
<1>3. dramQlen' = dramQlen /\ priDramUsed' = priDramUsed
  OBVIOUS
<1> QED BY <1>2, <1>3 DEF DramInv

(***************************************************************************)
(* A port's active queues: one more when a queue gets its first bytes, one *)
(* less when it gives up its last.                                         *)
(***************************************************************************)
LEMMA ActiveStep ==
  ASSUME ActiveInv, qUsed \in [Queues -> Nat], NEW q \in Queues, NEW n \in Int, n # 0,
         qUsed' = Plus(qUsed, q, n), qUsed'[q] \in Nat,
         activeQueNum' = IF qUsed[q] = 0 THEN Plus(activeQueNum, q.port, 1)
                         ELSE IF qUsed'[q] = 0 THEN Plus(activeQueNum, q.port, -1)
                         ELSE activeQueNum
  PROVE  ActiveInv'
<1>1. /\ qUsed'[q] = qUsed[q] + n
      /\ \A r \in Queues \ {q} : qUsed'[r] = qUsed[r]
      /\ qUsed[q] \in Nat
  BY DEF Plus
<1>2. q.port \in Ports
  BY DEF Ports
<1>3. \A port \in Ports \ {q.port} : Busy(port)' = Busy(port)
  <2>1. ASSUME NEW port \in Ports \ {q.port}
        PROVE  Busy(port)' = Busy(port)
    <3>1. \A r \in Queues : r.port = port => qUsed'[r] = qUsed[r]
      BY <1>1
    <3> QED BY <3>1 DEF Busy
  <2> QED BY <2>1
<1>4. /\ activeQueNum \in [Ports -> Nat]
      /\ \A port \in Ports : IsFiniteSet(Busy(port)) /\ activeQueNum[port] = Cardinality(Busy(port))
  BY DEF ActiveInv
<1>5. CASE qUsed[q] = 0
  <2>1. Busy(q.port)' = Busy(q.port) \cup {q} /\ q \notin Busy(q.port)
    BY <1>1, <1>5 DEF Busy
  <2>2. /\ IsFiniteSet(Busy(q.port)')
        /\ Cardinality(Busy(q.port)') = Cardinality(Busy(q.port)) + 1
    BY <1>2, <1>4, <2>1, FS_AddElement
  <2>3. activeQueNum' = Plus(activeQueNum, q.port, 1)
    BY <1>5
  <2>4. /\ activeQueNum' \in [Ports -> Nat]
        /\ activeQueNum'[q.port] = activeQueNum[q.port] + 1
        /\ \A port \in Ports \ {q.port} : activeQueNum'[port] = activeQueNum[port]
    BY <1>2, <1>4, <2>3 DEF Plus
  <2>5. \A port \in Ports : /\ IsFiniteSet(Busy(port)')
                            /\ activeQueNum'[port] = Cardinality(Busy(port)')
    <3>1. ASSUME NEW port \in Ports
          PROVE  IsFiniteSet(Busy(port)') /\ activeQueNum'[port] = Cardinality(Busy(port)')
      <4>1. CASE port = q.port
        BY <1>4, <2>2, <2>4, <4>1
      <4>2. CASE port # q.port
        BY <1>3, <1>4, <2>4, <4>2
      <4> QED BY <4>1, <4>2
    <3> QED BY <3>1
  <2> QED BY <2>4, <2>5 DEF ActiveInv
<1>6. CASE qUsed[q] # 0 /\ qUsed'[q] = 0
  <2>1. Busy(q.port)' = Busy(q.port) \ {q} /\ q \in Busy(q.port)
    BY <1>1, <1>6 DEF Busy
  <2>2. /\ IsFiniteSet(Busy(q.port)')
        /\ Cardinality(Busy(q.port)') = Cardinality(Busy(q.port)) - 1
        /\ Cardinality(Busy(q.port)') \in Nat
    BY <1>2, <1>4, <2>1, FS_RemoveElement, FS_CardinalityType
  <2>3. activeQueNum' = Plus(activeQueNum, q.port, -1)
    BY <1>6
  <2>4. activeQueNum[q.port] - 1 \in Nat
    BY <1>2, <1>4, <2>2
  <2>5. /\ activeQueNum' \in [Ports -> Nat]
        /\ activeQueNum'[q.port] = activeQueNum[q.port] - 1
        /\ \A port \in Ports \ {q.port} : activeQueNum'[port] = activeQueNum[port]
    BY <1>2, <1>4, <2>3, <2>4 DEF Plus
  <2>6. \A port \in Ports : /\ IsFiniteSet(Busy(port)')
                            /\ activeQueNum'[port] = Cardinality(Busy(port)')
    <3>1. ASSUME NEW port \in Ports
          PROVE  IsFiniteSet(Busy(port)') /\ activeQueNum'[port] = Cardinality(Busy(port)')
      <4>1. CASE port = q.port
        BY <1>4, <2>2, <2>5, <4>1
      <4>2. CASE port # q.port
        BY <1>3, <1>4, <2>5, <4>2
      <4> QED BY <4>1, <4>2
    <3> QED BY <3>1
  <2> QED BY <2>5, <2>6 DEF ActiveInv
<1>7. CASE qUsed[q] # 0 /\ qUsed'[q] # 0
  <2>1. \A port \in Ports : Busy(port)' = Busy(port)
    <3>1. \A r \in Queues : (qUsed'[r] # 0) <=> (qUsed[r] # 0)
      BY <1>1, <1>7
    <3> QED BY <3>1 DEF Busy
  <2>2. activeQueNum' = activeQueNum
    BY <1>7
  <2> QED BY <1>4, <2>1, <2>2 DEF ActiveInv
<1> QED BY <1>5, <1>6, <1>7

(***************************************************************************)
(* A queue's charges: on admission and on fetch.                           *)
(***************************************************************************)
LEMMA ChargedFinite == IsFiniteSet(Charged) /\ Cardinality(Charged) \in Nat
BY BufferAssumption, FS_Subset, FS_CardinalityType DEF Charged

LEMMA QueueCounters ==
  ASSUME QueueInv, NEW p \in Packets, NEW n \in Int,
         qUsed' = Plus(qUsed, QueueOf[p], n),
         qlens' = Plus(qlens, PortIndex(QueueOf[p]), n),
         Adds(ForQueue, ForQueue', p, n)
  PROVE  /\ Counts(qUsed, ForQueue, QueueOf, Queues)'
         /\ Counts(qlens, ForQueue, PortIndexOf, PortIndices)'
         /\ qUsed \in [Queues -> Nat] /\ qUsed' \in [Queues -> Nat]
<1> PICK f : f = ForQueue
  OBVIOUS
<1> PICK g : g = ForQueue'
  OBVIOUS
<1>1. Adds(f, g, p, n)
  OBVIOUS
<1>2. PortIndexOf[p] = PortIndex(QueueOf[p])
  BY DEF PortIndexOf
<1>3. /\ qUsed' = Plus(qUsed, QueueOf[p], n)
      /\ qlens' = Plus(qlens, PortIndexOf[p], n)
  BY <1>2
<1>4. Counts(qUsed, f, QueueOf, Queues) /\ Counts(qlens, f, PortIndexOf, PortIndices)
  BY DEF QueueInv
<1>5. Counts(qUsed', g, QueueOf, Queues) /\ Counts(qlens', g, PortIndexOf, PortIndices)
  BY <1>1, <1>3, <1>4, CounterStep, KeyTypes
<1>6. qUsed \in [Queues -> Nat] /\ qUsed' \in [Queues -> Nat]
  BY <1>4, <1>5 DEF Counts
<1> QED BY <1>5, <1>6

LEMMA ChargeQueueStep ==
  ASSUME QueueInv, NEW p \in Packets, ChargeQueue(p), Adds(ForQueue, ForQueue', p, Size[p]),
         p \notin Charged, Charged' = Charged \cup {p}
  PROVE  QueueInv'
<1>1. Size[p] \in Nat \ {0} /\ QueueOf[p] \in Queues
  BY BufferAssumption, MmuAssumption
<1>2. /\ nPackets' = nPackets + 1
      /\ qUsed' = Plus(qUsed, QueueOf[p], Size[p])
      /\ qlens' = Plus(qlens, PortIndex(QueueOf[p]), Size[p])
      /\ activeQueNum' = IF qUsed[QueueOf[p]] = 0 THEN Plus(activeQueNum, QueueOf[p].port, 1)
                                                  ELSE activeQueNum
  BY DEF ChargeQueue
<1>3. /\ Counts(qUsed, ForQueue, QueueOf, Queues)'
      /\ Counts(qlens, ForQueue, PortIndexOf, PortIndices)'
      /\ qUsed \in [Queues -> Nat] /\ qUsed' \in [Queues -> Nat]
  BY <1>1, <1>2, QueueCounters
<1>4. nPackets' = Cardinality(Charged')
  BY <1>2, ChargedFinite, FS_AddElement DEF QueueInv
<1>5. ActiveInv'
  <2>1. qUsed'[QueueOf[p]] = qUsed[QueueOf[p]] + Size[p] /\ qUsed[QueueOf[p]] \in Nat
    BY <1>1, <1>2, <1>3 DEF Plus
  <2>2. qUsed'[QueueOf[p]] # 0 /\ qUsed'[QueueOf[p]] \in Nat
    BY <1>1, <2>1
  <2>3. activeQueNum' = IF qUsed[QueueOf[p]] = 0 THEN Plus(activeQueNum, QueueOf[p].port, 1)
                        ELSE IF qUsed'[QueueOf[p]] = 0 THEN Plus(activeQueNum, QueueOf[p].port, -1)
                        ELSE activeQueNum
    BY <1>2, <2>2
  <2>4. ActiveInv
    BY DEF QueueInv
  <2>5. Size[p] \in Int /\ Size[p] # 0
    BY <1>1
  <2> QED BY <1>1, <1>2, <1>3, <2>2, <2>3, <2>4, <2>5, ActiveStep
<1> QED BY <1>3, <1>4, <1>5 DEF QueueInv

LEMMA DischargeQueueStep ==
  ASSUME QueueInv, NEW p \in Packets, DischargeQueue(p), Adds(ForQueue, ForQueue', p, -Size[p]),
         p \in Charged, Charged' = Charged \ {p}
  PROVE  QueueInv'
<1>1. Size[p] \in Nat \ {0} /\ -Size[p] \in Int /\ -Size[p] # 0 /\ QueueOf[p] \in Queues
  <2>1. Size[p] \in Nat \ {0} /\ QueueOf[p] \in Queues
    BY BufferAssumption, MmuAssumption
  <2> QED BY <2>1
<1>2. /\ nPackets' = nPackets - 1
      /\ qUsed' = Plus(qUsed, QueueOf[p], -Size[p])
      /\ qlens' = Plus(qlens, PortIndex(QueueOf[p]), -Size[p])
      /\ activeQueNum' = IF qUsed'[QueueOf[p]] = 0 THEN Plus(activeQueNum, QueueOf[p].port, -1)
                                                   ELSE activeQueNum
  BY DEF DischargeQueue
<1>3. /\ Counts(qUsed, ForQueue, QueueOf, Queues)'
      /\ Counts(qlens, ForQueue, PortIndexOf, PortIndices)'
      /\ qUsed \in [Queues -> Nat] /\ qUsed' \in [Queues -> Nat]
  BY <1>1, <1>2, QueueCounters
<1>4. nPackets' = Cardinality(Charged')
  BY <1>2, ChargedFinite, FS_RemoveElement DEF QueueInv
<1>5. ActiveInv'
  <2>1. qUsed'[QueueOf[p]] = qUsed[QueueOf[p]] + (-Size[p]) /\ qUsed[QueueOf[p]] \in Nat
        /\ qUsed'[QueueOf[p]] \in Nat
    BY <1>1, <1>2, <1>3 DEF Plus
  <2>2. qUsed[QueueOf[p]] # 0
    BY <1>1, <2>1
  <2>3. activeQueNum' = IF qUsed[QueueOf[p]] = 0 THEN Plus(activeQueNum, QueueOf[p].port, 1)
                        ELSE IF qUsed'[QueueOf[p]] = 0 THEN Plus(activeQueNum, QueueOf[p].port, -1)
                        ELSE activeQueNum
    BY <1>2, <2>2
  <2>4. ActiveInv
    BY DEF QueueInv
  <2> QED BY <1>1, <1>2, <1>3, <2>1, <2>3, <2>4, ActiveStep
<1> QED BY <1>3, <1>4, <1>5 DEF QueueInv

LEMMA QueueFrame ==
  ASSUME QueueInv, UNCHANGED queueVars, Same(ForQueue, ForQueue'), Charged' = Charged
  PROVE  QueueInv'
<1> PICK f : f = ForQueue
  OBVIOUS
<1> PICK g : g = ForQueue'
  OBVIOUS
<1>1. Counts(qUsed, f, QueueOf, Queues) /\ Counts(qlens, f, PortIndexOf, PortIndices) /\ Same(f, g)
  BY DEF QueueInv
<1>2. Counts(qUsed, g, QueueOf, Queues) /\ Counts(qlens, g, PortIndexOf, PortIndices)
  BY <1>1, CounterSame, KeyTypes
<1>3. UNCHANGED <<qUsed, qlens, activeQueNum, nPackets>>
  BY DEF queueVars
<1>4. ActiveInv'
  BY <1>3 DEF QueueInv, ActiveInv, Busy
<1>5. nPackets' = Cardinality(Charged')
  BY <1>3 DEF QueueInv
<1> QED BY <1>2, <1>3, <1>4, <1>5 DEF QueueInv


-----------------------------------------------------------------------------
(***************************************************************************)
(* What each counter should hold of a packet follows from where the packet *)
(* is, how many of its bytes are in DRAM and whether it is being written.  *)
(***************************************************************************)
LEMMA BytesOf ==
  ASSUME PlacesInv, NEW p \in Packets
  PROVE  /\ InSram[p] = IF location[p] = "ONCHIPBUFFER" THEN Size[p] ELSE 0
         /\ ForQueue[p] = IF p \in Charged THEN Size[p] ELSE 0
         /\ InCache[p] = (IF InWcache(p) THEN Size[p] - stored[p] ELSE 0)
                           + (IF Writing(p) THEN stored[p] ELSE 0)
         /\ InDram[p] = IF Writing(p) THEN 0 ELSE stored[p]
         /\ Size[p] \in Nat \ {0} /\ stored[p] \in Nat /\ stored[p] <= Size[p]
<1>1. WriteEvents(p) # {} <=> Writing(p)
  BY PlacesCounted
<1>2. Size[p] \in Nat \ {0} /\ stored[p] \in Nat /\ stored[p] <= Size[p]
  BY BufferAssumption DEF PlacesInv, EngineInv, PacketsOK
<1>3. Moving(p) = IF Writing(p) THEN stored[p] ELSE 0
  BY <1>1 DEF Moving
<1>4. InCache[p] = (IF InWcache(p) THEN Size[p] - stored[p] ELSE 0) + Moving(p)
  BY DEF InCache
<1>5. InDram[p] = stored[p] - Moving(p)
  BY DEF InDram
<1>6. InDram[p] = IF Writing(p) THEN 0 ELSE stored[p]
  BY <1>2, <1>3, <1>5
<1> QED BY <1>2, <1>3, <1>4, <1>6 DEF InSram, ForQueue

LEMMA BytesAreSizes ==
  ASSUME PlacesInv
  PROVE  Sizing(InSram) /\ Sizing(ForQueue) /\ Sizing(InCache) /\ Sizing(InDram)
<1>1. \A p \in Packets : /\ InSram[p] \in Nat /\ ForQueue[p] \in Nat
                         /\ InCache[p] \in Nat /\ InDram[p] \in Nat
  <2>1. ASSUME NEW p \in Packets
        PROVE  /\ InSram[p] \in Nat /\ ForQueue[p] \in Nat
               /\ InCache[p] \in Nat /\ InDram[p] \in Nat
    BY BytesOf
  <2> QED BY <2>1
<1>2. /\ InSram = [p \in Packets |-> InSram[p]] /\ ForQueue = [p \in Packets |-> ForQueue[p]]
      /\ InCache = [p \in Packets |-> InCache[p]] /\ InDram = [p \in Packets |-> InDram[p]]
  BY DEF InSram, ForQueue, InCache, InDram
<1> QED BY <1>1, <1>2 DEF Sizing

BytesTrue ==
  /\ \A p \in Packets :
       /\ InSram[p] = IF location[p] = "ONCHIPBUFFER" THEN Size[p] ELSE 0
       /\ ForQueue[p] = IF p \in Charged THEN Size[p] ELSE 0
       /\ InCache[p] = (IF InWcache(p) THEN Size[p] - stored[p] ELSE 0)
                         + (IF Writing(p) THEN stored[p] ELSE 0)
       /\ InDram[p] = IF Writing(p) THEN 0 ELSE stored[p]
       /\ Size[p] \in Nat \ {0} /\ stored[p] \in Nat /\ stored[p] <= Size[p]
  /\ Sizing(InSram) /\ Sizing(ForQueue) /\ Sizing(InCache) /\ Sizing(InDram)

LEMMA PlacesGiveBytes == PlacesInv => BytesTrue
BY BytesOf, BytesAreSizes DEF BytesTrue

(***************************************************************************)
(* A packet the step leaves alone.                                         *)
(***************************************************************************)
Untouched(q) ==
  /\ location'[q] = location[q] /\ stored'[q] = stored[q] /\ stage'[q] = stage[q]
  /\ Writing(q)' <=> Writing(q)

LEMMA UntouchedBytes ==
  ASSUME PlacesInv, PlacesInv', NEW q \in Packets, Untouched(q)
  PROVE  /\ InSram'[q] = InSram[q] /\ ForQueue'[q] = ForQueue[q]
         /\ InCache'[q] = InCache[q] /\ InDram'[q] = InDram[q]
         /\ (q \in Charged') <=> (q \in Charged)
<1>1. (q \in Charged') <=> (q \in Charged)
  BY DEF Untouched, Charged, Fetched
<1>2. InWcache(q)' <=> InWcache(q)
  BY DEF Untouched, InWcache
<1> BytesTrue'
  BY PlacesGiveBytes, PTL
<1>3. /\ InSram'[q] = IF location'[q] = "ONCHIPBUFFER" THEN Size[q] ELSE 0
      /\ ForQueue'[q] = IF q \in Charged' THEN Size[q] ELSE 0
      /\ InCache'[q] = (IF InWcache(q)' THEN Size[q] - stored'[q] ELSE 0)
                         + (IF Writing(q)' THEN stored'[q] ELSE 0)
      /\ InDram'[q] = IF Writing(q)' THEN 0 ELSE stored'[q]
  BY DEF BytesTrue
<1>4. /\ InSram[q] = IF location[q] = "ONCHIPBUFFER" THEN Size[q] ELSE 0
      /\ ForQueue[q] = IF q \in Charged THEN Size[q] ELSE 0
      /\ InCache[q] = (IF InWcache(q) THEN Size[q] - stored[q] ELSE 0)
                        + (IF Writing(q) THEN stored[q] ELSE 0)
      /\ InDram[q] = IF Writing(q) THEN 0 ELSE stored[q]
  BY BytesOf
<1> QED BY <1>1, <1>2, <1>3, <1>4 DEF Untouched

(***************************************************************************)
(* A step that touches p alone changes each count by what it changes of p. *)
(***************************************************************************)
TouchesOnly(p) == \A q \in Packets \ {p} : Untouched(q)

LEMMA OnePacketChanges ==
  ASSUME PlacesInv, PlacesInv', NEW p \in Packets, TouchesOnly(p)
  PROVE  /\ \A n : InSram'[p] = InSram[p] + n => Adds(InSram, InSram', p, n)
         /\ \A n : ForQueue'[p] = ForQueue[p] + n => Adds(ForQueue, ForQueue', p, n)
         /\ \A n : InCache'[p] = InCache[p] + n => Adds(InCache, InCache', p, n)
         /\ \A n : InDram'[p] = InDram[p] + n => Adds(InDram, InDram', p, n)
         /\ InSram'[p] = InSram[p] => Same(InSram, InSram')
         /\ ForQueue'[p] = ForQueue[p] => Same(ForQueue, ForQueue')
         /\ InCache'[p] = InCache[p] => Same(InCache, InCache')
         /\ InDram'[p] = InDram[p] => Same(InDram, InDram')
         /\ \A q \in Packets \ {p} : (q \in Charged') <=> (q \in Charged)
<1>1. \A q \in Packets \ {p} : /\ InSram'[q] = InSram[q] /\ ForQueue'[q] = ForQueue[q]
                               /\ InCache'[q] = InCache[q] /\ InDram'[q] = InDram[q]
                               /\ (q \in Charged') <=> (q \in Charged)
  <2>1. ASSUME NEW q \in Packets \ {p}
        PROVE  /\ InSram'[q] = InSram[q] /\ ForQueue'[q] = ForQueue[q]
               /\ InCache'[q] = InCache[q] /\ InDram'[q] = InDram[q]
               /\ (q \in Charged') <=> (q \in Charged)
    <3>1. Untouched(q) /\ q \in Packets
      BY Zenon DEF TouchesOnly
    <3> QED BY <3>1, UntouchedBytes
  <2> QED BY <2>1
<1>2. Sizing(InSram) /\ Sizing(ForQueue) /\ Sizing(InCache) /\ Sizing(InDram)
  BY BytesAreSizes
<1>3. Sizing(InSram)' /\ Sizing(ForQueue)' /\ Sizing(InCache)' /\ Sizing(InDram)'
  <2>1. BytesTrue'
    BY PlacesGiveBytes, PTL
  <2> QED BY <2>1 DEF BytesTrue
<1>4. Sizing(InSram') /\ Sizing(ForQueue') /\ Sizing(InCache') /\ Sizing(InDram')
  BY <1>3 DEF Sizing
<1>5. /\ \A n : InSram'[p] = InSram[p] + n => Adds(InSram, InSram', p, n)
      /\ InSram'[p] = InSram[p] => Same(InSram, InSram')
  BY <1>1, <1>2, <1>4, Zenon DEF Adds, Same
<1>6. /\ \A n : ForQueue'[p] = ForQueue[p] + n => Adds(ForQueue, ForQueue', p, n)
      /\ ForQueue'[p] = ForQueue[p] => Same(ForQueue, ForQueue')
  BY <1>1, <1>2, <1>4, Zenon DEF Adds, Same
<1>7. /\ \A n : InCache'[p] = InCache[p] + n => Adds(InCache, InCache', p, n)
      /\ InCache'[p] = InCache[p] => Same(InCache, InCache')
  BY <1>1, <1>2, <1>4, Zenon DEF Adds, Same
<1>8. /\ \A n : InDram'[p] = InDram[p] + n => Adds(InDram, InDram', p, n)
      /\ InDram'[p] = InDram[p] => Same(InDram, InDram')
  BY <1>1, <1>2, <1>4, Zenon DEF Adds, Same
<1> QED BY <1>1, <1>5, <1>6, <1>7, <1>8

-----------------------------------------------------------------------------
(***************************************************************************)
(* The callers' calls leave the cycle under way alone.                     *)
(***************************************************************************)
LEMMA RequestsKeepAtomics ==
  ASSUME EngineInv
  PROVE  /\ \A op, p : SendRequest(op, p) => Atomics' = Atomics
         /\ \A p : CancelRequest(p) => Atomics' = Atomics
         /\ RequestArrives => Atomics' = Atomics
<1>1. EngineOK /\ wrr \in WrrState
  BY Zenon DEF EngineInv, EngineOK
<1>2. KickIfIdle => Atomics' = Atomics
  BY <1>1, KickKeepsAtomics
<1>3. UNCHANGED engineVars => Atomics' = Atomics
  BY DEF engineVars, Atomics
<1>4. \A p : SendWriteRequestComplete(p) => Atomics' = Atomics
  <2>1. \A p : SendWriteRequestComplete(p) => UNCHANGED engineVars \/ KickIfIdle
    BY Zenon DEF SendWriteRequestComplete
  <2> QED BY <1>2, <1>3, <2>1, Zenon
<1>5. \A p : SendReadRequestComplete(p) => Atomics' = Atomics
  BY <1>2, Zenon DEF SendReadRequestComplete
<1>6. ScheduleCycle(CancelWait(events)) => Atomics' = Atomics
  <2>1. ASSUME ScheduleCycle(CancelWait(events))
        PROVE  Atomics' = Atomics
    <3>1. Atomics' = {e \in CancelWait(events) : e.at = "CycleAtomic"}
      BY <1>1, <2>1, ScheduleCycleStep, ScheduledAtomics, Zenon
    <3> QED BY <3>1 DEF CancelWait, InterWriteReqWaitEvent, CycleStart, Atomics
  <2> QED BY <2>1
<1>7. \A op, p : SendRequest(op, p) => Atomics' = Atomics
  <2>1. \A op, p : SendRequest(op, p) =>
          UNCHANGED engineVars \/ SendWriteRequestComplete(p) \/ SendReadRequestComplete(p)
    BY Zenon DEF SendRequest
  <2> QED BY <1>3, <1>4, <1>5, <2>1, Zenon
<1>8. \A p : CancelRequest(p) => Atomics' = Atomics
  <2>1. \A p : CancelRequest(p) => UNCHANGED engineVars \/ ScheduleCycle(CancelWait(events))
    BY Zenon DEF CancelRequest, EraseWriteRequest
  <2> QED BY <1>3, <1>6, <2>1, Zenon
<1>9. RequestArrives => Atomics' = Atomics
  BY <1>4, <1>5, Zenon DEF RequestArrives
<1> QED BY <1>7, <1>8, <1>9

LEMMA WritingKept ==
  ASSUME Atomics' = Atomics
  PROVE  \A q : Writing(q)' <=> Writing(q)
BY Zenon DEF Writing

(***************************************************************************)
(* An event of a cycle touches the packet it is about, and leaves at most  *)
(* the next event of the same cycle.                                       *)
(***************************************************************************)
LEMMA CycleTouches ==
  ASSUME PacketsOK, wrr \in WrrState, NEW p \in Packets, NEW result \in {"PKTWRITE", "PKTREAD"},
         NEW left \in Nat, NEW writing, ScheduleCycleAtomic(p, result, left, {}, writing)
  PROVE  /\ \A q \in Packets \ {p} : location'[q] = location[q] /\ stored'[q] = stored[q] /\ ~Writing(q)'
         /\ CycleIsOver(left) => stored'[p] = stored[p] /\ ~Writing(p)'
         /\ CycleIsOver(left) /\ result = "PKTWRITE" => location'[p] = location[p]
         /\ CycleIsOver(left) /\ result = "PKTREAD" => location'[p] = "NOTINBUFFER"
         /\ ~CycleIsOver(left) /\ result = "PKTWRITE" => Writing(p)'
         /\ ~CycleIsOver(left) /\ result = "PKTREAD" =>
              ~Writing(p)' /\ location'[p] = location[p] /\ stored'[p] = 0
<1>1. location \in [Packets -> Locations] /\ stored \in [Packets -> Nat]
  BY DEF PacketsOK
<1>2. CASE CycleIsOver(left)
  <2>1. CycleComplete(p, result, left, {}, writing)
    BY <1>2, Zenon DEF ScheduleCycleAtomic
  <2>2. /\ stored' = stored /\ ScheduleCycle({})
        /\ result = "PKTREAD" => location' = [location EXCEPT ![p] = "NOTINBUFFER"]
        /\ result = "PKTWRITE" => location' = location
    BY <2>1, Zenon DEF CycleComplete, FetchComplete
  <2>3. Atomics' = {}
    BY <2>2, NoAtomicsAfterDecision
  <2>4. \A q : ~Writing(q)'
    BY <2>3 DEF Writing
  <2>5. \A q \in Packets \ {p} : location'[q] = location[q] /\ stored'[q] = stored[q]
    BY <1>1, <2>2
  <2>6. result = "PKTREAD" => location'[p] = "NOTINBUFFER"
    BY <1>1, <2>2
  <2> QED BY <1>2, <2>2, <2>4, <2>5, <2>6
<1>3. CASE ~CycleIsOver(left) /\ result = "PKTWRITE"
  <2>1. AtomicWrite(p, left, {}, writing)
    BY <1>3, Zenon DEF ScheduleCycleAtomic
  <2>2. PICK n, l, k :
          /\ stored' = [stored EXCEPT ![p] = n]
          /\ location' = [location EXCEPT ![p] = l]
          /\ events' = {CycleAtomic(p, "PKTWRITE", k)}
    <3>1. \E n : stored' = [stored EXCEPT ![p] = n]
      BY <2>1, Zenon DEF AtomicWrite
    <3>2. \E l : location' = [location EXCEPT ![p] = l]
      BY <2>1, Zenon DEF AtomicWrite
    <3>3. \E k : events' = {CycleAtomic(p, "PKTWRITE", k)}
      <4>1. events' = {} \cup {CycleAtomic(p, "PKTWRITE", left - OpsNow(left))}
        BY <2>1, Zenon DEF AtomicWrite
      <4>2. events' = {CycleAtomic(p, "PKTWRITE", left - OpsNow(left))}
        BY <4>1, Zenon
      <4> QED BY <4>2
    <3> QED BY <3>1, <3>2, <3>3
  <2>3. Atomics' = {CycleAtomic(p, "PKTWRITE", k)}
    BY <2>2 DEF Atomics, CycleAtomic
  <2>4. Writing(p)' /\ \A q \in Packets \ {p} : ~Writing(q)'
    BY <2>3 DEF Writing, CycleAtomic
  <2> QED BY <1>1, <1>3, <2>2, <2>4
<1>4. CASE ~CycleIsOver(left) /\ result = "PKTREAD"
  <2>1. AtomicRead(p, {}, writing)
    BY <1>4, Zenon DEF ScheduleCycleAtomic
  <2>2. /\ stored' = [stored EXCEPT ![p] = 0]
        /\ location' = location
        /\ events' = {} \cup {CycleAtomic(p, "PKTREAD", 0)}
    BY <2>1, Zenon DEF AtomicRead
  <2>3. Atomics' = {CycleAtomic(p, "PKTREAD", 0)}
    BY <2>2 DEF Atomics, CycleAtomic
  <2>4. \A q : ~Writing(q)'
    BY <2>3 DEF Writing, CycleAtomic
  <2> QED BY <1>1, <1>4, <2>2, <2>4
<1> QED BY <1>2, <1>3, <1>4

(***************************************************************************)
(* What such an event reports to the counters is what it moves.            *)
(***************************************************************************)
CountersInv == SramInv /\ QueueInv /\ CacheInv /\ DramInv

LEMMA CycleCounters ==
  ASSUME PlacesInv, PlacesInv', CountersInv,
         NEW p \in Packets, NEW result \in {"PKTWRITE", "PKTREAD"}, NEW left \in Nat, NEW writing,
         ScheduleCycleAtomic(p, result, left, {}, writing), Report(p, result, left),
         stage' = stage, UNCHANGED sramVars,
         \A q \in Packets \ {p} : ~Writing(q),
         result = "PKTREAD" => stage[p] = "asked" /\ InOffChipBuffer(p) /\ ~Writing(p),
         result = "PKTWRITE" => \/ Writing(p)
                                \/ ~CycleIsOver(left) /\ location[p] = "WCACHE",
         result = "PKTWRITE" /\ ~CycleIsOver(left) =>
           stage[p] = "stored" /\ location[p] \in {"WCACHE", "WRITINGTOOFFCHIPBUFFER"}
  PROVE  CountersInv'
<1>1. PacketsOK /\ wrr \in WrrState
  BY Zenon DEF PlacesInv, EngineInv, EngineOK
<1>2. /\ \A q \in Packets \ {p} : location'[q] = location[q] /\ stored'[q] = stored[q] /\ ~Writing(q)'
      /\ CycleIsOver(left) => stored'[p] = stored[p] /\ ~Writing(p)'
      /\ CycleIsOver(left) /\ result = "PKTWRITE" => location'[p] = location[p]
      /\ CycleIsOver(left) /\ result = "PKTREAD" => location'[p] = "NOTINBUFFER"
      /\ ~CycleIsOver(left) /\ result = "PKTWRITE" => Writing(p)'
      /\ ~CycleIsOver(left) /\ result = "PKTREAD" =>
           ~Writing(p)' /\ location'[p] = location[p] /\ stored'[p] = 0
  BY <1>1, CycleTouches
<1>3. TouchesOnly(p)
  BY <1>2 DEF TouchesOnly, Untouched
<1>4. BytesTrue /\ BytesTrue'
  BY PlacesGiveBytes, PTL
<1>5. /\ InSram[p] = IF location[p] = "ONCHIPBUFFER" THEN Size[p] ELSE 0
      /\ ForQueue[p] = IF p \in Charged THEN Size[p] ELSE 0
      /\ InCache[p] = (IF InWcache(p) THEN Size[p] - stored[p] ELSE 0)
                        + (IF Writing(p) THEN stored[p] ELSE 0)
      /\ InDram[p] = IF Writing(p) THEN 0 ELSE stored[p]
      /\ Size[p] \in Nat \ {0} /\ stored[p] \in Nat /\ stored[p] <= Size[p]
  BY <1>4 DEF BytesTrue
<1>6. /\ InSram'[p] = IF location'[p] = "ONCHIPBUFFER" THEN Size[p] ELSE 0
      /\ ForQueue'[p] = IF p \in Charged' THEN Size[p] ELSE 0
      /\ InCache'[p] = (IF InWcache(p)' THEN Size[p] - stored'[p] ELSE 0)
                         + (IF Writing(p)' THEN stored'[p] ELSE 0)
      /\ InDram'[p] = IF Writing(p)' THEN 0 ELSE stored'[p]
      /\ stored'[p] \in Nat /\ stored'[p] <= Size[p]
  BY <1>4 DEF BytesTrue
<1>7. Writing(p) => location[p] \in {"WRITINGTOOFFCHIPBUFFER", "OFFCHIPBUFFER"}
  BY DEF PlacesInv, WritingIsTrue, WriteCycle, Writing
<1>8. Writing(p)' => location'[p] \in {"WRITINGTOOFFCHIPBUFFER", "OFFCHIPBUFFER"}
  BY DEF PlacesInv, WritingIsTrue, WriteCycle, Writing
<1>9. LocationIsTrue(p) /\ LocationIsTrue(p)'
  BY DEF PlacesInv, Placed
<1> HIDE DEF InSram, ForQueue, InCache, InDram
<1>10. CASE CycleIsOver(left) /\ result = "PKTWRITE"
  <2>1. WriteDramComplete(p) /\ UNCHANGED queueVars
    BY <1>10, Zenon DEF Report
  <2>2. UseDram(QueueOf[p], stored[p]) /\ UseWcache(QueueOf[p], -stored[p])
    BY <2>1, Zenon DEF WriteDramComplete
  <2>3. Writing(p) /\ ~Writing(p)' /\ stored'[p] = stored[p] /\ location'[p] = location[p]
    BY <1>2, <1>10
  <2>4. (InWcache(p)' <=> InWcache(p)) /\ ((p \in Charged') <=> (p \in Charged))
    BY <2>3 DEF InWcache, Charged, Fetched
  <2>5. /\ InSram'[p] = InSram[p] /\ ForQueue'[p] = ForQueue[p]
        /\ InCache'[p] = InCache[p] + (-stored[p]) /\ InDram'[p] = InDram[p] + stored[p]
    BY <1>5, <1>6, <2>3, <2>4
  <2>6. /\ Same(InSram, InSram') /\ Same(ForQueue, ForQueue') /\ Charged' = Charged
        /\ Adds(InCache, InCache', p, -stored[p]) /\ Adds(InDram, InDram', p, stored[p])
    <3>1. /\ Same(InSram, InSram') /\ Same(ForQueue, ForQueue')
          /\ Adds(InCache, InCache', p, -stored[p]) /\ Adds(InDram, InDram', p, stored[p])
          /\ \A q \in Packets \ {p} : (q \in Charged') <=> (q \in Charged)
      BY <1>3, <2>5, OnePacketChanges
    <3> QED BY <2>4, <3>1 DEF Charged
  <2>7. SramInv' /\ QueueInv'
    BY <2>1, <2>6, SramFrame, QueueFrame DEF CountersInv
  <2>8. -stored[p] \in Int /\ stored[p] \in Int
    BY <1>5
  <2>9. CacheInv'
    BY <2>2, <2>6, <2>8, UseWcacheStep DEF CountersInv
  <2>10. DramInv'
    BY <2>2, <2>6, <2>8, UseDramStep DEF CountersInv
  <2> QED BY <2>7, <2>9, <2>10 DEF CountersInv
<1>11. CASE CycleIsOver(left) /\ result = "PKTREAD"
  <2>1. DischargeQueue(p) /\ UNCHANGED offChipVars
    BY <1>11, Zenon DEF Report
  <2>2. /\ stage[p] = "asked" /\ InOffChipBuffer(p) /\ ~Writing(p) /\ ~Writing(p)'
        /\ stored'[p] = stored[p] /\ location'[p] = "NOTINBUFFER"
    BY <1>2, <1>11
  <2>3. p \in Charged /\ p \notin Charged' /\ ~InWcache(p) /\ ~InWcache(p)'
    BY <2>2 DEF InWcache, Charged, Fetched, InOffChipBuffer
  <2>4. location[p] # "ONCHIPBUFFER"
    BY <2>2 DEF InOffChipBuffer
  <2>5. /\ InSram'[p] = InSram[p] /\ ForQueue'[p] = ForQueue[p] + (-Size[p])
        /\ InCache'[p] = InCache[p] /\ InDram'[p] = InDram[p]
    BY <1>5, <1>6, <2>2, <2>3, <2>4
  <2>6. /\ Same(InSram, InSram') /\ Adds(ForQueue, ForQueue', p, -Size[p]) /\ Charged' = Charged \ {p}
        /\ Same(InCache, InCache') /\ Same(InDram, InDram')
    <3>1. /\ Same(InSram, InSram') /\ Adds(ForQueue, ForQueue', p, -Size[p])
          /\ Same(InCache, InCache') /\ Same(InDram, InDram')
          /\ \A q \in Packets \ {p} : (q \in Charged') <=> (q \in Charged)
      BY <1>3, <2>5, OnePacketChanges
    <3> QED BY <2>3, <3>1 DEF Charged
  <2>7. UNCHANGED <<wcacheQlen, priWcacheUsed>> /\ UNCHANGED <<dramQlen, priDramUsed>>
    BY <2>1 DEF offChipVars
  <2>8. SramInv' /\ CacheInv' /\ DramInv'
    BY <2>6, <2>7, SramFrame, CacheFrame, DramFrame DEF CountersInv
  <2>9. QueueInv'
    BY <2>1, <2>3, <2>6, DischargeQueueStep DEF CountersInv
  <2> QED BY <2>8, <2>9 DEF CountersInv
<1>12. CASE ~CycleIsOver(left) /\ result = "PKTWRITE"
  <2>1. UNCHANGED queueVars /\ UNCHANGED offChipVars
    BY <1>12, Zenon DEF Report
  <2>2. /\ stage[p] = "stored" /\ stage'[p] = "stored" /\ Writing(p)'
        /\ location[p] \in {"WCACHE", "WRITINGTOOFFCHIPBUFFER"}
        /\ location'[p] \in {"WRITINGTOOFFCHIPBUFFER", "OFFCHIPBUFFER"}
        /\ Writing(p) \/ location[p] = "WCACHE"
    BY <1>2, <1>8, <1>12
  <2>3. InWcache(p) /\ (InWcache(p)' <=> location'[p] = "WRITINGTOOFFCHIPBUFFER")
    BY <2>2 DEF InWcache
  <2>4. p \in Charged /\ p \in Charged'
    BY <2>2 DEF Charged, Fetched
  <2>5. location[p] = "WCACHE" => stored[p] = 0 /\ ~Writing(p)
    BY <1>7, <1>9 DEF LocationIsTrue
  <2>6. location'[p] = "OFFCHIPBUFFER" => stored'[p] = Size[p]
    BY <1>9, <2>2 DEF LocationIsTrue
  <2>7. InCache[p] = Size[p] /\ InDram[p] = 0
    BY <1>5, <2>2, <2>3, <2>5
  <2>8. InCache'[p] = Size[p] /\ InDram'[p] = 0
    BY <1>6, <1>5, <2>2, <2>3, <2>6
  <2>9. InSram'[p] = InSram[p] /\ ForQueue'[p] = ForQueue[p]
    BY <1>5, <1>6, <2>2, <2>4
  <2>10. /\ Same(InSram, InSram') /\ Same(ForQueue, ForQueue') /\ Charged' = Charged
         /\ Same(InCache, InCache') /\ Same(InDram, InDram')
    <3>1. /\ Same(InSram, InSram') /\ Same(ForQueue, ForQueue')
          /\ Same(InCache, InCache') /\ Same(InDram, InDram')
          /\ \A q \in Packets \ {p} : (q \in Charged') <=> (q \in Charged)
      BY <1>3, <2>7, <2>8, <2>9, OnePacketChanges
    <3> QED BY <2>4, <3>1 DEF Charged
  <2>11. UNCHANGED <<wcacheQlen, priWcacheUsed>> /\ UNCHANGED <<dramQlen, priDramUsed>>
    BY <2>1 DEF offChipVars
  <2> QED BY <2>1, <2>10, <2>11, SramFrame, QueueFrame, CacheFrame, DramFrame DEF CountersInv
<1>13. CASE ~CycleIsOver(left) /\ result = "PKTREAD"
  <2>1. UNCHANGED queueVars /\ ReadDramComplete(p)
    BY <1>13, Zenon DEF Report
  <2>2. UseDram(QueueOf[p], -stored[p]) /\ UNCHANGED <<wcacheQlen, priWcacheUsed>>
    BY <2>1, Zenon DEF ReadDramComplete
  <2>3. /\ stage[p] = "asked" /\ InOffChipBuffer(p) /\ ~Writing(p) /\ ~Writing(p)'
        /\ stored'[p] = 0 /\ location'[p] = location[p]
    BY <1>2, <1>13
  <2>4. ((p \in Charged') <=> (p \in Charged)) /\ ~InWcache(p) /\ ~InWcache(p)'
    BY <2>3 DEF InWcache, Charged, Fetched, InOffChipBuffer
  <2>5. /\ InSram'[p] = InSram[p] /\ ForQueue'[p] = ForQueue[p]
        /\ InCache'[p] = InCache[p] /\ InDram'[p] = InDram[p] + (-stored[p])
    BY <1>5, <1>6, <2>3, <2>4
  <2>6. /\ Same(InSram, InSram') /\ Same(ForQueue, ForQueue') /\ Charged' = Charged
        /\ Same(InCache, InCache') /\ Adds(InDram, InDram', p, -stored[p])
    <3>1. /\ Same(InSram, InSram') /\ Same(ForQueue, ForQueue')
          /\ Same(InCache, InCache') /\ Adds(InDram, InDram', p, -stored[p])
          /\ \A q \in Packets \ {p} : (q \in Charged') <=> (q \in Charged)
      BY <1>3, <2>5, OnePacketChanges
    <3> QED BY <2>4, <3>1 DEF Charged
  <2>7. SramInv' /\ QueueInv' /\ CacheInv'
    BY <2>1, <2>2, <2>6, SramFrame, QueueFrame, CacheFrame DEF CountersInv
  <2>8. -stored[p] \in Int
    BY <1>5
  <2>9. DramInv'
    BY <2>2, <2>6, <2>8, UseDramStep DEF CountersInv
  <2> QED BY <2>7, <2>9 DEF CountersInv
<1> QED BY <1>10, <1>11, <1>12, <1>13

-----------------------------------------------------------------------------
(***************************************************************************)
(* SRAM takes and gives back packets the off-chip buffer knows nothing of. *)
(***************************************************************************)
OnChipOnly(p) ==
  /\ UNCHANGED <<stored, channel, writeVec, readVec, counterVars, engineVars, writingVars>>
  /\ \A q \in Packets \ {p} : location'[q] = location[q] /\ stage'[q] = stage[q]
  /\ location' \in [Packets -> Locations]
  /\ stage' \in [Packets -> {"new", "stored", "asked"}]

LEMMA OnChipKeepsPlaces ==
  ASSUME PlacesInv, MemoryInv, NEW p \in Packets, OnChipOnly(p),
         ~WriteSent(p) /\ ~WriteWaits(p) /\ ~ReadSent(p) /\ ~ReadWaits(p) /\ ~Reading(p) /\ ~Writing(p),
         stored[p] = 0, ~InWcache(p), ~InWcache(p)',
         \/ location'[p] = "ONCHIPBUFFER" /\ stage'[p] = "stored"
         \/ location'[p] = "NOTINBUFFER" /\ stage'[p] = "asked"
  PROVE  PlacesInv' /\ MemoryInv' /\ TouchesOnly(p) /\ ~Writing(p)'
<1>1. /\ stored' = stored /\ channel' = channel /\ writeVec' = writeVec /\ readVec' = readVec
      /\ UNCHANGED counterVars /\ UNCHANGED engineVars /\ UNCHANGED writingVars
      /\ \A q \in Packets \ {p} : location'[q] = location[q] /\ stage'[q] = stage[q]
      /\ location' \in [Packets -> Locations]
      /\ stage' \in [Packets -> {"new", "stored", "asked"}]
  BY Zenon DEF OnChipOnly
<1>2. events' = events /\ state' = state /\ wrr' = wrr /\ Atomics' = Atomics
  BY <1>1 DEF engineVars, Atomics
<1>3. EngineInv /\ PacketsOK /\ QueuesOK /\ EngineOK /\ NoDuplicates /\ WritingIsTrue
  BY Zenon DEF PlacesInv, EngineInv
<1>4. \A q : /\ WriteSent(q)' <=> WriteSent(q)
             /\ WriteWaits(q)' <=> WriteWaits(q)
             /\ ReadSent(q)' <=> ReadSent(q)
             /\ ReadWaits(q)' <=> ReadWaits(q)
             /\ Reading(q)' <=> Reading(q)
             /\ Writing(q)' <=> Writing(q)
  BY <1>1, <1>2, Zenon DEF WriteSent, WriteWaits, ReadSent, ReadWaits, Reading, Writing
<1>5. EngineInv'
  <2>1. PacketsOK'
    BY <1>1, <1>3 DEF PacketsOK, counterVars, writingVars
  <2>2. QueuesOK'
    BY <1>1, <1>3, Zenon DEF QueuesOK
  <2>3. EngineOK'
    BY <1>1, <1>2, <1>3, Zenon DEF EngineOK
  <2> QED BY <1>1, <2>1, <2>2, <2>3, Zenon DEF EngineInv
<1>6. NoDuplicates'
  BY <1>1, <1>3, Zenon DEF NoDuplicates
<1>7. WritingIsTrue'
  <2>1. \A e \in Atomics : e.result = "PKTWRITE" => e.packet \in Packets \ {p}
    BY <1>3, OneCycle DEF Writing, AtomicEvents
  <2>2. \A e \in Atomics : e.result = "PKTWRITE" =>
          /\ location'[e.packet] = location[e.packet]
          /\ stored'[e.packet] = stored[e.packet]
          /\ stage'[e.packet] = stage[e.packet]
    BY <1>1, <2>1, Zenon
  <2> QED BY <1>1, <1>2, <1>3, <2>2, WritingFrame
<1>8. ASSUME NEW q \in Packets
      PROVE  Placed(q)'
  <2>1. CASE q = p
    <3>1. /\ ~WriteSent(p)' /\ ~WriteWaits(p)' /\ ~ReadSent(p)' /\ ~ReadWaits(p)'
          /\ ~Reading(p)' /\ stored'[p] = 0
      BY <1>1, <1>4
    <3>2. WritePlaces(p)'
      BY <3>1, Zenon DEF WritePlaces
    <3>3. ~(stage'[p] = "asked" /\ InOffChipBuffer(p)')
      BY DEF InOffChipBuffer
    <3>4. ReadPlaces(p)'
      BY <3>1, <3>3, Zenon DEF ReadPlaces
    <3>5. LocationIsTrue(p)'
      BY <3>1 DEF LocationIsTrue
    <3> QED BY <2>1, <3>2, <3>4, <3>5 DEF Placed
  <2>2. CASE q # p
    <3>1. SamePlace(q)
      BY <1>1, <1>4, <2>2, Zenon DEF SamePlace
    <3>2. Placed(q)
      BY Zenon DEF PlacesInv
    <3> QED BY <3>1, <3>2, PlacedFrame
  <2> QED BY <2>1, <2>2
<1>9. MemoryInv'
  <2>1. \A q \in Packets : InWcache(q)' <=> InWcache(q)
    <3>1. \A q \in Packets \ {p} : InWcache(q)' <=> InWcache(q)
      BY <1>1 DEF InWcache
    <3> QED BY <3>1
  <2> QED BY <1>1, <1>3, <2>1, MemoryFrame
<1>10. TouchesOnly(p)
  BY <1>1, <1>4 DEF TouchesOnly, Untouched
<1>11. ~Writing(p)'
  BY <1>4
<1> QED BY <1>5, <1>6, <1>7, <1>8, <1>9, <1>10, <1>11 DEF PlacesInv

LEMMA StoreOnChipStep ==
  ASSUME PlacesInv, MemoryInv, CountersInv, NEW p \in Packets, stage[p] = "new", StoreOnChip(p)
  PROVE  PlacesInv' /\ MemoryInv' /\ CountersInv'
<1>1. /\ EngineInv /\ PacketsOK /\ WritePlaces(p) /\ ReadPlaces(p) /\ LocationIsTrue(p)
      /\ location \in [Packets -> Locations] /\ stage \in [Packets -> {"new", "stored", "asked"}]
  BY Zenon DEF PlacesInv, Placed, EngineInv, PacketsOK
<1>2. /\ Size[p] <= onChipRemain
      /\ stage' = [stage EXCEPT ![p] = "stored"] /\ location' = [location EXCEPT ![p] = "ONCHIPBUFFER"]
      /\ UseSram(QueueOf[p], Size[p]) /\ ChargeQueue(p)
      /\ UNCHANGED <<stored, channel, writeVec, readVec, counterVars, engineVars, writingVars>>
      /\ UNCHANGED <<wcacheQlen, priWcacheUsed>> /\ UNCHANGED <<dramQlen, priDramUsed>>
  BY Zenon DEF StoreOnChip, Fits, offChipVars
<1>3. /\ \A q \in Packets \ {p} : location'[q] = location[q] /\ stage'[q] = stage[q]
      /\ location' \in [Packets -> Locations] /\ location'[p] = "ONCHIPBUFFER"
      /\ stage' \in [Packets -> {"new", "stored", "asked"}] /\ stage'[p] = "stored"
  BY <1>1, <1>2 DEF Locations
<1>4. OnChipOnly(p)
  BY <1>2, <1>3, Zenon DEF OnChipOnly
<1>5. location[p] = "NOTINBUFFER" /\ stored[p] = 0
  BY <1>1 DEF LocationIsTrue
<1>6. ~Writing(p)
  BY <1>5 DEF PlacesInv, WritingIsTrue, WriteCycle, Writing
<1>7. ~WriteSent(p) /\ ~WriteWaits(p) /\ ~ReadSent(p) /\ ~ReadWaits(p) /\ ~Reading(p)
  BY <1>1 DEF WritePlaces, ReadPlaces
<1>8. ~InWcache(p) /\ ~InWcache(p)'
  BY <1>3, <1>5 DEF InWcache
<1>9. PlacesInv' /\ MemoryInv' /\ TouchesOnly(p) /\ ~Writing(p)'
  BY <1>3, <1>4, <1>5, <1>6, <1>7, <1>8, OnChipKeepsPlaces
<1>10. BytesTrue /\ BytesTrue'
  BY <1>9, PlacesGiveBytes, PTL
<1>11. p \notin Charged /\ p \in Charged'
  BY <1>3 DEF Charged, Fetched
<1>12. Size[p] \in Nat \ {0} /\ stored'[p] = 0
  BY <1>2, <1>5, BufferAssumption
<1>13. InSram[p] = 0 /\ ForQueue[p] = 0 /\ InCache[p] = 0 /\ InDram[p] = 0
  BY <1>5, <1>6, <1>8, <1>10, <1>11 DEF BytesTrue
<1>14. InSram'[p] = Size[p] /\ ForQueue'[p] = Size[p] /\ InCache'[p] = 0 /\ InDram'[p] = 0
  BY <1>3, <1>8, <1>9, <1>10, <1>11, <1>12 DEF BytesTrue
<1>15. /\ InSram'[p] = InSram[p] + Size[p] /\ ForQueue'[p] = ForQueue[p] + Size[p]
       /\ InCache'[p] = InCache[p] /\ InDram'[p] = InDram[p]
  BY <1>12, <1>13, <1>14
<1>16. /\ Adds(InSram, InSram', p, Size[p]) /\ Adds(ForQueue, ForQueue', p, Size[p])
       /\ Same(InCache, InCache') /\ Same(InDram, InDram')
       /\ \A q \in Packets \ {p} : (q \in Charged') <=> (q \in Charged)
  BY <1>9, <1>15, OnePacketChanges
<1>17. Charged' = Charged \cup {p}
  BY <1>11, <1>16 DEF Charged
<1>18. Size[p] \in Int
  BY <1>12
<1>19. SramInv'
  BY <1>2, <1>16, <1>18, UseSramStep DEF CountersInv
<1>20. QueueInv'
  BY <1>2, <1>11, <1>16, <1>17, ChargeQueueStep DEF CountersInv
<1>21. CacheInv' /\ DramInv'
  BY <1>2, <1>16, CacheFrame, DramFrame DEF CountersInv
<1> QED BY <1>9, <1>19, <1>20, <1>21 DEF CountersInv

LEMMA FetchOnChipStep ==
  ASSUME PlacesInv, MemoryInv, CountersInv, NEW p \in Packets, FetchOnChip(p)
  PROVE  PlacesInv' /\ MemoryInv' /\ CountersInv'
<1>1. /\ EngineInv /\ PacketsOK /\ WritePlaces(p) /\ ReadPlaces(p) /\ LocationIsTrue(p)
      /\ location \in [Packets -> Locations] /\ stage \in [Packets -> {"new", "stored", "asked"}]
  BY Zenon DEF PlacesInv, Placed, EngineInv, PacketsOK
<1>2. /\ stage[p] = "stored" /\ location[p] = "ONCHIPBUFFER"
      /\ stage' = [stage EXCEPT ![p] = "asked"] /\ location' = [location EXCEPT ![p] = "NOTINBUFFER"]
      /\ UseSram(QueueOf[p], -Size[p]) /\ DischargeQueue(p)
      /\ UNCHANGED <<stored, channel, writeVec, readVec, counterVars, engineVars, writingVars>>
      /\ UNCHANGED <<wcacheQlen, priWcacheUsed>> /\ UNCHANGED <<dramQlen, priDramUsed>>
  BY Zenon DEF FetchOnChip, FetchComplete, offChipVars
<1>3. /\ \A q \in Packets \ {p} : location'[q] = location[q] /\ stage'[q] = stage[q]
      /\ location' \in [Packets -> Locations] /\ location'[p] = "NOTINBUFFER"
      /\ stage' \in [Packets -> {"new", "stored", "asked"}] /\ stage'[p] = "asked"
  BY <1>1, <1>2 DEF Locations
<1>4. OnChipOnly(p)
  BY <1>2, <1>3, Zenon DEF OnChipOnly
<1>5. stored[p] = 0
  BY <1>1, <1>2 DEF LocationIsTrue
<1>6. ~Writing(p)
  BY <1>2 DEF PlacesInv, WritingIsTrue, WriteCycle, Writing
<1>7. ~WriteSent(p) /\ ~WriteWaits(p) /\ ~ReadSent(p) /\ ~ReadWaits(p) /\ ~Reading(p)
  BY <1>1, <1>2 DEF WritePlaces, ReadPlaces
<1>8. ~InWcache(p) /\ ~InWcache(p)'
  BY <1>2, <1>3 DEF InWcache
<1>9. PlacesInv' /\ MemoryInv' /\ TouchesOnly(p) /\ ~Writing(p)'
  BY <1>3, <1>4, <1>5, <1>6, <1>7, <1>8, OnChipKeepsPlaces
<1>10. BytesTrue /\ BytesTrue'
  BY <1>9, PlacesGiveBytes, PTL
<1>11. p \in Charged /\ p \notin Charged'
  BY <1>2, <1>3 DEF Charged, Fetched
<1>12. Size[p] \in Nat \ {0} /\ stored'[p] = 0
  BY <1>2, <1>5, BufferAssumption
<1>13. InSram[p] = Size[p] /\ ForQueue[p] = Size[p] /\ InCache[p] = 0 /\ InDram[p] = 0
  BY <1>2, <1>5, <1>6, <1>8, <1>10, <1>11, <1>12 DEF BytesTrue
<1>14. InSram'[p] = 0 /\ ForQueue'[p] = 0 /\ InCache'[p] = 0 /\ InDram'[p] = 0
  BY <1>3, <1>8, <1>9, <1>10, <1>11, <1>12 DEF BytesTrue
<1>15. /\ InSram'[p] = InSram[p] + (-Size[p]) /\ ForQueue'[p] = ForQueue[p] + (-Size[p])
       /\ InCache'[p] = InCache[p] /\ InDram'[p] = InDram[p]
  BY <1>12, <1>13, <1>14
<1>16. /\ Adds(InSram, InSram', p, -Size[p]) /\ Adds(ForQueue, ForQueue', p, -Size[p])
       /\ Same(InCache, InCache') /\ Same(InDram, InDram')
       /\ \A q \in Packets \ {p} : (q \in Charged') <=> (q \in Charged)
  BY <1>9, <1>15, OnePacketChanges
<1>17. Charged' = Charged \ {p}
  BY <1>11, <1>16 DEF Charged
<1>18. -Size[p] \in Int /\ -Size[p] <= onChipRemain
  BY <1>12 DEF CountersInv, SramInv
<1>19. SramInv'
  BY <1>2, <1>16, <1>18, UseSramStep DEF CountersInv
<1>20. QueueInv'
  BY <1>2, <1>11, <1>16, <1>17, DischargeQueueStep DEF CountersInv
<1>21. CacheInv' /\ DramInv'
  BY <1>2, <1>16, CacheFrame, DramFrame DEF CountersInv
<1> QED BY <1>9, <1>19, <1>20, <1>21 DEF CountersInv

-----------------------------------------------------------------------------
(***************************************************************************)
(* The calls that reach the off-chip buffer.                               *)
(***************************************************************************)
LEMMA BufferStep ==
  ASSUME PlacesInv, MemoryInv, [Next]_vars
  PROVE  PlacesInv' /\ MemoryInv' /\ BytesTrue /\ BytesTrue'
<1>1. PlacesInv'
  BY NextPlaces
<1>2. MemoryInv'
  BY <1>1, NextMemory
<1>3. BytesTrue /\ BytesTrue'
  BY <1>1, PlacesGiveBytes, PTL
<1> QED BY <1>1, <1>2, <1>3

LEMMA OnePacketCharged ==
  ASSUME NEW p \in Packets, \A q \in Packets \ {p} : (q \in Charged') <=> (q \in Charged)
  PROVE  /\ ((p \in Charged') <=> (p \in Charged)) => Charged' = Charged
         /\ p \in Charged' => Charged' = Charged \cup {p}
         /\ p \notin Charged' => Charged' = Charged \ {p}
BY DEF Charged

(***************************************************************************)
(* A call about p that leaves the others and the cycle under way alone.    *)
(***************************************************************************)
LEMMA CallTouches ==
  ASSUME Atomics' = Atomics, NEW p,
         \A q \in Packets \ {p} : location'[q] = location[q] /\ stored'[q] = stored[q] /\ stage'[q] = stage[q]
  PROVE  TouchesOnly(p) /\ (Writing(p)' <=> Writing(p))
<1>1. \A q : Writing(q)' <=> Writing(q)
  BY WritingKept
<1> QED BY <1>1, Zenon DEF TouchesOnly, Untouched

LEMMA StoreOffChipStep ==
  ASSUME PlacesInv, MemoryInv, CountersInv, NEW p \in Packets, StoreOffChip(p)
  PROVE  PlacesInv' /\ MemoryInv' /\ CountersInv'
<1>1. /\ EngineInv /\ PacketsOK /\ LocationIsTrue(p)
      /\ location \in [Packets -> Locations] /\ stage \in [Packets -> {"new", "stored", "asked"}]
  BY Zenon DEF PlacesInv, Placed, EngineInv, PacketsOK
<1>2. /\ Write(p) /\ UseWcache(QueueOf[p], Size[p]) /\ UNCHANGED <<dramQlen, priDramUsed>>
      /\ ChargeQueue(p) /\ UNCHANGED sramVars
  BY Zenon DEF StoreOffChip, WriteWcacheComplete
<1>3. PlacesInv' /\ MemoryInv' /\ BytesTrue /\ BytesTrue'
  BY <1>2, BufferStep, Zenon DEF Next
<1>4. /\ stage[p] = "new" /\ stage' = [stage EXCEPT ![p] = "stored"]
      /\ location' = [location EXCEPT ![p] = "WCACHE"] /\ stored' = stored /\ SendRequest("write", p)
  BY <1>2, Zenon DEF Write
<1>5. /\ \A q \in Packets \ {p} : location'[q] = location[q] /\ stored'[q] = stored[q] /\ stage'[q] = stage[q]
      /\ location'[p] = "WCACHE" /\ stage'[p] = "stored"
  BY <1>1, <1>4
<1>6. Atomics' = Atomics
  BY <1>1, <1>4, RequestsKeepAtomics, Zenon
<1>7. TouchesOnly(p) /\ (Writing(p)' <=> Writing(p))
  BY <1>5, <1>6, CallTouches
<1>8. location[p] = "NOTINBUFFER" /\ stored[p] = 0
  BY <1>1, <1>4 DEF LocationIsTrue
<1>9. ~Writing(p)
  BY <1>8 DEF PlacesInv, WritingIsTrue, WriteCycle, Writing
<1>10. ~InWcache(p) /\ InWcache(p)' /\ p \notin Charged /\ p \in Charged'
  BY <1>4, <1>5 DEF InWcache, Charged, Fetched
<1>11. Size[p] \in Nat \ {0} /\ stored'[p] = 0 /\ Size[p] \in Int
  BY <1>4, <1>8, BufferAssumption
<1>12. InSram[p] = 0 /\ ForQueue[p] = 0 /\ InCache[p] = 0 /\ InDram[p] = 0
  BY <1>3, <1>8, <1>9, <1>10 DEF BytesTrue
<1>13. InSram'[p] = 0 /\ ForQueue'[p] = Size[p] /\ InCache'[p] = Size[p] /\ InDram'[p] = 0
  BY <1>3, <1>5, <1>7, <1>9, <1>10, <1>11 DEF BytesTrue
<1>14. /\ InSram'[p] = InSram[p] /\ ForQueue'[p] = ForQueue[p] + Size[p]
       /\ InCache'[p] = InCache[p] + Size[p] /\ InDram'[p] = InDram[p]
  BY <1>11, <1>12, <1>13
<1>15. /\ Same(InSram, InSram') /\ Adds(ForQueue, ForQueue', p, Size[p])
       /\ Adds(InCache, InCache', p, Size[p]) /\ Same(InDram, InDram')
       /\ \A q \in Packets \ {p} : (q \in Charged') <=> (q \in Charged)
  BY <1>3, <1>7, <1>14, OnePacketChanges
<1>16. Charged' = Charged \cup {p}
  BY <1>10, <1>15, OnePacketCharged
<1>17. SramInv' /\ DramInv'
  BY <1>2, <1>15, SramFrame, DramFrame DEF CountersInv
<1>18. QueueInv'
  BY <1>2, <1>10, <1>15, <1>16, ChargeQueueStep DEF CountersInv
<1>19. CacheInv'
  BY <1>2, <1>11, <1>15, UseWcacheStep DEF CountersInv
<1> QED BY <1>3, <1>17, <1>18, <1>19 DEF CountersInv

LEMMA FetchFromWcacheStep ==
  ASSUME PlacesInv, MemoryInv, CountersInv, NEW p \in Packets, FetchFromWcache(p)
  PROVE  PlacesInv' /\ MemoryInv' /\ CountersInv'
<1>1. /\ EngineInv /\ PacketsOK
      /\ location \in [Packets -> Locations] /\ stage \in [Packets -> {"new", "stored", "asked"}]
  BY Zenon DEF PlacesInv, EngineInv, PacketsOK
<1>2. /\ ReadFromWcache(p) /\ UseWcache(QueueOf[p], stored[p] - Size[p])
      /\ UNCHANGED <<dramQlen, priDramUsed>> /\ DischargeQueue(p) /\ UNCHANGED sramVars
  BY Zenon DEF FetchFromWcache, ReadWcacheComplete
<1>3. PlacesInv' /\ MemoryInv' /\ BytesTrue /\ BytesTrue'
  BY <1>2, BufferStep, Zenon DEF Next
<1>4. /\ stage[p] = "stored" /\ location[p] \in {"WCACHE", "WRITINGTOOFFCHIPBUFFER"} /\ stored[p] = 0
      /\ stage' = [stage EXCEPT ![p] = "asked"] /\ location' = [location EXCEPT ![p] = "NOTINBUFFER"]
      /\ stored' = stored /\ CancelRequest(p)
  BY <1>2, Zenon DEF ReadFromWcache, Asked, FetchComplete
<1>5. /\ \A q \in Packets \ {p} : location'[q] = location[q] /\ stored'[q] = stored[q] /\ stage'[q] = stage[q]
      /\ location'[p] = "NOTINBUFFER" /\ stage'[p] = "asked" /\ stored'[p] = 0
  BY <1>1, <1>4
<1>6. Atomics' = Atomics
  BY <1>1, <1>4, RequestsKeepAtomics, Zenon
<1>7. TouchesOnly(p) /\ (Writing(p)' <=> Writing(p))
  BY <1>5, <1>6, CallTouches
<1>8. InWcache(p) /\ ~InWcache(p)' /\ p \in Charged /\ p \notin Charged'
  BY <1>4, <1>5 DEF InWcache, Charged, Fetched
<1>9. Size[p] \in Nat \ {0} /\ stored[p] - Size[p] = -Size[p] /\ -Size[p] \in Int
  <2>1. Size[p] \in Nat \ {0}
    BY BufferAssumption
  <2> QED BY <1>4, <2>1
<1>10. InSram[p] = 0 /\ ForQueue[p] = Size[p] /\ InCache[p] = Size[p] /\ InDram[p] = 0
  BY <1>3, <1>4, <1>8, <1>9 DEF BytesTrue
<1>11. InSram'[p] = 0 /\ ForQueue'[p] = 0 /\ InCache'[p] = 0 /\ InDram'[p] = 0
  BY <1>3, <1>5, <1>8 DEF BytesTrue
<1>12. /\ InSram'[p] = InSram[p] /\ ForQueue'[p] = ForQueue[p] + (-Size[p])
       /\ InCache'[p] = InCache[p] + (-Size[p]) /\ InDram'[p] = InDram[p]
  BY <1>9, <1>10, <1>11
<1>13. /\ Same(InSram, InSram') /\ Adds(ForQueue, ForQueue', p, -Size[p])
       /\ Adds(InCache, InCache', p, -Size[p]) /\ Same(InDram, InDram')
       /\ \A q \in Packets \ {p} : (q \in Charged') <=> (q \in Charged)
  BY <1>3, <1>7, <1>12, OnePacketChanges
<1>14. Charged' = Charged \ {p}
  BY <1>8, <1>13, OnePacketCharged
<1>15. SramInv' /\ DramInv'
  BY <1>2, <1>13, SramFrame, DramFrame DEF CountersInv
<1>16. QueueInv'
  BY <1>2, <1>8, <1>13, <1>14, DischargeQueueStep DEF CountersInv
<1>17. UseWcache(QueueOf[p], -Size[p])
  BY <1>2, <1>9
<1>18. CacheInv'
  BY <1>9, <1>13, <1>17, UseWcacheStep DEF CountersInv
<1> QED BY <1>3, <1>15, <1>16, <1>18 DEF CountersInv

LEMMA FetchBeingWrittenStep ==
  ASSUME PlacesInv, MemoryInv, CountersInv, NEW p \in Packets, FetchBeingWritten(p)
  PROVE  PlacesInv' /\ MemoryInv' /\ CountersInv'
<1>1. /\ EngineInv /\ PacketsOK
      /\ location \in [Packets -> Locations] /\ stage \in [Packets -> {"new", "stored", "asked"}]
  BY Zenon DEF PlacesInv, EngineInv, PacketsOK
<1>2. /\ ReadInterruptsWrite(p) /\ UseWcache(QueueOf[p], stored[p] - Size[p])
      /\ UNCHANGED <<dramQlen, priDramUsed>> /\ UNCHANGED sramVars /\ UNCHANGED queueVars
  BY Zenon DEF FetchBeingWritten, ReadWcacheComplete
<1>3. PlacesInv' /\ MemoryInv' /\ BytesTrue /\ BytesTrue'
  BY <1>2, BufferStep, Zenon DEF Next
<1>4. /\ stage[p] = "stored" /\ location[p] \in {"WCACHE", "WRITINGTOOFFCHIPBUFFER"}
      /\ stage' = [stage EXCEPT ![p] = "asked"] /\ location' = location
      /\ stored' = stored /\ SendRequest("read", p)
  BY <1>2, Zenon DEF ReadInterruptsWrite, Asked, packetVars
<1>5. /\ \A q \in Packets \ {p} : location'[q] = location[q] /\ stored'[q] = stored[q] /\ stage'[q] = stage[q]
      /\ location'[p] = location[p] /\ stage'[p] = "asked" /\ stored'[p] = stored[p]
  BY <1>1, <1>4
<1>6. Atomics' = Atomics
  BY <1>1, <1>4, RequestsKeepAtomics, Zenon
<1>7. TouchesOnly(p) /\ (Writing(p)' <=> Writing(p))
  BY <1>5, <1>6, CallTouches
<1>8. InWcache(p) /\ ~InWcache(p)' /\ p \in Charged /\ p \in Charged'
  BY <1>4, <1>5 DEF InWcache, Charged, Fetched
<1>9. /\ InSram[p] = 0 /\ InSram'[p] = 0
      /\ ForQueue[p] = Size[p] /\ ForQueue'[p] = Size[p]
      /\ InCache[p] = Size[p] - stored[p] + (IF Writing(p) THEN stored[p] ELSE 0)
      /\ InCache'[p] = 0 + (IF Writing(p) THEN stored[p] ELSE 0)
      /\ InDram'[p] = InDram[p]
      /\ Size[p] \in Nat /\ stored[p] \in Nat
  BY <1>3, <1>4, <1>5, <1>7, <1>8 DEF BytesTrue
<1>10. /\ InSram'[p] = InSram[p] /\ ForQueue'[p] = ForQueue[p]
       /\ InCache'[p] = InCache[p] + (stored[p] - Size[p]) /\ InDram'[p] = InDram[p]
       /\ stored[p] - Size[p] \in Int
  BY <1>9
<1>11. /\ Same(InSram, InSram') /\ Same(ForQueue, ForQueue')
       /\ Adds(InCache, InCache', p, stored[p] - Size[p]) /\ Same(InDram, InDram')
       /\ \A q \in Packets \ {p} : (q \in Charged') <=> (q \in Charged)
  BY <1>3, <1>7, <1>10, OnePacketChanges
<1>12. Charged' = Charged
  BY <1>8, <1>11, OnePacketCharged
<1>13. SramInv' /\ DramInv' /\ QueueInv'
  BY <1>2, <1>11, <1>12, SramFrame, DramFrame, QueueFrame DEF CountersInv
<1>14. CacheInv'
  BY <1>2, <1>10, <1>11, UseWcacheStep DEF CountersInv
<1> QED BY <1>3, <1>13, <1>14 DEF CountersInv

(***************************************************************************)
(* Steps that move no byte and charge nothing.                             *)
(***************************************************************************)
LEMMA QuietStep ==
  ASSUME PlacesInv, MemoryInv, CountersInv, [Next]_vars,
         UNCHANGED <<sramVars, queueVars, offChipVars>>,
         Atomics' = Atomics, NEW p \in Packets,
         \A q \in Packets \ {p} : location'[q] = location[q] /\ stored'[q] = stored[q] /\ stage'[q] = stage[q],
         location'[p] = location[p], stored'[p] = stored[p],
         InWcache(p)' <=> InWcache(p), (p \in Charged') <=> (p \in Charged)
  PROVE  PlacesInv' /\ MemoryInv' /\ CountersInv'
<1>1. PlacesInv' /\ MemoryInv' /\ BytesTrue /\ BytesTrue'
  BY BufferStep
<1>2. TouchesOnly(p) /\ (Writing(p)' <=> Writing(p))
  BY CallTouches
<1>3. /\ InSram'[p] = InSram[p] /\ ForQueue'[p] = ForQueue[p]
      /\ InCache'[p] = InCache[p] /\ InDram'[p] = InDram[p]
  BY <1>1, <1>2 DEF BytesTrue
<1>4. /\ Same(InSram, InSram') /\ Same(ForQueue, ForQueue')
      /\ Same(InCache, InCache') /\ Same(InDram, InDram')
      /\ \A q \in Packets \ {p} : (q \in Charged') <=> (q \in Charged)
  BY <1>1, <1>2, <1>3, OnePacketChanges
<1>5. Charged' = Charged
  BY <1>4, OnePacketCharged
<1>6. /\ UNCHANGED sramVars /\ UNCHANGED queueVars
      /\ UNCHANGED <<wcacheQlen, priWcacheUsed>> /\ UNCHANGED <<dramQlen, priDramUsed>>
  BY DEF offChipVars
<1>7. SramInv' /\ QueueInv' /\ CacheInv' /\ DramInv'
  BY <1>4, <1>5, <1>6, SramFrame, QueueFrame, CacheFrame, DramFrame DEF CountersInv
<1> QED BY <1>1, <1>7 DEF CountersInv

LEMMA FetchFromDramStep ==
  ASSUME PlacesInv, MemoryInv, CountersInv, NEW p \in Packets, FetchFromDram(p)
  PROVE  PlacesInv' /\ MemoryInv' /\ CountersInv'
<1>1. /\ EngineInv /\ stage \in [Packets -> {"new", "stored", "asked"}]
  BY Zenon DEF PlacesInv, EngineInv
<1>2. /\ ReadFromDram(p) /\ UNCHANGED <<sramVars, queueVars, offChipVars>>
  BY Zenon DEF FetchFromDram
<1>3. /\ stage[p] = "stored" /\ location[p] = "OFFCHIPBUFFER"
      /\ stage' = [stage EXCEPT ![p] = "asked"] /\ location' = location
      /\ stored' = stored /\ SendRequest("read", p)
  BY <1>2, Zenon DEF ReadFromDram, Asked, packetVars
<1>4. /\ \A q \in Packets \ {p} : location'[q] = location[q] /\ stored'[q] = stored[q] /\ stage'[q] = stage[q]
      /\ location'[p] = location[p] /\ stored'[p] = stored[p] /\ stage'[p] = "asked"
  BY <1>1, <1>3
<1>5. Atomics' = Atomics
  BY <1>1, <1>3, RequestsKeepAtomics, Zenon
<1>6. (InWcache(p)' <=> InWcache(p)) /\ ((p \in Charged') <=> (p \in Charged))
  BY <1>3, <1>4 DEF InWcache, Charged, Fetched
<1>7. [Next]_vars
  BY <1>2, Zenon DEF Next
<1> QED BY <1>2, <1>4, <1>5, <1>6, <1>7, QuietStep

LEMMA MmuDepartStep ==
  ASSUME PlacesInv, MemoryInv, CountersInv, NEW p \in Packets, MmuDepart(p)
  PROVE  PlacesInv' /\ MemoryInv' /\ CountersInv'
<1>1. /\ EngineInv /\ PacketsOK /\ LocationIsTrue(p)
      /\ stage \in [Packets -> {"new", "stored", "asked"}] /\ stored \in [Packets -> Nat]
  BY Zenon DEF PlacesInv, Placed, EngineInv, PacketsOK
<1>2. Depart(p) /\ UNCHANGED <<sramVars, queueVars, offChipVars>>
  BY Zenon DEF MmuDepart
<1>3. /\ stage[p] = "asked" /\ location[p] = "NOTINBUFFER"
      /\ stage' = [stage EXCEPT ![p] = "new"] /\ stored' = [stored EXCEPT ![p] = 0]
      /\ location' = location /\ UNCHANGED engineVars
  BY <1>2, Zenon DEF Depart, Fetched
<1>4. stored[p] = 0
  BY <1>1, <1>3 DEF LocationIsTrue
<1>5. /\ \A q \in Packets \ {p} : location'[q] = location[q] /\ stored'[q] = stored[q] /\ stage'[q] = stage[q]
      /\ location'[p] = location[p] /\ stored'[p] = stored[p] /\ stage'[p] = "new"
  BY <1>1, <1>3, <1>4
<1>6. Atomics' = Atomics
  BY <1>3 DEF Atomics, engineVars
<1>7. (InWcache(p)' <=> InWcache(p)) /\ ((p \in Charged') <=> (p \in Charged))
  BY <1>3, <1>5 DEF InWcache, Charged, Fetched
<1>8. [Next]_vars
  BY <1>2, Zenon DEF Next
<1> QED BY <1>2, <1>5, <1>6, <1>7, <1>8, QuietStep

-----------------------------------------------------------------------------
(***************************************************************************)
(* The engine's events and what they report.                               *)
(***************************************************************************)
LEMMA MmuRequestArrivesStep ==
  ASSUME PlacesInv, MemoryInv, CountersInv, MmuRequestArrives
  PROVE  PlacesInv' /\ MemoryInv' /\ CountersInv'
<1>1. EngineInv /\ QueuesOK
  BY Zenon DEF PlacesInv, EngineInv
<1>2. /\ RequestArrives /\ UNCHANGED <<sramVars, queueVars, offChipVars>>
  BY Zenon DEF MmuRequestArrives
<1>3. /\ channel # <<>> /\ location' = location /\ stored' = stored /\ stage' = stage
  BY <1>2, Zenon DEF RequestArrives, packetVars
<1>4. PICK p \in Packets : p = channel[1].packet
  <2>1. channel[1] \in Requests
    BY <1>1, <1>3 DEF QueuesOK
  <2> QED BY <2>1 DEF Requests
<1>5. /\ \A q \in Packets \ {p} : location'[q] = location[q] /\ stored'[q] = stored[q] /\ stage'[q] = stage[q]
      /\ location'[p] = location[p] /\ stored'[p] = stored[p]
  BY <1>3
<1>6. Atomics' = Atomics
  BY <1>1, <1>2, RequestsKeepAtomics, Zenon
<1>7. (InWcache(p)' <=> InWcache(p)) /\ ((p \in Charged') <=> (p \in Charged))
  BY <1>3 DEF InWcache, Charged, Fetched
<1>8. [Next]_vars
  BY <1>2, Zenon DEF Next
<1> QED BY <1>2, <1>5, <1>6, <1>7, <1>8, QuietStep

(***************************************************************************)
(* A write cycle that starts has operations to do and no flag to stop it.  *)
(***************************************************************************)
LEMMA StartWriteGoesOn ==
  ASSUME PlacesInv, Atomics = {}, NEW p \in Packets
  PROVE  ~CycleIsOver(OpTimes(Size[p]))
<1>1. Size[p] \in Nat /\ Size[p] > 0
  <2>1. Size[p] \in Nat \ {0}
    BY BufferAssumption
  <2> QED BY <2>1
<1>2. OpTimes(Size[p]) \in Nat /\ OpTimes(Size[p]) > 0
  BY <1>1, OpTimesJustEnough, OperationsForBytes
<1>3. ~writingStopFlag
  BY Zenon DEF PlacesInv, WritingIsTrue
<1> QED BY <1>2, <1>3 DEF CycleIsOver

LEMMA MmuStartWriteCycleStep ==
  ASSUME PlacesInv, MemoryInv, CountersInv, MmuStartWriteCycle
  PROVE  PlacesInv' /\ MemoryInv' /\ CountersInv'
<1>1. PICK i \in DOMAIN writeVec :
         /\ StartWriteCycle(i)
         /\ Report(writeVec[i], "PKTWRITE", OpTimes(Size[writeVec[i]]))
         /\ UNCHANGED <<sramVars, bmVars>>
  BY Zenon DEF MmuStartWriteCycle
<1>2. PICK p : p = writeVec[i]
  OBVIOUS
<1>3. /\ p \in Packets /\ stage[p] = "stored" /\ location[p] = "WCACHE" /\ stored[p] = 0
      /\ stage' = stage /\ OpTimes(Size[p]) \in Nat
      /\ ScheduleCycleAtomic(p, "PKTWRITE", OpTimes(Size[p]), {}, p)
  BY <1>1, <1>2, StartWriteServes
<1>4. Report(p, "PKTWRITE", OpTimes(Size[p])) /\ UNCHANGED sramVars
  BY <1>1, <1>2
<1>5. PlacesInv' /\ MemoryInv'
  BY <1>1, BufferStep, Zenon DEF Next
<1>6. EngineInv
  BY Zenon DEF PlacesInv
<1>7. Atomics = {}
  BY <1>1, <1>6, OneCycle, Zenon DEF StartWriteCycle
<1>8. \A q \in Packets \ {p} : ~Writing(q)
  BY <1>7 DEF Writing
<1>9. ~CycleIsOver(OpTimes(Size[p]))
  BY <1>3, <1>7, StartWriteGoesOn
<1> HIDE DEF Report, ScheduleCycleAtomic
<1>10. PICK left \in Nat : left = OpTimes(Size[p])
  BY <1>3
<1>11. /\ Report(p, "PKTWRITE", left) /\ ~CycleIsOver(left)
       /\ ScheduleCycleAtomic(p, "PKTWRITE", left, {}, p)
  BY <1>3, <1>4, <1>9, <1>10
<1>12. CountersInv'
  BY <1>3, <1>4, <1>5, <1>8, <1>11, CycleCounters
<1> QED BY <1>5, <1>12

LEMMA MmuStartReadCycleStep ==
  ASSUME PlacesInv, MemoryInv, CountersInv, MmuStartReadCycle
  PROVE  PlacesInv' /\ MemoryInv' /\ CountersInv'
<1>1. EngineInv /\ QueuesOK /\ PacketsOK
  BY Zenon DEF PlacesInv, EngineInv
<1>2. /\ StartReadCycle /\ UNCHANGED sramVars
      /\ readVec # <<>> => Report(readVec[1], "PKTREAD", OpTimes(stored[readVec[1]]))
  BY Zenon DEF MmuStartReadCycle
<1>3. CycleStart("PKTREAD") \in events /\ events \ {CycleStart("PKTREAD")} = {} /\ readVec # <<>>
  <2>1. OneEventChain /\ CycleStart("PKTREAD") \in events
    BY <1>1, <1>2, EngineInvImplies, Zenon DEF StartReadCycle
  <2> QED BY <2>1, Zenon DEF OneEventChain
<1>4. PICK p : p = readVec[1]
  OBVIOUS
<1>5. p \in Packets /\ ReadWaits(p)
  BY <1>1, <1>3, <1>4 DEF QueuesOK, ReadWaits, Range
<1>6. stage[p] = "asked" /\ InOffChipBuffer(p) /\ stored[p] \in Nat
  BY <1>1, <1>5 DEF PlacesInv, Placed, ReadPlaces, PacketsOK
<1>7. PICK left \in Nat : left = OpTimes(stored[p])
  BY <1>6, OpTimesNat
<1>8. stage' = stage /\ ScheduleCycleAtomic(p, "PKTREAD", left, {}, writingPacket)
  BY <1>2, <1>3, <1>4, <1>7, Zenon DEF StartReadCycle
<1>9. Report(p, "PKTREAD", left)
  BY <1>2, <1>3, <1>4, <1>7, Zenon
<1>10. PlacesInv' /\ MemoryInv'
  BY <1>2, BufferStep, Zenon DEF Next
<1>11. Atomics = {}
  BY <1>1, <1>3, OneCycle, Zenon
<1>12. \A q \in Packets : ~Writing(q)
  BY <1>11 DEF Writing
<1>13. CountersInv'
  BY <1>2, <1>5, <1>6, <1>8, <1>9, <1>10, <1>12, CycleCounters
<1> QED BY <1>10, <1>13

LEMMA MmuNextAtomicStep ==
  ASSUME PlacesInv, MemoryInv, CountersInv, MmuNextAtomic
  PROVE  PlacesInv' /\ MemoryInv' /\ CountersInv'
<1>1. PICK e \in events : NextAtomic(e) /\ Report(e.packet, e.result, e.left) /\ UNCHANGED sramVars
  BY Zenon DEF MmuNextAtomic
<1>2. /\ e \in Atomics /\ e.packet \in Packets /\ e.left \in Nat
      /\ e.result \in {"PKTWRITE", "PKTREAD"}
      /\ e.result = "PKTWRITE" /\ e.left # 0 /\ ~writingStopFlag =>
           stage[e.packet] = "stored" /\ location[e.packet] \in {"WCACHE", "WRITINGTOOFFCHIPBUFFER"}
      /\ e.result = "PKTREAD" => stage[e.packet] = "asked"
      /\ stage' = stage
      /\ ScheduleCycleAtomic(e.packet, e.result, e.left, {}, writingPacket)
  BY <1>1, NextAtomicServes
<1>3. PlacesInv' /\ MemoryInv'
  BY <1>1, BufferStep, Zenon DEF Next
<1>4. EngineInv
  BY Zenon DEF PlacesInv
<1>5. \A f \in Atomics : f = e
  BY <1>2, <1>4, OneCycle, Zenon
<1>6. \A q \in Packets \ {e.packet} : ~Writing(q)
  BY <1>5, Zenon DEF Writing
<1>7. e.result = "PKTREAD" => Reading(e.packet) /\ ~Writing(e.packet)
  BY <1>2, <1>5, Zenon DEF Writing, Reading
<1>8. e.result = "PKTWRITE" => Writing(e.packet)
  BY <1>2, Zenon DEF Writing
<1>9. Reading(e.packet) => InOffChipBuffer(e.packet)
  BY <1>2, Zenon DEF PlacesInv, Placed, ReadPlaces
<1>10. e.result = "PKTWRITE" /\ ~CycleIsOver(e.left) => e.left # 0 /\ ~writingStopFlag
  BY Zenon DEF CycleIsOver
<1>11. CountersInv'
  BY <1>1, <1>2, <1>3, <1>6, <1>7, <1>8, <1>9, <1>10, CycleCounters
<1> QED BY <1>3, <1>11

(***************************************************************************)
(* Nothing moves: a packet is refused, or no step is taken.                *)
(***************************************************************************)
LEMMA RefuseStep ==
  ASSUME PlacesInv, MemoryInv, CountersInv, UNCHANGED <<vars, sramVars, queueVars, offChipVars>>
  PROVE  PlacesInv' /\ MemoryInv' /\ CountersInv'
<1>1. PlacesInv' /\ MemoryInv' /\ BytesTrue /\ BytesTrue'
  BY BufferStep
<1>2. location' = location /\ stored' = stored /\ stage' = stage /\ events' = events
  BY Zenon DEF vars, packetVars, engineVars
<1>3. /\ InSram' = InSram /\ ForQueue' = ForQueue /\ InCache' = InCache /\ InDram' = InDram
      /\ Charged' = Charged
  BY <1>2, Zenon DEF InSram, ForQueue, InCache, InDram, Charged, Fetched, InWcache, Moving, WriteEvents
<1>4. /\ Same(InSram, InSram') /\ Same(ForQueue, ForQueue')
      /\ Same(InCache, InCache') /\ Same(InDram, InDram')
  BY <1>1, <1>3, Zenon DEF BytesTrue, Same
<1>5. /\ UNCHANGED sramVars /\ UNCHANGED queueVars
      /\ UNCHANGED <<wcacheQlen, priWcacheUsed>> /\ UNCHANGED <<dramQlen, priDramUsed>>
  BY DEF offChipVars
<1>6. SramInv' /\ QueueInv' /\ CacheInv' /\ DramInv'
  BY <1>3, <1>4, <1>5, SramFrame, QueueFrame, CacheFrame, DramFrame DEF CountersInv
<1> QED BY <1>1, <1>6 DEF CountersInv

-----------------------------------------------------------------------------
(***************************************************************************)
(* What an algorithm decides for a packet is a place and three flags.      *)
(***************************************************************************)
Decisions ==
  [to : {"ONCHIP", "OFFCHIP", "DROP"}, congested : BOOLEAN, sram : BOOLEAN, started : BOOLEAN]

LEMMA DecisionTypes ==
  ASSUME BmInv, NEW p \in Packets
  PROVE  FindBufferLocation(p) \subseteq Decisions
<1> DEFINE q == QueueOf[p]
<1>1. q \in Queues
  BY MmuAssumption
<1>2. cgStatus[q] \in BOOLEAN /\ storeDecision[q] \in BOOLEAN /\ started[q] \in BOOLEAN
  BY <1>1 DEF BmInv
<1> HIDE DEF q
<1>3. \A to \in {"ONCHIP", "OFFCHIP", "DROP"} : Decide(q, to) \in Decisions
  BY <1>2 DEF Decide, Decisions
<1>4. \A fits : OnChipElseOffChip(p, fits) \in {"ONCHIP", "OFFCHIP", "DROP"}
  BY DEF OnChipElseOffChip
<1>5. CheckHWBmAlgorithm(p) \in Decisions
  <2>1. HwPlace(p, q) \in {"ONCHIP", "OFFCHIP", "DROP"}
    BY DEF HwPlace
  <2>2. GetHWCgStatus(q) \in BOOLEAN
    BY Zenon DEF GetHWCgStatus
  <2>3. \A d \in Decisions, b \in BOOLEAN : [d EXCEPT !.congested = b] \in Decisions
    BY DEF Decisions
  <2> QED BY <1>3, <2>1, <2>2, <2>3, Zenon DEF CheckHWBmAlgorithm, q
<1>6. CheckBaselineBmAlgorithm(p) \in Decisions
  BY <1>3, Zenon DEF CheckBaselineBmAlgorithm, q
<1>7. CheckDeepHirBmAlgorithm(p) \in Decisions
  <2>1. CheckDeepHirBmAlgorithm(p) \in {Decide(q, to) : to \in {"ONCHIP", "OFFCHIP", "DROP"}}
    BY DEF CheckDeepHirBmAlgorithm, OnChipElseOffChip, q
  <2> QED BY <1>3, <2>1
<1>8. FbmAck(p) \in Decisions
  BY <1>3, <1>4, Zenon DEF FbmAck, q
<1>9. \A sram : Follow(p, sram) \in {"ONCHIP", "OFFCHIP", "DROP"}
  BY DEF Follow
<1>10. FbmWithinPeriod(p) \in Decisions
  BY <1>3, <1>9, Zenon DEF FbmWithinPeriod, q
<1>11. \A d \in Decisions, b \in BOOLEAN : [d EXCEPT !.sram = b] \in Decisions
  BY DEF Decisions
<1>12. \A sram \in BOOLEAN : FbmPeriodEnd(p, sram) \in Decisions
  BY <1>3, <1>9, <1>11, Zenon DEF FbmPeriodEnd, q
<1>13. FbmReset(p) \in Decisions
  <2> DEFINE place == IF IsMixed(p) THEN (IF storeDecision[q] THEN "ONCHIP" ELSE "OFFCHIP")
                                    ELSE OnChipElseOffChip(p, FitsSram(p))
  <2>1. place \in {"ONCHIP", "OFFCHIP", "DROP"}
    BY <1>4
  <2>2. FbmReset(p) = [Decide(q, place) EXCEPT !.started = TRUE,
                         !.sram = IF place = "DROP" THEN @ ELSE place = "ONCHIP"]
    BY DEF FbmReset, q
  <2> HIDE DEF place
  <2>3. Decide(q, place) \in Decisions
    BY <1>3, <2>1
  <2>4. \A d \in Decisions : [d EXCEPT !.started = TRUE,
                                !.sram = IF place = "DROP" THEN @ ELSE place = "ONCHIP"] \in Decisions
    BY DEF Decisions
  <2> QED BY <2>2, <2>3, <2>4, Zenon
<1>14. FbmDirections(p) \subseteq BOOLEAN
  BY <1>2 DEF FbmDirections, q
<1>15. Check3DTBmAlgorithm(p) \subseteq Decisions
  BY <1>8, <1>10, <1>12, <1>13, <1>14, Zenon DEF Check3DTBmAlgorithm, q
<1>16. Decide(q, "ONCHIP") \in Decisions /\ Decide(q, "OFFCHIP") \in Decisions
  BY <1>3
<1> HIDE DEF Decisions
<1> QED BY <1>5, <1>6, <1>7, <1>15, <1>16 DEF FindBufferLocation, q

LEMMA IngressStep ==
  ASSUME MmuInv, NEW p \in Packets, Ingress(p)
  PROVE  MmuInv'
<1>1. PlacesInv /\ MemoryInv /\ CountersInv /\ BmInv
  BY Zenon DEF MmuInv, CountersInv
<1>2. stage[p] = "new" /\ UNCHANGED bm
  BY Zenon DEF Ingress
<1>3. PICK d \in FindBufferLocation(p) :
         /\ cgStatus' = [cgStatus EXCEPT ![QueueOf[p]] = d.congested]
         /\ storeDecision' = [storeDecision EXCEPT ![QueueOf[p]] = d.sram]
         /\ started' = [started EXCEPT ![QueueOf[p]] = d.started]
         /\ CASE d.to = "ONCHIP"  -> StoreOnChip(p)
              [] d.to = "OFFCHIP" -> StoreOffChip(p)
              [] OTHER            -> Refuse(p)
  BY Zenon DEF Ingress
<1>4. d.congested \in BOOLEAN /\ d.sram \in BOOLEAN /\ d.started \in BOOLEAN
  <2>1. d \in Decisions
    BY <1>1, DecisionTypes
  <2> QED BY <2>1 DEF Decisions
<1>5. BmInv'
  BY <1>1, <1>2, <1>3, <1>4 DEF BmInv
<1>6. StoreOnChip(p) \/ StoreOffChip(p) \/ Refuse(p)
  BY <1>3
<1>7. PlacesInv' /\ MemoryInv' /\ CountersInv'
  BY <1>1, <1>2, <1>6, StoreOnChipStep, StoreOffChipStep, RefuseStep DEF Refuse
<1> QED BY <1>5, <1>7 DEF MmuInv, CountersInv

LEMMA NextMmuInv == MmuInv /\ [MmuNext]_mmuVars => MmuInv'
<1> SUFFICES ASSUME MmuInv, [MmuNext]_mmuVars
             PROVE  MmuInv'
  OBVIOUS
<1>1. PlacesInv /\ MemoryInv /\ CountersInv /\ BmInv
  BY Zenon DEF MmuInv, CountersInv
<1>2. UNCHANGED bmVars => BmInv'
  BY <1>1 DEF BmInv, bmVars
<1>3. ASSUME UNCHANGED bmVars, PlacesInv' /\ MemoryInv' /\ CountersInv'
      PROVE  MmuInv'
  BY <1>2, <1>3, Zenon DEF MmuInv, CountersInv
<1>4. CASE \E p \in Packets : Ingress(p)
  BY <1>4, IngressStep
<1>5. CASE \E p \in Packets : FetchOnChip(p)
  <2>1. PICK p \in Packets : FetchOnChip(p)
    BY <1>5
  <2> QED BY <1>1, <1>3, <2>1, FetchOnChipStep, Zenon DEF FetchOnChip
<1>6. CASE \E p \in Packets : FetchFromWcache(p)
  <2>1. PICK p \in Packets : FetchFromWcache(p)
    BY <1>6
  <2> QED BY <1>1, <1>3, <2>1, FetchFromWcacheStep, Zenon DEF FetchFromWcache
<1>7. CASE \E p \in Packets : FetchBeingWritten(p)
  <2>1. PICK p \in Packets : FetchBeingWritten(p)
    BY <1>7
  <2> QED BY <1>1, <1>3, <2>1, FetchBeingWrittenStep, Zenon DEF FetchBeingWritten
<1>8. CASE \E p \in Packets : FetchFromDram(p)
  <2>1. PICK p \in Packets : FetchFromDram(p)
    BY <1>8
  <2> QED BY <1>1, <1>3, <2>1, FetchFromDramStep, Zenon DEF FetchFromDram
<1>9. CASE \E p \in Packets : MmuDepart(p)
  <2>1. PICK p \in Packets : MmuDepart(p)
    BY <1>9
  <2> QED BY <1>1, <1>3, <2>1, MmuDepartStep, Zenon DEF MmuDepart
<1>10. CASE MmuRequestArrives
  BY <1>1, <1>3, <1>10, MmuRequestArrivesStep, Zenon DEF MmuRequestArrives
<1>11. CASE MmuStartWriteCycle
  BY <1>1, <1>3, <1>11, MmuStartWriteCycleStep, Zenon DEF MmuStartWriteCycle
<1>12. CASE MmuStartReadCycle
  BY <1>1, <1>3, <1>12, MmuStartReadCycleStep, Zenon DEF MmuStartReadCycle
<1>13. CASE MmuNextAtomic
  BY <1>1, <1>3, <1>13, MmuNextAtomicStep, Zenon DEF MmuNextAtomic
<1>14. CASE UNCHANGED mmuVars
  <2>1. UNCHANGED <<vars, sramVars, queueVars, offChipVars>> /\ UNCHANGED bmVars
    BY <1>14, Zenon DEF mmuVars
  <2> QED BY <1>1, <1>3, <2>1, RefuseStep
<1> QED BY <1>4, <1>5, <1>6, <1>7, <1>8, <1>9, <1>10, <1>11, <1>12, <1>13, <1>14, Zenon DEF MmuNext

LEMMA InitMmuInv == MmuInit => MmuInv
<1> SUFFICES ASSUME MmuInit
             PROVE  MmuInv
  OBVIOUS
<1>1. Init
  BY DEF MmuInit
<1>2. PlacesInv /\ MemoryInv
  BY <1>1, InitPlaces, InitMemory
<1>3. BytesTrue
  BY <1>2, PlacesGiveBytes
<1>4. \A p \in Packets : location[p] = "NOTINBUFFER" /\ stored[p] = 0 /\ stage[p] = "new"
  BY <1>1 DEF Init
<1>5. Charged = {}
  BY <1>4 DEF Charged
<1>6. \A p \in Packets : ~Writing(p) /\ ~InWcache(p)
  <2>1. Atomics = {}
    BY <1>1 DEF Init, Atomics
  <2> QED BY <1>4, <2>1 DEF Writing, InWcache
<1>7. \A p \in Packets : InSram[p] = 0 /\ ForQueue[p] = 0 /\ InCache[p] = 0 /\ InDram[p] = 0
  BY <1>3, <1>4, <1>5, <1>6 DEF BytesTrue
<1> PICK s : s = InSram
  OBVIOUS
<1> PICK f : f = ForQueue
  OBVIOUS
<1> PICK c : c = InCache
  OBVIOUS
<1> PICK d : d = InDram
  OBVIOUS
<1>8. \A p \in Packets : s[p] = 0 /\ f[p] = 0 /\ c[p] = 0 /\ d[p] = 0
  BY <1>7
<1>9. SramInv
  <2>1. /\ Counts([q \in Queues |-> 0], s, QueueOf, Queues)
        /\ Counts([pri \in Priorities |-> 0], s, PriOf, Priorities)
        /\ Counts([k \in PortPris |-> 0], s, PortPriOf, PortPris)
    BY <1>8, CounterZero, KeyTypes
  <2>2. SumFunctionOnSet(s, Packets) = 0
    BY <1>8, SumZero, BufferAssumption
  <2>3. /\ usedSram = [q \in Queues |-> 0] /\ priOnChipUsed = [pri \in Priorities |-> 0]
        /\ priDpUsed = [k \in PortPris |-> 0] /\ onChipRemain = OnChipSize
    BY DEF MmuInit, PortPris
  <2>4. OnChipSize \in Nat
    BY MmuAssumption
  <2> QED BY <2>1, <2>2, <2>3, <2>4 DEF SramInv
<1>10. QueueInv
  <2>1. /\ Counts([q \in Queues |-> 0], f, QueueOf, Queues)
        /\ Counts([k \in PortIndices |-> 0], f, PortIndexOf, PortIndices)
    BY <1>8, CounterZero, KeyTypes
  <2>2. /\ qUsed = [q \in Queues |-> 0] /\ qlens = [k \in PortIndices |-> 0]
        /\ activeQueNum = [port \in Ports |-> 0] /\ nPackets = 0
    BY DEF MmuInit, PortIndices
  <2>3. \A port \in Ports : Busy(port) = {}
    BY <2>2 DEF Busy
  <2>4. ActiveInv
    BY <2>2, <2>3, FS_EmptySet DEF ActiveInv
  <2> QED BY <1>5, <2>1, <2>2, <2>4, FS_EmptySet DEF QueueInv
<1>11. CacheInv /\ DramInv
  <2>1. /\ Counts([q \in Queues |-> 0], c, QueueOf, Queues)
        /\ Counts([pri \in Priorities |-> 0], c, PriOf, Priorities)
        /\ Counts([q \in Queues |-> 0], d, QueueOf, Queues)
        /\ Counts([pri \in Priorities |-> 0], d, PriOf, Priorities)
    BY <1>8, CounterZero, KeyTypes
  <2>2. /\ wcacheQlen = [q \in Queues |-> 0] /\ priWcacheUsed = [pri \in Priorities |-> 0]
        /\ dramQlen = [q \in Queues |-> 0] /\ priDramUsed = [pri \in Priorities |-> 0]
    BY DEF MmuInit
  <2> QED BY <2>1, <2>2 DEF CacheInv, DramInv
<1>12. BmInv
  BY DEF MmuInit, BmInv
<1> QED BY <1>2, <1>9, <1>10, <1>11, <1>12 DEF MmuInv

LEMMA AlwaysMmuInv == MmuSpec => []MmuInv
BY InitMmuInv, NextMmuInv, PTL DEF MmuSpec

-----------------------------------------------------------------------------
(***************************************************************************)
(* What the invariant says of the properties the runs check.               *)
(***************************************************************************)
LEMMA MmuInvTypes == MmuInv => MmuTypeOK
<1> SUFFICES ASSUME MmuInv
             PROVE  MmuTypeOK
  OBVIOUS
<1>1. TypeOK
  BY EngineInvImplies, Zenon DEF MmuInv, PlacesInv
<1>2. /\ onChipRemain \in Nat
      /\ usedSram \in [Queues -> Nat] /\ priOnChipUsed \in [Priorities -> Nat]
      /\ priDpUsed \in [PortPris -> Nat]
  BY Zenon DEF MmuInv, SramInv, Counts
<1>3. /\ qUsed \in [Queues -> Nat] /\ qlens \in [PortIndices -> Nat]
      /\ activeQueNum \in [Ports -> Nat] /\ nPackets \in Nat
  BY ChargedFinite, Zenon DEF MmuInv, QueueInv, ActiveInv, Counts
<1>4. /\ wcacheQlen \in [Queues -> Nat] /\ priWcacheUsed \in [Priorities -> Nat]
      /\ dramQlen \in [Queues -> Nat] /\ priDramUsed \in [Priorities -> Nat]
  BY Zenon DEF MmuInv, CacheInv, DramInv, Counts
<1>5. BmInv
  BY Zenon DEF MmuInv
<1> QED BY <1>1, <1>2, <1>3, <1>4, <1>5, Zenon DEF MmuTypeOK, BmInv, PortPris, PortIndices

(***************************************************************************)
(* Every variable of the MMU keeps its type; in particular no counter is   *)
(* ever taken below zero, by whatever reads and writes race in the buffer. *)
(***************************************************************************)
THEOREM MmuTypes == MmuSpec => []MmuTypeOK
BY AlwaysMmuInv, MmuInvTypes, PTL

(***************************************************************************)
(* The bytes of a function that is zero outside a set, under a key.        *)
(***************************************************************************)
Keyed(S, key, k) == {p \in S : key[p] = k}

LEMMA BytesUnder ==
  ASSUME NEW f, NEW g, NEW S \in SUBSET Packets, NEW key, NEW k,
         \A p \in S : f[p] = g[p] /\ g[p] \in Int, \A p \in Packets \ S : f[p] = 0
  PROVE  SumFunctionOnSet(f, Under(key, k)) = Bytes(g, Keyed(S, key, k))
<1> PICK T : T = Keyed(S, key, k)
  OBVIOUS
<1>1. IsFiniteSet(Under(key, k)) /\ T \in SUBSET Under(key, k)
  BY BufferAssumption, FS_Subset DEF Under, Keyed
<1>2. /\ T \in SUBSET Under(key, k)
      /\ \A p \in T : f[p] = g[p] /\ g[p] \in Int
      /\ \A p \in Under(key, k) \ T : f[p] = 0
  BY <1>1 DEF Under, Keyed
<1>3. SumFunctionOnSet(f, Under(key, k)) = SumFunctionOnSet(g, T)
  BY <1>1, <1>2, SumWhere
<1> QED BY <1>3 DEF Bytes

LEMMA SizesOfOnChip ==
  ASSUME NEW key, NEW k
  PROVE  SumFunctionOnSet(InSram, Under(key, k)) = Bytes(Size, Keyed(OnChip, key, k))
<1>1. OnChip \in SUBSET Packets
  BY DEF OnChip
<1>2. \A p \in Packets : Size[p] \in Int
  BY BufferAssumption
<1>3. \A p \in OnChip : InSram[p] = Size[p]
  BY DEF InSram, OnChip
<1>4. \A p \in Packets \ OnChip : InSram[p] = 0
  BY DEF InSram, OnChip
<1> PICK f : f = InSram
  OBVIOUS
<1> PICK S : S = OnChip
  OBVIOUS
<1>5. /\ \A p \in S : f[p] = Size[p] /\ Size[p] \in Int
      /\ \A p \in Packets \ S : f[p] = 0
      /\ S \in SUBSET Packets
  BY <1>1, <1>2, <1>3, <1>4
<1>6. SumFunctionOnSet(f, Under(key, k)) = Bytes(Size, Keyed(S, key, k))
  BY <1>5, BytesUnder
<1> QED BY <1>6

LEMMA SizesOfCharged ==
  ASSUME NEW key, NEW k
  PROVE  SumFunctionOnSet(ForQueue, Under(key, k)) = Bytes(Size, Keyed(Charged, key, k))
<1>1. Charged \in SUBSET Packets
  BY DEF Charged
<1>2. \A p \in Packets : Size[p] \in Int
  BY BufferAssumption
<1>3. \A p \in Charged : ForQueue[p] = Size[p]
  BY <1>1 DEF ForQueue
<1>4. \A p \in Packets \ Charged : ForQueue[p] = 0
  BY DEF ForQueue
<1> PICK f : f = ForQueue
  OBVIOUS
<1> PICK S : S = Charged
  OBVIOUS
<1>5. /\ \A p \in S : f[p] = Size[p] /\ Size[p] \in Int
      /\ \A p \in Packets \ S : f[p] = 0
      /\ S \in SUBSET Packets
  BY <1>1, <1>2, <1>3, <1>4
<1>6. SumFunctionOnSet(f, Under(key, k)) = Bytes(Size, Keyed(S, key, k))
  BY <1>5, BytesUnder
<1> QED BY <1>6

(***************************************************************************)
(* The sums of the properties run over packets, those of the invariant     *)
(* over keys.                                                              *)
(***************************************************************************)
LEMMA MmuInvMemories == MmuInv => MemoriesCounted
<1> SUFFICES ASSUME MmuInv
             PROVE  MemoriesCounted
  OBVIOUS
<1>1. SramInv /\ CacheInv /\ DramInv
  BY Zenon DEF MmuInv
<1>2. \A p \in OnChip : p \in Packets
  BY DEF OnChip
<1>3. SramAccounted
  <2>1. onChipRemain \in Nat /\ onChipRemain = OnChipSize - Bytes(Size, OnChip)
    <3>1. \A p \in Packets : Size[p] \in Int
      BY BufferAssumption
    <3>2. IsFiniteSet(Packets) /\ OnChip \in SUBSET Packets
      BY BufferAssumption DEF OnChip
    <3>3. /\ \A p \in OnChip : InSram[p] = Size[p]
          /\ \A p \in Packets \ OnChip : InSram[p] = 0
      BY DEF InSram, OnChip
    <3>4. SumFunctionOnSet(InSram, Packets) = SumFunctionOnSet(Size, OnChip)
      <4> PICK f : f = InSram
        OBVIOUS
      <4>1. /\ \A p \in OnChip : f[p] = Size[p] /\ Size[p] \in Int
            /\ \A p \in Packets \ OnChip : f[p] = 0
        BY <3>1, <3>2, <3>3
      <4>2. SumFunctionOnSet(f, Packets) = SumFunctionOnSet(Size, OnChip)
        BY <3>2, <4>1, SumWhere
      <4> QED BY <4>2
    <3> QED BY <1>1, <3>4, Zenon DEF SramInv, Bytes
  <2>2. onChipRemain >= 0
    BY <2>1
  <2>3. \A q \in Queues : usedSram[q] = Bytes(Size, {p \in OnChip : QueueOf[p] = q})
    <3>1. \A q : SumFunctionOnSet(InSram, Under(QueueOf, q)) = Bytes(Size, Keyed(OnChip, QueueOf, q))
      BY SizesOfOnChip
    <3>2. \A q : Keyed(OnChip, QueueOf, q) = {p \in OnChip : QueueOf[p] = q}
      BY DEF Keyed
    <3> QED BY <1>1, <3>1, <3>2, Zenon DEF SramInv, Counts
  <2>4. \A pri \in Priorities : priOnChipUsed[pri] = Bytes(Size, {p \in OnChip : QueueOf[p].pri = pri})
    <3>1. ASSUME NEW pri \in Priorities
          PROVE  priOnChipUsed[pri] = Bytes(Size, {p \in OnChip : QueueOf[p].pri = pri})
      <4>1. Keyed(OnChip, PriOf, pri) = {p \in OnChip : QueueOf[p].pri = pri}
        BY <1>2 DEF PriOf, Keyed
      <4>2. SumFunctionOnSet(InSram, Under(PriOf, pri)) = Bytes(Size, Keyed(OnChip, PriOf, pri))
        BY SizesOfOnChip
      <4>3. priOnChipUsed[pri] = SumFunctionOnSet(InSram, Under(PriOf, pri))
        BY <1>1, Zenon DEF SramInv, Counts
      <4> QED BY <4>1, <4>2, <4>3, Zenon
    <3> QED BY <3>1
  <2>5. \A k \in DOMAIN priDpUsed : priDpUsed[k] = Bytes(Size, {p \in OnChip : PortPri(QueueOf[p]) = k})
    <3>1. DOMAIN priDpUsed = PortPris
      BY <1>1 DEF SramInv, Counts
    <3>2. ASSUME NEW k \in PortPris
          PROVE  priDpUsed[k] = Bytes(Size, {p \in OnChip : PortPri(QueueOf[p]) = k})
      <4>1. Keyed(OnChip, PortPriOf, k) = {p \in OnChip : PortPri(QueueOf[p]) = k}
        BY <1>2 DEF PortPriOf, Keyed
      <4>2. SumFunctionOnSet(InSram, Under(PortPriOf, k)) = Bytes(Size, Keyed(OnChip, PortPriOf, k))
        BY SizesOfOnChip
      <4>3. priDpUsed[k] = SumFunctionOnSet(InSram, Under(PortPriOf, k))
        BY <1>1, Zenon DEF SramInv, Counts
      <4> QED BY <4>1, <4>2, <4>3, Zenon
    <3> QED BY <3>1, <3>2
  <2> QED BY <2>1, <2>2, <2>3, <2>4, <2>5 DEF SramAccounted
<1>4. OffChipAccounted
  <2>1. \A pri : Under(PriOf, pri) = {p \in Packets : QueueOf[p].pri = pri}
    BY DEF Under, PriOf
  <2>2. \A q \in Queues : /\ wcacheQlen[q] = Bytes(InCache, {p \in Packets : QueueOf[p] = q})
                          /\ dramQlen[q] = Bytes(InDram, {p \in Packets : QueueOf[p] = q})
    BY <1>1, Zenon DEF CacheInv, DramInv, Counts, Bytes, Under
  <2>3. \A pri \in Priorities : /\ priWcacheUsed[pri] = Bytes(InCache, Under(PriOf, pri))
                                /\ priDramUsed[pri] = Bytes(InDram, Under(PriOf, pri))
    BY <1>1, Zenon DEF CacheInv, DramInv, Counts, Bytes
  <2>4. \A pri \in Priorities : /\ priWcacheUsed[pri] = Bytes(InCache, {p \in Packets : QueueOf[p].pri = pri})
                                /\ priDramUsed[pri] = Bytes(InDram, {p \in Packets : QueueOf[p].pri = pri})
    BY <2>1, <2>3, Zenon
  <2> QED BY <2>2, <2>4, Zenon DEF OffChipAccounted
<1> QED BY <1>3, <1>4 DEF MemoriesCounted

(***************************************************************************)
(* The counters of SRAM, the write cache and DRAM, by queue, priority and  *)
(* port, are the bytes of the packets there, also while a write cycle that *)
(* a read has stopped is still to report what it moved.                    *)
(***************************************************************************)
THEOREM MemoriesAreCounted == MmuSpec => []MemoriesCounted
BY AlwaysMmuInv, MmuInvMemories, PTL

(***************************************************************************)
(* A queue has bytes exactly if a packet of it is charged.                 *)
(***************************************************************************)
LEMMA BusyIsCharged ==
  ASSUME MmuInv, NEW q \in Queues
  PROVE  qUsed[q] # 0 <=> \E p \in Charged : QueueOf[p] = q
<1>1. qUsed[q] = SumFunctionOnSet(ForQueue, Under(QueueOf, q))
  BY Zenon DEF MmuInv, QueueInv, Counts
<1>2. IsFiniteSet(Under(QueueOf, q)) /\ Under(QueueOf, q) \in SUBSET Packets
  BY BufferAssumption, FS_Subset DEF Under
<1>3. \A p \in Packets : ForQueue[p] \in Nat
  BY BytesAreSizes DEF MmuInv, Sizing
<1>4. ASSUME NEW p \in Charged, QueueOf[p] = q
      PROVE  qUsed[q] # 0
  <2>1. p \in Packets /\ p \in Under(QueueOf, q)
    BY <1>4 DEF Charged, Under
  <2>2. Size[p] \in Nat \ {0}
    BY <2>1, BufferAssumption
  <2>3. ForQueue[p] = Size[p]
    BY <1>4, <2>1 DEF ForQueue
  <2> PICK f : f = ForQueue
    OBVIOUS
  <2> PICK T : T = Under(QueueOf, q)
    OBVIOUS
  <2>4. /\ IsFiniteSet(T) /\ p \in T
        /\ \A x \in T : f[x] \in Int
        /\ IsFiniteSet(T \ {p}) /\ \A x \in T \ {p} : f[x] \in Nat
    BY <1>2, <1>3, <2>1, FS_Subset
  <2>5. SumFunctionOnSet(f, T) = f[p] + SumFunctionOnSet(f, T \ {p})
    BY <2>4, SumRemove
  <2>6. SumFunctionOnSet(f, T \ {p}) \in Nat
    BY <2>4, SumNat
  <2> QED BY <1>1, <2>2, <2>3, <2>5, <2>6
<1>5. ASSUME ~\E p \in Charged : QueueOf[p] = q
      PROVE  qUsed[q] = 0
  <2>1. \A p \in Under(QueueOf, q) : ForQueue[p] = 0
    BY <1>5 DEF Under, ForQueue
  <2>2. SumFunctionOnSet(ForQueue, Under(QueueOf, q)) = 0
    BY <1>2, <2>1, SumZero
  <2> QED BY <1>1, <2>2
<1> QED BY <1>4, <1>5

LEMMA MmuInvQueues == MmuInv => QueuesAccounted
<1> SUFFICES ASSUME MmuInv
             PROVE  QueuesAccounted
  OBVIOUS
<1>1. QueueInv
  BY Zenon DEF MmuInv
<1>2. \A p \in Charged : p \in Packets
  BY DEF Charged
<1>3. nPackets = Cardinality(Charged)
  BY <1>1 DEF QueueInv
<1>4. \A q \in Queues : qUsed[q] = Bytes(Size, {p \in Charged : QueueOf[p] = q})
  <2>1. \A q : SumFunctionOnSet(ForQueue, Under(QueueOf, q)) = Bytes(Size, Keyed(Charged, QueueOf, q))
    BY SizesOfCharged
  <2>2. \A q : Keyed(Charged, QueueOf, q) = {p \in Charged : QueueOf[p] = q}
    BY DEF Keyed
  <2> QED BY <1>1, <2>1, <2>2, Zenon DEF QueueInv, Counts
<1>5. \A k \in DOMAIN qlens : qlens[k] = Bytes(Size, {p \in Charged : PortIndex(QueueOf[p]) = k})
  <2>1. DOMAIN qlens = PortIndices
    BY <1>1 DEF QueueInv, Counts
  <2>2. ASSUME NEW k \in PortIndices
        PROVE  qlens[k] = Bytes(Size, {p \in Charged : PortIndex(QueueOf[p]) = k})
    <3>1. Keyed(Charged, PortIndexOf, k) = {p \in Charged : PortIndex(QueueOf[p]) = k}
      BY <1>2 DEF PortIndexOf, Keyed
    <3>2. SumFunctionOnSet(ForQueue, Under(PortIndexOf, k)) = Bytes(Size, Keyed(Charged, PortIndexOf, k))
      BY SizesOfCharged
    <3>3. qlens[k] = SumFunctionOnSet(ForQueue, Under(PortIndexOf, k))
      BY <1>1, Zenon DEF QueueInv, Counts
    <3> QED BY <3>1, <3>2, <3>3, Zenon
  <2> QED BY <2>1, <2>2
<1>6. \A port \in Ports :
        activeQueNum[port] = Cardinality({QueueOf[p] : p \in {r \in Charged : QueueOf[r].port = port}})
  <2>1. ASSUME NEW port \in Ports
        PROVE  Busy(port) = {QueueOf[p] : p \in {r \in Charged : QueueOf[r].port = port}}
    <3>1. \A p \in Charged : QueueOf[p] \in Queues
      BY <1>2, MmuAssumption
    <3>2. \A q \in Queues : qUsed[q] # 0 <=> \E p \in Charged : QueueOf[p] = q
      BY BusyIsCharged
    <3> QED BY <3>1, <3>2 DEF Busy
  <2> QED BY <1>1, <2>1, Zenon DEF QueueInv, ActiveInv
<1> QED BY <1>3, <1>4, <1>5, <1>6, Zenon DEF QueuesAccounted

(***************************************************************************)
(* A queue is charged for a packet from its admission to its fetch, and a  *)
(* port counts its queues that are: what WRED, HW and FBM take for the     *)
(* length of a queue is the bytes of its packets in the switch.            *)
(***************************************************************************)
THEOREM QueuesAreAccounted == MmuSpec => []QueuesAccounted
BY AlwaysMmuInv, MmuInvQueues, PTL

-----------------------------------------------------------------------------
(***************************************************************************)
(* Admission.  BASELINE and DEEPHIR look at the room their decision takes. *)
(* FBM looks too, except when it keeps the direction of a mixed queue at   *)
(* the start of a period that has been out of date.  HW compares what the  *)
(* write cache holds with a threshold, which is its room only where the    *)
(* threshold is at least a packet below the size of the cache.             *)
(***************************************************************************)
LEMMA AdmissionHolds ==
  ASSUME MmuInv, NEW p \in Packets, NEW d \in FindBufferLocation(p)
  PROVE  Fits(p, d.to) \/ IgnoresRoom(p, d)
<1>1. /\ Size[p] \in Nat /\ onChipRemain \in Nat /\ WcacheSize \in Nat /\ wcacheUsed \in Int
      /\ Hw[QueueOf[p]].wcacheFullTh \in Nat
  <2>1. Size[p] \in Nat /\ WcacheSize \in Nat
    BY BufferAssumption
  <2>2. onChipRemain \in Nat /\ wcacheUsed \in Int
    BY Zenon DEF MmuInv, SramInv, PlacesInv, EngineInv, PacketsOK
  <2>3. Hw[QueueOf[p]] \in HwParameters
    BY MmuAssumption
  <2> QED BY <2>1, <2>2, <2>3 DEF HwParameters
<1>2. bm \in {"HW", "TDT", "YSL", "BASELINE", "DEEPHIR", "OTHER"}
  BY MmuAssumption, Zenon DEF MmuInv, BmInv
<1>3. HasOffChipSpace(p) => Size[p] <= WcacheSize - wcacheUsed
  BY <1>1 DEF HasOffChipSpace
<1>4. CASE bm = "HW"
  <2>1. d = CheckHWBmAlgorithm(p)
    BY <1>4 DEF FindBufferLocation
  <2>2. d.to = HwPlace(p, QueueOf[p])
    BY <2>1 DEF CheckHWBmAlgorithm, Decide
  <2>3. d.to = "ONCHIP" => Size[p] <= onChipRemain
    BY <1>1, <2>2 DEF HwPlace
  <2>4. d.to = "OFFCHIP" => HwAllowsOffChip(p, QueueOf[p])
    BY <2>2 DEF HwPlace
  <2>5. CASE d.to = "OFFCHIP" /\ Hw[QueueOf[p]].wcacheFullTh + Size[p] > WcacheSize + 1
    BY <1>4, <2>5 DEF IgnoresRoom
  <2>6. CASE Hw[QueueOf[p]].wcacheFullTh + Size[p] <= WcacheSize + 1
    <3>1. d.to = "OFFCHIP" => wcacheUsed < Hw[QueueOf[p]].wcacheFullTh
      BY <2>4 DEF HwAllowsOffChip
    <3>2. d.to = "OFFCHIP" => Size[p] <= WcacheSize - wcacheUsed
      BY <1>1, <2>6, <3>1
    <3> QED BY <2>3, <3>2 DEF Fits, WcacheHasRoom
  <2>7. CASE d.to # "OFFCHIP"
    BY <2>3, <2>7 DEF Fits
  <2> QED BY <1>1, <2>5, <2>6, <2>7
<1>5. CASE bm = "BASELINE"
  <2>1. d = CheckBaselineBmAlgorithm(p)
    BY <1>5 DEF FindBufferLocation
  <2>2. d.to = IF WcacheSize - wcacheUsed >= Size[p] /\ HasDramSpace(p) THEN "OFFCHIP" ELSE "DROP"
    BY <2>1 DEF CheckBaselineBmAlgorithm, Decide
  <2> QED BY <1>1, <2>2 DEF Fits, WcacheHasRoom
<1>6. CASE bm = "DEEPHIR"
  <2>1. d = CheckDeepHirBmAlgorithm(p)
    BY <1>6 DEF FindBufferLocation
  <2>2. \/ d.to = "ONCHIP" /\ Size[p] <= onChipRemain
        \/ d.to = "OFFCHIP" /\ HasOffChipSpace(p)
        \/ d.to = "DROP"
    BY <2>1 DEF CheckDeepHirBmAlgorithm, OnChipElseOffChip, Decide
  <2> QED BY <1>3, <2>2 DEF Fits, WcacheHasRoom
<1>7. CASE bm = "TDT"
  <2>1. d \in Check3DTBmAlgorithm(p)
    BY <1>7 DEF FindBufferLocation
  <2>2. Fits(p, "DROP")
    BY DEF Fits
  <2>3. (Size[p] <= onChipRemain => Fits(p, "ONCHIP")) /\ (HasOffChipSpace(p) => Fits(p, "OFFCHIP"))
    BY <1>3 DEF Fits, WcacheHasRoom
  <2>4. \A fits : (fits => Size[p] <= onChipRemain) => Fits(p, OnChipElseOffChip(p, fits))
    BY <2>2, <2>3, Zenon DEF OnChipElseOffChip
  <2>5. \A sram : Fits(p, Follow(p, sram))
    BY <2>2, <2>3, Zenon DEF Follow, FitsSram
  <2>6. \A to : Decide(QueueOf[p], to).to = to
    BY DEF Decide
  <2>7. CASE d = FbmAck(p)
    <3>1. d.to = OnChipElseOffChip(p, Size[p] <= onChipRemain)
      BY <2>6, <2>7, Zenon DEF FbmAck
    <3> QED BY <2>4, <3>1
  <2>8. CASE Size[p] >= AckLimit /\ d = FbmReset(p)
    <3>1. CASE IsMixed(p)
      BY <1>7, <2>8, <3>1 DEF IgnoresRoom
    <3>2. CASE ~IsMixed(p)
      <4> DEFINE place == OnChipElseOffChip(p, FitsSram(p))
      <4>1. d = [Decide(QueueOf[p], place) EXCEPT !.started = TRUE,
                   !.sram = IF place = "DROP" THEN @ ELSE place = "ONCHIP"]
        BY <2>8, <3>2, Zenon DEF FbmReset
      <4> HIDE DEF place
      <4>2. d.to = place
        BY <4>1 DEF Decide
      <4>3. FitsSram(p) => Size[p] <= onChipRemain
        BY Zenon DEF FitsSram
      <4> QED BY <2>4, <4>2, <4>3 DEF place
    <3> QED BY <3>1, <3>2
  <2>9. CASE d = FbmWithinPeriod(p)
    <3>1. d.to = Follow(p, storeDecision[QueueOf[p]])
      BY <2>6, <2>9, Zenon DEF FbmWithinPeriod
    <3> QED BY <2>5, <3>1
  <2>10. ASSUME NEW sram, d = FbmPeriodEnd(p, sram)
         PROVE  Fits(p, d.to)
    <3>1. d = [Decide(QueueOf[p], Follow(p, sram)) EXCEPT !.sram = sram]
      BY <2>10, Zenon DEF FbmPeriodEnd
    <3>2. d.to = Follow(p, sram)
      BY <3>1 DEF Decide
    <3> QED BY <2>5, <3>2
  <2>11. \/ d = FbmAck(p)
         \/ Size[p] >= AckLimit /\ d = FbmReset(p)
         \/ d = FbmWithinPeriod(p)
         \/ \E sram : d = FbmPeriodEnd(p, sram)
    <3>1. AckLimit \in Nat
      BY MmuAssumption
    <3> QED BY <1>1, <2>1, <3>1 DEF Check3DTBmAlgorithm
  <2> QED BY <2>7, <2>8, <2>9, <2>10, <2>11
<1>8. CASE bm \in {"YSL", "OTHER"}
  BY <1>8 DEF IgnoresRoom
<1> QED BY <1>2, <1>4, <1>5, <1>6, <1>7, <1>8

(***************************************************************************)
(* The assertions of Store and SendWriteRequestStart can fail, but only    *)
(* where an algorithm decides without a look at the room: YSL, the one of  *)
(* last resort, FBM for a mixed queue when its period starts, and HW with  *)
(* a wcacheFullTh too high for the write cache, as by default.             *)
(***************************************************************************)
THEOREM MisfitsAreBlind == MmuSpec => []OnlyBlindAdmissionsMisfit
<1>1. MmuInv => OnlyBlindAdmissionsMisfit
  <2> SUFFICES ASSUME MmuInv, NEW p \in Packets, NEW d \in FindBufferLocation(p)
               PROVE  Fits(p, d.to) \/ IgnoresRoom(p, d)
    BY DEF OnlyBlindAdmissionsMisfit
  <2> QED BY AdmissionHolds
<1> QED BY <1>1, AlwaysMmuInv, PTL

(***************************************************************************)
(* They never fail with BASELINE and DEEPHIR.                              *)
(***************************************************************************)
THEOREM AdmissionAlwaysFits ==
  ASSUME BmAlgorithms \subseteq {"BASELINE", "DEEPHIR"}
  PROVE  MmuSpec => []AdmissionFits
<1>1. MmuInv => AdmissionFits
  <2> SUFFICES ASSUME MmuInv, NEW p \in Packets, NEW d \in FindBufferLocation(p)
               PROVE  Fits(p, d.to)
    BY DEF AdmissionFits
  <2>1. Fits(p, d.to) \/ IgnoresRoom(p, d)
    BY AdmissionHolds
  <2>2. bm \in {"BASELINE", "DEEPHIR"}
    BY DEF MmuInv, BmInv
  <2> QED BY <2>1, <2>2 DEF IgnoresRoom
<1> QED BY <1>1, AlwaysMmuInv, PTL

-----------------------------------------------------------------------------
(***************************************************************************)
(* The MMU implements PacketBuffer: each of its steps is one of that       *)
(* specification's on the status of a packet and the charge of its queue,  *)
(* or changes neither.                                                     *)
(***************************************************************************)
PacketStatus == [p \in Packets |-> Status(p)]

LEMMA StatusMoves ==
  ASSUME NEW p \in Packets, NEW to,
         \A q \in Packets \ {p} : location'[q] = location[q] /\ stage'[q] = stage[q],
         Status(p)' = to
  PROVE  PacketStatus' = [PacketStatus EXCEPT ![p] = to]
<1>1. \A q \in Packets \ {p} : Status(q)' = Status(q)
  BY DEF Status, Fetched
<1> QED BY <1>1 DEF PacketStatus

LEMMA StatusStays ==
  ASSUME NEW p \in Packets,
         \A q \in Packets \ {p} : location'[q] = location[q] /\ stage'[q] = stage[q],
         Status(p)' = Status(p)
  PROVE  PacketStatus' = PacketStatus
<1>1. \A q \in Packets \ {p} : Status(q)' = Status(q)
  BY DEF Status, Fetched
<1> QED BY <1>1 DEF PacketStatus

(***************************************************************************)
(* The steps of PacketBuffer, in terms of the MMU.                         *)
(***************************************************************************)
LEMMA BufferStepIs ==
  ASSUME NEW p \in Packets,
         \A q \in Packets \ {p} : location'[q] = location[q] /\ stage'[q] = stage[q],
         \/ /\ Status(p) = "out" /\ Status(p)' = "held"
            /\ qUsed' = Plus(qUsed, QueueOf[p], Size[p])
         \/ /\ Status(p) = "held" /\ Status(p)' = "fetched"
            /\ qUsed' = Plus(qUsed, QueueOf[p], -Size[p])
         \/ /\ Status(p) = "held" /\ Status(p)' = "asked" /\ qUsed' = qUsed
         \/ /\ Status(p) = "asked" /\ Status(p)' = "fetched"
            /\ qUsed' = Plus(qUsed, QueueOf[p], -Size[p])
         \/ /\ Status(p) = "fetched" /\ Status(p)' = "out" /\ qUsed' = qUsed
  PROVE  Buffer!PacketBufferNext
<1>1. PacketStatus[p] = Status(p)
  BY DEF PacketStatus
<1>2. \A from, to : Status(p) = from /\ Status(p)' = to => Buffer!Moves(p, from, to)
  BY <1>1, StatusMoves DEF Buffer!Moves, PacketStatus
<1>3. \A n : qUsed' = Plus(qUsed, QueueOf[p], n) => Buffer!Charge(p, n)
  BY DEF Buffer!Charge, Plus
<1>4. \/ Buffer!Keep(p) \/ Buffer!AskHit(p) \/ Buffer!AskMiss(p)
      \/ Buffer!Complete(p) \/ Buffer!Release(p)
  BY <1>2, <1>3, Zenon
     DEF Buffer!Keep, Buffer!AskHit, Buffer!AskMiss, Buffer!Complete, Buffer!Release
<1> QED BY <1>4, Zenon DEF Buffer!PacketBufferNext

BufferStutters == PacketStatus' = PacketStatus /\ qUsed' = qUsed

(***************************************************************************)
(* A step of an engine cycle completes the fetch of its packet or changes  *)
(* nothing that the callers see.                                           *)
(***************************************************************************)
LEMMA CycleIsBufferStep ==
  ASSUME PlacesInv, NEW p \in Packets, NEW result \in {"PKTWRITE", "PKTREAD"},
         NEW left \in Nat, NEW pending, NEW writing, stage' = stage,
         ScheduleCycleAtomic(p, result, left, pending, writing), Report(p, result, left),
         result = "PKTWRITE" /\ ~CycleIsOver(left) =>
           stage[p] = "stored" /\ location[p] \in {"WCACHE", "WRITINGTOOFFCHIPBUFFER"},
         result = "PKTREAD" => stage[p] = "asked" /\ InOffChipBuffer(p)
  PROVE  Buffer!PacketBufferNext \/ BufferStutters
<1>1. location \in [Packets -> Locations]
  BY DEF PlacesInv, EngineInv, PacketsOK
<1>2. CASE CycleIsOver(left) /\ result = "PKTREAD"
  <2>1. FetchComplete(p) /\ DischargeQueue(p)
    BY <1>2, Zenon DEF ScheduleCycleAtomic, CycleComplete, Report
  <2>2. location' = [location EXCEPT ![p] = "NOTINBUFFER"]
        /\ qUsed' = Plus(qUsed, QueueOf[p], -Size[p])
    BY <2>1, Zenon DEF FetchComplete, DischargeQueue
  <2>3. Status(p) = "asked" /\ Status(p)' = "fetched"
    BY <1>1, <1>2, <2>2 DEF Status, Fetched, InOffChipBuffer
  <2>4. \A q \in Packets \ {p} : location'[q] = location[q] /\ stage'[q] = stage[q]
    BY <1>1, <2>2
  <2> QED BY <2>2, <2>3, <2>4, BufferStepIs
<1>3. CASE CycleIsOver(left) /\ result = "PKTWRITE"
  <2>1. location' = location /\ qUsed' = qUsed
    BY <1>3, Zenon DEF ScheduleCycleAtomic, CycleComplete, Report, queueVars
  <2> QED BY <2>1 DEF BufferStutters, PacketStatus, Status, Fetched
<1>4. CASE ~CycleIsOver(left) /\ result = "PKTREAD"
  <2>1. location' = location /\ qUsed' = qUsed
    BY <1>4, Zenon DEF ScheduleCycleAtomic, AtomicRead, Report, queueVars
  <2> QED BY <2>1 DEF BufferStutters, PacketStatus, Status, Fetched
<1>5. CASE ~CycleIsOver(left) /\ result = "PKTWRITE"
  <2>1. AtomicWrite(p, left, pending, writing) /\ qUsed' = qUsed
    BY <1>5, Zenon DEF ScheduleCycleAtomic, Report, queueVars
  <2>2. \A q \in Packets \ {p} : location'[q] = location[q] /\ stage'[q] = stage[q]
    BY <1>1, <2>1 DEF AtomicWrite
  <2>3. Status(p) = "held" /\ Status(p)' = "held"
    BY <1>5 DEF Status
  <2> QED BY <2>1, <2>2, <2>3, StatusStays DEF BufferStutters
<1> QED BY <1>2, <1>3, <1>4, <1>5

LEMMA IngressIsBufferStep ==
  ASSUME PlacesInv, NEW p \in Packets, Ingress(p)
  PROVE  Buffer!PacketBufferNext \/ BufferStutters
<1>1. location \in [Packets -> Locations] /\ stage \in [Packets -> {"new", "stored", "asked"}]
  BY DEF PlacesInv, EngineInv, PacketsOK
<1>2. stage[p] = "new" /\ (StoreOnChip(p) \/ StoreOffChip(p) \/ Refuse(p))
  <2>1. PICK d \in FindBufferLocation(p) :
           CASE d.to = "ONCHIP"  -> StoreOnChip(p)
             [] d.to = "OFFCHIP" -> StoreOffChip(p)
             [] OTHER            -> Refuse(p)
    BY Zenon DEF Ingress
  <2>2. stage[p] = "new"
    BY Zenon DEF Ingress
  <2> QED BY <2>1, <2>2
<1>3. CASE StoreOnChip(p) \/ StoreOffChip(p)
  <2>1. /\ stage' = [stage EXCEPT ![p] = "stored"]
        /\ \E l \in Locations : location' = [location EXCEPT ![p] = l]
        /\ qUsed' = Plus(qUsed, QueueOf[p], Size[p])
    BY <1>3, Zenon DEF StoreOnChip, StoreOffChip, Write, ChargeQueue, Locations
  <2>2. \A q \in Packets \ {p} : location'[q] = location[q] /\ stage'[q] = stage[q]
    BY <1>1, <2>1
  <2>3. Status(p) = "out" /\ Status(p)' = "held"
    BY <1>1, <1>2, <2>1 DEF Status
  <2> QED BY <2>1, <2>2, <2>3, BufferStepIs
<1>4. CASE Refuse(p)
  <2>1. location' = location /\ stage' = stage /\ qUsed' = qUsed
    BY <1>4, Zenon DEF Refuse, vars, packetVars, queueVars
  <2> QED BY <2>1 DEF BufferStutters, PacketStatus, Status, Fetched
<1> QED BY <1>2, <1>3, <1>4

LEMMA FetchIsBufferStep ==
  ASSUME PlacesInv, NEW p \in Packets,
         FetchOnChip(p) \/ FetchFromWcache(p) \/ FetchBeingWritten(p) \/ FetchFromDram(p)
  PROVE  Buffer!PacketBufferNext
<1>1. location \in [Packets -> Locations] /\ stage \in [Packets -> {"new", "stored", "asked"}]
  BY DEF PlacesInv, EngineInv, PacketsOK
<1>2. CASE FetchOnChip(p) \/ FetchFromWcache(p)
  <2>1. /\ stage[p] = "stored" /\ stage' = [stage EXCEPT ![p] = "asked"]
        /\ location' = [location EXCEPT ![p] = "NOTINBUFFER"]
        /\ qUsed' = Plus(qUsed, QueueOf[p], -Size[p])
    BY <1>2, Zenon DEF FetchOnChip, FetchFromWcache, ReadFromWcache, Asked, FetchComplete, DischargeQueue
  <2>2. \A q \in Packets \ {p} : location'[q] = location[q] /\ stage'[q] = stage[q]
    BY <1>1, <2>1
  <2>3. Status(p) = "held" /\ Status(p)' = "fetched"
    BY <1>1, <2>1 DEF Status, Fetched
  <2> QED BY <2>1, <2>2, <2>3, BufferStepIs
<1>3. CASE FetchBeingWritten(p) \/ FetchFromDram(p)
  <2>1. /\ stage[p] = "stored" /\ InOffChipBuffer(p) /\ stage' = [stage EXCEPT ![p] = "asked"]
        /\ location' = location /\ qUsed' = qUsed
    BY <1>3, Zenon DEF FetchBeingWritten, FetchFromDram, ReadInterruptsWrite, ReadFromDram, Asked,
                       packetVars, queueVars
  <2>2. \A q \in Packets \ {p} : location'[q] = location[q] /\ stage'[q] = stage[q]
    BY <1>1, <2>1
  <2>3. Status(p) = "held" /\ Status(p)' = "asked"
    BY <1>1, <2>1 DEF Status, Fetched, InOffChipBuffer
  <2> QED BY <2>1, <2>2, <2>3, BufferStepIs
<1> QED BY <1>2, <1>3

LEMMA DepartIsBufferStep ==
  ASSUME PlacesInv, NEW p \in Packets, MmuDepart(p)
  PROVE  Buffer!PacketBufferNext
<1>1. stage \in [Packets -> {"new", "stored", "asked"}]
  BY DEF PlacesInv, EngineInv, PacketsOK
<1>2. /\ Fetched(p) /\ stage' = [stage EXCEPT ![p] = "new"]
      /\ location' = location /\ qUsed' = qUsed
  BY Zenon DEF MmuDepart, Depart, queueVars
<1>3. \A q \in Packets \ {p} : location'[q] = location[q] /\ stage'[q] = stage[q]
  BY <1>1, <1>2
<1>4. Status(p) = "fetched" /\ Status(p)' = "out"
  BY <1>1, <1>2 DEF Status, Fetched
<1> QED BY <1>2, <1>3, <1>4, BufferStepIs

LEMMA EventIsBufferStep ==
  ASSUME PlacesInv, MmuStartWriteCycle \/ MmuStartReadCycle \/ MmuNextAtomic \/ MmuRequestArrives
  PROVE  Buffer!PacketBufferNext \/ BufferStutters
<1>1. EngineInv /\ QueuesOK /\ PacketsOK
  BY Zenon DEF PlacesInv, EngineInv
<1>2. CASE MmuRequestArrives
  <2>1. location' = location /\ stage' = stage /\ qUsed' = qUsed
    BY <1>2, Zenon DEF MmuRequestArrives, RequestArrives, packetVars, queueVars
  <2> QED BY <2>1 DEF BufferStutters, PacketStatus, Status, Fetched
<1>3. CASE MmuStartWriteCycle
  <2>1. PICK i \in DOMAIN writeVec :
           /\ StartWriteCycle(i)
           /\ Report(writeVec[i], "PKTWRITE", OpTimes(Size[writeVec[i]]))
    BY <1>3, Zenon DEF MmuStartWriteCycle
  <2>2. PICK p : p = writeVec[i]
    OBVIOUS
  <2>3. /\ p \in Packets /\ stage[p] = "stored" /\ location[p] = "WCACHE"
        /\ stage' = stage /\ OpTimes(Size[p]) \in Nat
        /\ ScheduleCycleAtomic(p, "PKTWRITE", OpTimes(Size[p]), {}, p)
    BY <2>1, <2>2, StartWriteServes
  <2> HIDE DEF Report, ScheduleCycleAtomic
  <2>4. PICK left \in Nat : left = OpTimes(Size[p])
    BY <2>3
  <2>5. Report(p, "PKTWRITE", left) /\ ScheduleCycleAtomic(p, "PKTWRITE", left, {}, p)
    BY <2>1, <2>2, <2>3, <2>4
  <2> QED BY <2>3, <2>5, CycleIsBufferStep
<1>4. CASE MmuStartReadCycle
  <2>1. /\ StartReadCycle
        /\ readVec # <<>> => Report(readVec[1], "PKTREAD", OpTimes(stored[readVec[1]]))
    BY <1>4, Zenon DEF MmuStartReadCycle
  <2>2. CycleStart("PKTREAD") \in events /\ events \ {CycleStart("PKTREAD")} = {} /\ readVec # <<>>
    <3>1. OneEventChain /\ CycleStart("PKTREAD") \in events
      BY <1>1, <2>1, EngineInvImplies, Zenon DEF StartReadCycle
    <3> QED BY <3>1, Zenon DEF OneEventChain
  <2>3. PICK p : p = readVec[1]
    OBVIOUS
  <2>4. p \in Packets /\ ReadWaits(p)
    BY <1>1, <2>2, <2>3 DEF QueuesOK, ReadWaits, Range
  <2>5. stage[p] = "asked" /\ InOffChipBuffer(p) /\ stored[p] \in Nat
    BY <1>1, <2>4 DEF PlacesInv, Placed, ReadPlaces, PacketsOK
  <2>6. PICK left \in Nat : left = OpTimes(stored[p])
    BY <2>5, OpTimesNat
  <2>7. stage' = stage /\ ScheduleCycleAtomic(p, "PKTREAD", left, {}, writingPacket)
    BY <2>1, <2>2, <2>3, <2>6, Zenon DEF StartReadCycle
  <2>8. Report(p, "PKTREAD", left)
    BY <2>1, <2>2, <2>3, <2>6, Zenon
  <2> QED BY <2>4, <2>5, <2>7, <2>8, CycleIsBufferStep
<1>5. CASE MmuNextAtomic
  <2>1. PICK e \in events : NextAtomic(e) /\ Report(e.packet, e.result, e.left)
    BY <1>5, Zenon DEF MmuNextAtomic
  <2>2. /\ e \in Atomics /\ e.packet \in Packets /\ e.left \in Nat
        /\ e.result \in {"PKTWRITE", "PKTREAD"}
        /\ e.result = "PKTWRITE" /\ e.left # 0 /\ ~writingStopFlag =>
             stage[e.packet] = "stored" /\ location[e.packet] \in {"WCACHE", "WRITINGTOOFFCHIPBUFFER"}
        /\ e.result = "PKTREAD" => stage[e.packet] = "asked"
        /\ stage' = stage
        /\ ScheduleCycleAtomic(e.packet, e.result, e.left, {}, writingPacket)
    BY <2>1, NextAtomicServes
  <2>3. e.result = "PKTREAD" => Reading(e.packet)
    BY <2>2, Zenon DEF Reading
  <2>4. Reading(e.packet) => InOffChipBuffer(e.packet)
    BY <2>2, Zenon DEF PlacesInv, Placed, ReadPlaces
  <2>5. e.result = "PKTWRITE" /\ ~CycleIsOver(e.left) => e.left # 0 /\ ~writingStopFlag
    BY Zenon DEF CycleIsOver
  <2> QED BY <2>1, <2>2, <2>3, <2>4, <2>5, CycleIsBufferStep
<1> QED BY <1>2, <1>3, <1>4, <1>5

LEMMA NextIsBufferStep ==
  MmuInv /\ [MmuNext]_mmuVars => [Buffer!PacketBufferNext]_(Buffer!bufferVars)
<1> SUFFICES ASSUME MmuInv, [MmuNext]_mmuVars
             PROVE  Buffer!PacketBufferNext \/ BufferStutters
  BY DEF BufferStutters, PacketStatus, Buffer!bufferVars
<1>1. PlacesInv
  BY Zenon DEF MmuInv
<1>2. CASE \E p \in Packets : Ingress(p) \/ MmuDepart(p)
  BY <1>1, <1>2, IngressIsBufferStep, DepartIsBufferStep
<1>3. CASE \E p \in Packets : FetchOnChip(p) \/ FetchFromWcache(p) \/ FetchBeingWritten(p) \/ FetchFromDram(p)
  BY <1>1, <1>3, FetchIsBufferStep
<1>4. CASE MmuStartWriteCycle \/ MmuStartReadCycle \/ MmuNextAtomic \/ MmuRequestArrives
  BY <1>1, <1>4, EventIsBufferStep
<1>5. CASE UNCHANGED mmuVars
  <2>1. location' = location /\ stage' = stage /\ qUsed' = qUsed
    BY <1>5, Zenon DEF mmuVars, vars, packetVars, queueVars
  <2> QED BY <2>1 DEF BufferStutters, PacketStatus, Status, Fetched
<1> QED BY <1>2, <1>3, <1>4, <1>5, Zenon DEF MmuNext

LEMMA InitIsBufferInit == MmuInit => Buffer!PacketBufferInit
<1> SUFFICES ASSUME MmuInit
             PROVE  Buffer!PacketBufferInit
  OBVIOUS
<1>1. \A p \in Packets : Status(p) = "out"
  BY DEF MmuInit, Init, Status
<1>2. qUsed = [q \in Queues |-> 0]
  BY DEF MmuInit
<1> QED BY <1>1, <1>2 DEF Buffer!PacketBufferInit

(***************************************************************************)
(* Whatever memory a packet is in and however its write and its fetch      *)
(* overlap, the MMU is a packet buffer: a packet is fetched once, only     *)
(* when it was asked for, and is charged to its queue from its admission   *)
(* until then.  (That it is fetched in the end is left to the run mmu.)    *)
(***************************************************************************)
THEOREM MmuIsPacketBuffer == MmuSpec => Buffer!PacketBufferSafety
BY InitIsBufferInit, NextIsBufferStep, AlwaysMmuInv, PTL DEF MmuSpec, Buffer!PacketBufferSafety

-----------------------------------------------------------------------------
(***************************************************************************)
(* The buffer in the MMU.  Beside the buffer's own steps there are those   *)
(* that store and fetch on chip: they move a packet the buffer does not    *)
(* hold, and leave its memories, requests and engine alone.  So what the   *)
(* buffer promises on its own holds for packets that come and go on chip.  *)
(***************************************************************************)
OffChipIdle ==
  UNCHANGED <<stored, channel, writeVec, readVec, counterVars, engineVars, writingVars>>

LEMMA StepIsOffChipOrOn == [MmuNext]_mmuVars => [Next]_vars \/ OffChipIdle
<1> SUFFICES ASSUME [MmuNext]_mmuVars
             PROVE  [Next]_vars \/ OffChipIdle
  OBVIOUS
<1>1. ASSUME NEW p \in Packets, Ingress(p)
      PROVE  [Next]_vars \/ OffChipIdle
  <2>1. PICK d \in FindBufferLocation(p) :
           CASE d.to = "ONCHIP"  -> StoreOnChip(p)
             [] d.to = "OFFCHIP" -> StoreOffChip(p)
             [] OTHER            -> Refuse(p)
    BY <1>1, Zenon DEF Ingress
  <2>2. StoreOnChip(p) \/ StoreOffChip(p) \/ Refuse(p)
    BY <2>1
  <2>3. StoreOffChip(p) => Next
    BY Zenon DEF StoreOffChip, Next
  <2>4. Refuse(p) => UNCHANGED vars
    BY Zenon DEF Refuse
  <2>5. StoreOnChip(p) => OffChipIdle
    BY DEF StoreOnChip, OffChipIdle, counterVars, engineVars, writingVars
  <2> QED BY <2>2, <2>3, <2>4, <2>5, Zenon
<1>2. ASSUME NEW p \in Packets, FetchOnChip(p)
      PROVE  OffChipIdle
  BY <1>2 DEF FetchOnChip, OffChipIdle, counterVars, engineVars, writingVars
<1>3. ASSUME NEW p \in Packets,
             FetchFromWcache(p) \/ FetchBeingWritten(p) \/ FetchFromDram(p) \/ MmuDepart(p)
      PROVE  Next
  BY <1>3, Zenon DEF FetchFromWcache, FetchBeingWritten, FetchFromDram, MmuDepart, Next
<1>4. CASE MmuRequestArrives \/ MmuStartWriteCycle \/ MmuStartReadCycle \/ MmuNextAtomic
  BY <1>4, Zenon DEF MmuRequestArrives, MmuStartWriteCycle, MmuStartReadCycle, MmuNextAtomic, Next
<1>5. CASE UNCHANGED mmuVars
  BY <1>5, Zenon DEF mmuVars
<1> QED BY <1>1, <1>2, <1>3, <1>4, <1>5, Zenon DEF MmuNext

(***************************************************************************)
(* With the MMU's own traffic the engine is still one chain of events, a   *)
(* packet with its requests is still in one place, the stop flag is up for *)
(* its write only, no byte of a packet asked for is written any more, and  *)
(* the memories are charged for the bytes of the packets there.            *)
(***************************************************************************)
BufferIsSound == OneEventChain /\ OnePlace /\ StopFlagDiscipline /\ MemoriesAccounted

THEOREM BufferSoundInMmu == MmuSpec => []BufferIsSound /\ CancelledWriteStops
<1>1. MmuInv => BufferIsSound
  <2> SUFFICES ASSUME MmuInv
               PROVE  BufferIsSound
    OBVIOUS
  <2>1. PlacesInv /\ MemoryInv /\ EngineInv
    BY Zenon DEF MmuInv, PlacesInv
  <2> QED BY <2>1, EngineInvImplies, PlacesImplyOnePlace, PlacesImplyStopFlag,
             MemoryImpliesAccounted, Zenon DEF BufferIsSound
<1>2. MmuInv /\ [MmuNext]_mmuVars =>
        [\A p \in Packets : stored'[p] > stored[p] => stage'[p] = "stored"]_vars
  <2> SUFFICES ASSUME MmuInv, [MmuNext]_mmuVars
               PROVE  [\A p \in Packets : stored'[p] > stored[p] => stage'[p] = "stored"]_vars
    OBVIOUS
  <2>1. PlacesInv /\ PacketsOK
    BY Zenon DEF MmuInv, PlacesInv, EngineInv
  <2>2. CASE [Next]_vars
    BY <2>1, <2>2, CancelledStops
  <2>3. CASE OffChipIdle
    <3>1. stored' = stored
      BY <2>3, Zenon DEF OffChipIdle
    <3>2. \A p \in Packets : ~(stored'[p] > stored[p])
      BY <2>1, <3>1 DEF PacketsOK
    <3> QED BY <3>2
  <2> QED BY <2>2, <2>3, StepIsOffChipOrOn
<1> QED BY <1>1, <1>2, AlwaysMmuInv, PTL DEF MmuSpec, CancelledWriteStops

(***************************************************************************)
(* With packets of one size DRAM is not overfilled in the MMU either,      *)
(* whatever its algorithms admit: it is the engine's look at DRAM before a *)
(* write cycle that keeps it from that, not the one at admission.          *)
(***************************************************************************)
THEOREM DramHasRoomInMmu ==
  ASSUME \A p, q \in Packets : Size[p] = Size[q]
  PROVE  MmuSpec => []DramNeverOverflows
<1>1. EqualSizes
  BY DEF EqualSizes
<1>2. MmuInv /\ DramRoom /\ [MmuNext]_mmuVars => (MmuInv /\ DramRoom)'
  <2> SUFFICES ASSUME MmuInv, DramRoom, [MmuNext]_mmuVars
               PROVE  MmuInv' /\ DramRoom'
    OBVIOUS
  <2>1. MmuInv'
    BY NextMmuInv
  <2>2. PlacesInv /\ PlacesInv' /\ EngineInv /\ EngineInv'
    BY <2>1, Zenon DEF MmuInv, PlacesInv
  <2>3. CASE [Next]_vars
    BY <1>1, <2>1, <2>2, <2>3, NextRoom
  <2>4. CASE OffChipIdle
    <3>1. dramUsed' = dramUsed /\ stored' = stored /\ UNCHANGED engineVars
      BY <2>4, Zenon DEF OffChipIdle, counterVars
    <3> QED BY <1>1, <2>1, <2>2, <3>1, RoomFrame
  <2> QED BY <2>1, <2>3, <2>4, StepIsOffChipOrOn
<1>3. MmuInit => DramRoom
  BY InitRoom DEF MmuInit
<1>4. DramRoom => DramNeverOverflows
  BY DEF DramRoom, DramNeverOverflows
<1> QED BY <1>2, <1>3, <1>4, InitMmuInv, PTL DEF MmuSpec

-----------------------------------------------------------------------------
(***************************************************************************)
(* The whole switch.  Each of its steps is a step of the MMU or leaves it  *)
(* alone.  A run of the queue disc takes a packet of the instance, as the  *)
(* disc holds no other.                                                    *)
(***************************************************************************)
DiscTypes == qdisc \in [Queues -> Seq(Packets)]

LEMMA DiscTypesKept == DiscTypes /\ [SwitchNext]_switchVars => DiscTypes'
<1> SUFFICES ASSUME DiscTypes, [SwitchNext]_switchVars
             PROVE  DiscTypes'
  OBVIOUS
<1>1. CASE qdisc' = qdisc
  BY <1>1 DEF DiscTypes
<1>2. CASE \E p \in Packets : Port!Arrive(p)
  <2>1. PICK p \in Packets :
           qdisc' = [qdisc EXCEPT ![QueueOf[p]] = Append(@, p)] \/ qdisc' = qdisc
    BY <1>2, Zenon DEF Port!Arrive
  <2>2. Append(qdisc[QueueOf[p]], p) \in Seq(Packets)
    BY MmuAssumption DEF DiscTypes
  <2> QED BY <2>1, <2>2 DEF DiscTypes
<1>3. CASE \E q \in Queues : Port!Restart(q)
  <2>1. PICK q \in Queues : qdisc[q] # <<>> /\ qdisc' = [qdisc EXCEPT ![q] = Tail(@)]
    BY <1>3, Zenon DEF Port!Restart
  <2>2. Tail(qdisc[q]) \in Seq(Packets)
    BY <2>1 DEF DiscTypes
  <2> QED BY <2>1, <2>2 DEF DiscTypes
<1>4. CASE \E p \in Packets : ArriveAtSwitch(p)
  BY <1>1, <1>2, <1>4, Zenon DEF ArriveAtSwitch, portVars
<1>5. CASE \E q \in Queues : RunQueueDisc(q)
  BY <1>3, <1>5, Zenon DEF RunQueueDisc
<1>6. CASE EngineStep
  BY <1>1, <1>6, Zenon DEF EngineStep, portVars, Port!FetchCompletes, Port!discVars
<1>7. CASE TransmissionEnds
  BY <1>1, <1>7, Zenon DEF TransmissionEnds, Port!TransmitComplete, Port!discVars
<1>8. CASE DiscStep
  BY <1>1, <1>8, Zenon DEF DiscStep, Port!RunEnd, Port!WakeRun
<1>9. CASE UNCHANGED switchVars
  BY <1>1, <1>9 DEF switchVars, portVars
<1> QED BY <1>4, <1>5, <1>6, <1>7, <1>8, <1>9, Zenon DEF SwitchNext, Scheduled

LEMMA StepIsMmuStep == DiscTypes /\ [SwitchNext]_switchVars => [MmuNext]_mmuVars
<1> SUFFICES ASSUME DiscTypes, [SwitchNext]_switchVars
             PROVE  MmuNext \/ UNCHANGED mmuVars
  OBVIOUS
<1>1. CASE \E p \in Packets : ArriveAtSwitch(p)
  BY <1>1, Zenon DEF ArriveAtSwitch, MmuNext
<1>2. CASE \E q \in Queues : RunQueueDisc(q)
  <2>1. PICK q \in Queues : qdisc[q] # <<>> /\ FetchPacket(qdisc[q][1])
    BY <1>2, Zenon DEF RunQueueDisc
  <2>2. qdisc[q][1] \in Packets
    BY <2>1 DEF DiscTypes
  <2> QED BY <2>1, <2>2, Zenon DEF FetchPacket, MmuNext
<1>3. CASE DiscStep
  BY <1>3, Zenon DEF DiscStep
<1>4. CASE EngineStep
  BY <1>4, Zenon DEF EngineStep, MmuNext
<1>5. CASE TransmissionEnds
  BY <1>5, Zenon DEF TransmissionEnds, MmuNext
<1>6. CASE UNCHANGED switchVars
  BY <1>6 DEF switchVars
<1> QED BY <1>1, <1>2, <1>3, <1>4, <1>5, <1>6, Zenon DEF SwitchNext, Scheduled

LEMMA InitDiscTypes == SwitchInit => DiscTypes
BY DEF SwitchInit, Port!Init, DiscTypes

(***************************************************************************)
(* The MMU of the switch, driven by the traffic control layer, the queue   *)
(* disc and the device of its port, does what the MMU alone may do: all    *)
(* that is proved of the MMU holds in the switch.                          *)
(***************************************************************************)
THEOREM SwitchIsMmu == SwitchSpec => MmuSpec
<1>1. SwitchInit => MmuInit
  BY DEF SwitchInit
<1> QED BY <1>1, InitDiscTypes, DiscTypesKept, StepIsMmuStep, PTL DEF SwitchSpec, MmuSpec

(***************************************************************************)
(* A packet that the MMU refuses is not seen by the port.                  *)
(***************************************************************************)
LEMMA RefusalIsNotSeen ==
  ASSUME MmuInv, NEW p \in Packets, Ingress(p)
  PROVE  stage'[p] = "new" => BufferStutters
<1>1. stage \in [Packets -> {"new", "stored", "asked"}]
  BY Zenon DEF MmuInv, PlacesInv, EngineInv, PacketsOK
<1>2. StoreOnChip(p) \/ StoreOffChip(p) \/ Refuse(p)
  <2>1. PICK d \in FindBufferLocation(p) :
           CASE d.to = "ONCHIP"  -> StoreOnChip(p)
             [] d.to = "OFFCHIP" -> StoreOffChip(p)
             [] OTHER            -> Refuse(p)
    BY Zenon DEF Ingress
  <2> QED BY <2>1
<1>3. CASE StoreOnChip(p) \/ StoreOffChip(p)
  <2>1. stage' = [stage EXCEPT ![p] = "stored"]
    BY <1>3, Zenon DEF StoreOnChip, StoreOffChip, Write
  <2> QED BY <1>1, <2>1
<1>4. CASE Refuse(p)
  <2>1. location' = location /\ stage' = stage /\ qUsed' = qUsed
    BY <1>4, Zenon DEF Refuse, vars, packetVars, queueVars
  <2> QED BY <2>1 DEF BufferStutters, PacketStatus, Status, Fetched
<1> QED BY <1>2, <1>3, <1>4

EngineEvent == MmuRequestArrives \/ MmuStartWriteCycle \/ MmuStartReadCycle \/ MmuNextAtomic

LEMMA EventKeepsStage == EngineEvent => stage' = stage
<1>1. MmuRequestArrives => stage' = stage
  BY Zenon DEF MmuRequestArrives, RequestArrives
<1>2. MmuStartWriteCycle => stage' = stage
  BY Zenon DEF MmuStartWriteCycle, StartWriteCycle
<1>3. MmuStartReadCycle => stage' = stage
  BY Zenon DEF MmuStartReadCycle, StartReadCycle
<1>4. MmuNextAtomic => stage' = stage
  BY Zenon DEF MmuNextAtomic, NextAtomic
<1> QED BY <1>1, <1>2, <1>3, <1>4, Zenon DEF EngineEvent

(***************************************************************************)
(* An event of the engine that fetches no packet is not seen by the port.  *)
(***************************************************************************)
LEMMA EventIsSeenOrNot ==
  ASSUME MmuInv, EngineEvent, ~\E p \in Packets : Fetched(p)' /\ ~Fetched(p)
  PROVE  BufferStutters
<1>1. stage' = stage
  BY EventKeepsStage
<1>2. Buffer!PacketBufferNext \/ BufferStutters
  BY EventIsBufferStep, Zenon DEF EngineEvent, MmuInv
<1>3. CASE Buffer!PacketBufferNext
  <2>1. PICK p \in Packets, from \in Buffer!Statuses, to \in Buffer!Statuses :
           /\ Buffer!Moves(p, from, to)
           /\ <<from, to>> \in {<<"out", "held">>, <<"held", "fetched">>, <<"held", "asked">>,
                                <<"asked", "fetched">>, <<"fetched", "out">>}
    BY <1>3
       DEF Buffer!PacketBufferNext, Buffer!Keep, Buffer!AskHit, Buffer!AskMiss,
           Buffer!Complete, Buffer!Release, Buffer!Statuses
  <2>2. Status(p) = from /\ Status(p)' = to
    BY <2>1 DEF Buffer!Moves
  <2>3. /\ Status(p) = "out" <=> stage[p] = "new"
        /\ Status(p) = "held" <=> stage[p] = "stored"
    BY DEF Status
  <2>4. /\ Status(p)' = "out" <=> stage'[p] = "new"
        /\ Status(p)' = "held" <=> stage'[p] = "stored"
    BY DEF Status
  <2>5. from = "asked" /\ to = "fetched"
    BY <1>1, <2>1, <2>2, <2>3, <2>4
  <2>6. Fetched(p)' /\ ~Fetched(p)
    BY <2>2, <2>5 DEF Status
  <2> QED BY <2>6
<1> QED BY <1>2, <1>3

LEMMA StepIsPortStep == MmuInv /\ [SwitchNext]_switchVars => [Port!Next]_(Port!portVars)
<1> SUFFICES ASSUME MmuInv, [SwitchNext]_switchVars
             PROVE  Port!Next \/ UNCHANGED Port!portVars
  OBVIOUS
<1>1. BufferStutters /\ UNCHANGED portVars => UNCHANGED Port!portVars
  BY
     DEF BufferStutters, PacketStatus, portVars, Port!portVars, Port!mmuVars,
         Port!bufferVars, Port!discVars, Port!deviceVars
<1>2. CASE \E p \in Packets : ArriveAtSwitch(p)
  <2>1. PICK p \in Packets : ArriveAtSwitch(p)
    BY <1>2
  <2>2. CASE stage'[p] = "new"
    BY <1>1, <2>1, <2>2, RefusalIsNotSeen, Zenon DEF ArriveAtSwitch
  <2>3. CASE stage'[p] # "new"
    BY <2>1, <2>3, Zenon DEF ArriveAtSwitch, Port!Next
  <2> QED BY <2>2, <2>3
<1>3. CASE \E q \in Queues : RunQueueDisc(q)
  BY <1>3, Zenon DEF RunQueueDisc, Port!Next
<1>4. CASE DiscStep
  BY <1>4, Zenon DEF DiscStep, Port!Next
<1>5. CASE EngineStep
  <2>1. CASE \E p \in Packets : Fetched(p)' /\ ~Fetched(p)
    BY <1>5, <2>1, Zenon DEF EngineStep, Port!Next
  <2>2. CASE ~\E p \in Packets : Fetched(p)' /\ ~Fetched(p)
    <3>1. UNCHANGED portVars /\ EngineEvent
      BY <1>5, <2>2, Zenon DEF EngineStep, EngineEvent
    <3> QED BY <1>1, <2>2, <3>1, EventIsSeenOrNot
  <2> QED BY <2>1, <2>2
<1>6. CASE TransmissionEnds
  BY <1>6, Zenon DEF TransmissionEnds, Port!Next
<1>7. CASE UNCHANGED switchVars
  <2>1. UNCHANGED portVars /\ UNCHANGED mmuVars
    BY <1>7 DEF switchVars
  <2>2. location' = location /\ stage' = stage /\ qUsed' = qUsed
    BY <2>1, Zenon DEF mmuVars, vars, packetVars, queueVars
  <2>3. BufferStutters
    BY <2>2 DEF BufferStutters, PacketStatus, Status, Fetched
  <2> QED BY <1>1, <2>1, <2>3
<1> QED BY <1>2, <1>3, <1>4, <1>5, <1>6, <1>7, Zenon DEF SwitchNext, Scheduled

(***************************************************************************)
(* Behind the real MMU the port does what it may do behind an abstract     *)
(* PacketBuffer: the status and charges of the MMU change as the packet    *)
(* buffer's do, at the moments the traffic control layer, the disc and the *)
(* device expect (Send, Fetch, and HandleRequest called at the end of a    *)
(* read).                                                                  *)
(***************************************************************************)
THEOREM SwitchIsPort == SwitchSpec => Port!Spec
<1>1. SwitchInit => Port!Init
  BY DEF SwitchInit
<1> QED BY <1>1, SwitchIsMmu, AlwaysMmuInv, StepIsPortStep, PTL DEF SwitchSpec, Port!Spec

-----------------------------------------------------------------------------
(***************************************************************************)
(* What SwitchPort_proofs shows, of the port in the switch.                *)
(***************************************************************************)
Proved == INSTANCE SwitchPort_proofs WITH
  status <- [p \in Packets |-> Status(p)], charged <- qUsed, FreshFlags <- {FALSE},
  QdiscMayDrop <- FALSE, LinkMayFail <- FALSE

LEMMA PortAssumptionHolds == Proved!PortAssumption
BY SwitchAssumption, BufferAssumption DEF Proved!PortAssumption

LEMMA PacketBufferAssumptionHolds == Proved!PacketBufferAssumption
BY MmuAssumption, BufferAssumption
   DEF Proved!PacketBufferAssumption, Proved!IsFiniteSet, IsFiniteSet

(***************************************************************************)
(* Proved is the same port again: each of its definitions says what the    *)
(* one of Port says.                                                       *)
(***************************************************************************)
LEMMA SumIsPortSum == \A f, S : Proved!SumFunctionOnSet(f, S) = Port!SumFunctionOnSet(f, S)
BY
   DEF Proved!SumFunctionOnSet, Port!SumFunctionOnSet, Proved!FoldFunctionOnSet,
       Port!FoldFunctionOnSet, Proved!MapThenFoldSet, Port!MapThenFoldSet

LEMMA SameBytes == \A queue : Proved!Bytes(queue) = Port!Bytes(queue)
BY SumIsPortSum, Zenon DEF Proved!Bytes, Port!Bytes, Proved!SumFunction, Port!SumFunction

LEMMA SameOverflow == \A queue : Proved!WouldOverflow(queue) <=> Port!WouldOverflow(queue)
BY SameBytes, Zenon
   DEF Proved!WouldOverflow, Port!WouldOverflow, Proved!Exceeds, Port!Exceeds

LEMMA SameRoom == \A p : Proved!HasNoRoomFor(p) <=> Port!HasNoRoomFor(p)
BY SameBytes, Zenon DEF Proved!HasNoRoomFor, Port!HasNoRoomFor, Proved!Exceeds, Port!Exceeds

LEMMA SameAttempt ==
  \A queue, stop, sending :
     Proved!AttemptTransmission(queue, stop, sending)
       <=> Port!AttemptTransmission(queue, stop, sending)
BY SameOverflow, Zenon
   DEF Proved!AttemptTransmission, Port!AttemptTransmission, Proved!Wake, Port!Wake

LEMMA SameBuffer ==
  \A p : /\ Proved!Keep(p) <=> Port!Keep(p)
         /\ Proved!AskHit(p) <=> Port!AskHit(p)
         /\ Proved!AskMiss(p) <=> Port!AskMiss(p)
         /\ Proved!Complete(p) <=> Port!Complete(p)
         /\ Proved!Release(p) <=> Port!Release(p)
BY Zenon
   DEF Proved!Keep, Port!Keep, Proved!AskHit, Port!AskHit, Proved!AskMiss, Port!AskMiss,
       Proved!Complete, Port!Complete, Proved!Release, Port!Release, Proved!Moves, Port!Moves,
       Proved!Charge, Port!Charge

LEMMA SameInit == Port!Init => Proved!Init
BY Zenon DEF Port!Init, Proved!Init, Port!PacketBufferInit, Proved!PacketBufferInit

LEMMA SameSend == \A p : Port!Send(p) => Proved!Send(p)
<1> SUFFICES ASSUME NEW p, Port!Send(p)
             PROVE  Proved!Send(p)
  OBVIOUS
<1>1. Port!Drop(p) => Proved!Drop(p)
  BY Zenon
     DEF Proved!Drop, Port!Drop, Proved!mmuVars, Port!mmuVars, Proved!bufferVars,
         Port!bufferVars
<1>2. Port!Fetch(p) => Proved!Fetch(p)
  BY SameBuffer, Zenon
     DEF Proved!Fetch, Port!Fetch, Proved!SetFetchStatus, Port!SetFetchStatus
<1>3. Port!SendOnDeadLink(p) => Proved!SendOnDeadLink(p)
  BY <1>1, Zenon
     DEF Proved!SendOnDeadLink, Port!SendOnDeadLink, Port!deviceVars, Proved!deviceVars
<1>4. Port!SendToFullQueue(p) => Proved!SendToFullQueue(p)
  BY <1>1, SameRoom, Zenon DEF Proved!SendToFullQueue, Port!SendToFullQueue
<1>5. Port!SendToDevice(p) => Proved!SendToDevice(p)
  BY <1>2, SameRoom, SameAttempt, SameOverflow, Zenon
     DEF Proved!SendToDevice, Port!SendToDevice
<1> QED BY <1>3, <1>4, <1>5, Zenon DEF Proved!Send, Port!Send

LEMMA SameNext == [Port!Next]_(Port!portVars) => [Proved!Next]_(Proved!portVars)
<1> SUFFICES ASSUME [Port!Next]_(Port!portVars)
             PROVE  Proved!Next \/ UNCHANGED Proved!portVars
  OBVIOUS
<1>1. \A p \in Packets : Port!Arrive(p) => Proved!Arrive(p)
  BY SameBuffer, Zenon DEF Port!Arrive, Proved!Arrive, Port!deviceVars, Proved!deviceVars
<1>2. \A q \in Queues : Port!Restart(q) => Proved!Restart(q)
  BY SameSend, Zenon DEF Port!Restart, Proved!Restart, Port!NoneQueued, Proved!NoneQueued
<1>3. Port!RunEnd => Proved!RunEnd
  BY Zenon
     DEF Port!RunEnd, Proved!RunEnd, Port!NoneQueued, Proved!NoneQueued, Proved!mmuVars,
         Port!mmuVars, Proved!bufferVars, Port!bufferVars, Port!deviceVars, Proved!deviceVars
<1>4. Port!WakeRun => Proved!WakeRun
  BY Zenon
     DEF Port!WakeRun, Proved!WakeRun, Proved!mmuVars, Port!mmuVars, Proved!bufferVars,
         Port!bufferVars
<1>5. \A p \in Packets : Port!FetchCompletes(p) => Proved!FetchCompletes(p)
  BY SameBuffer, SameAttempt, Zenon
     DEF Port!FetchCompletes, Proved!FetchCompletes, Port!HandleRequest,
         Proved!HandleRequest, Port!FetchComplete, Proved!FetchComplete, Port!InDevice,
         Proved!InDevice, Port!CompleteAndRelease, Proved!CompleteAndRelease, Port!Moves,
         Proved!Moves, Port!Charge, Proved!Charge, Port!SetFetchStatus, Proved!SetFetchStatus,
         Port!discVars, Proved!discVars, Port!Contains, Proved!Contains
<1>6. Port!TransmitComplete => Proved!TransmitComplete
  BY SameBuffer, SameAttempt, Zenon
     DEF Port!TransmitComplete, Proved!TransmitComplete, Port!ReleaseSent,
         Proved!ReleaseSent, Port!bufferVars, Proved!bufferVars, Port!discVars, Proved!discVars
<1>7. Port!LinkDown => Proved!LinkDown
  BY Zenon DEF Port!LinkDown, Proved!LinkDown
<1>8. UNCHANGED Port!portVars => UNCHANGED Proved!portVars
  BY Zenon
     DEF Port!portVars, Proved!portVars, Proved!mmuVars, Port!mmuVars, Proved!bufferVars,
         Port!bufferVars, Port!deviceVars, Proved!deviceVars, Port!discVars, Proved!discVars
<1> QED BY <1>1, <1>2, <1>3, <1>4, <1>5, <1>6, <1>7, <1>8, Zenon DEF Port!Next, Proved!Next

LEMMA SamePort == Port!Spec => Proved!Spec
BY SameInit, SameNext, PTL DEF Port!Spec, Proved!Spec

LEMMA SameAccounts == Proved!PacketsAccounted => Port!PacketsAccounted
<1>1. \A S : Proved!Cardinality(S) = Port!Cardinality(S)
  BY DEF Proved!Cardinality, Port!Cardinality
<1> QED BY <1>1, SumIsPortSum, Zenon DEF Proved!PacketsAccounted, Port!PacketsAccounted

DeviceTypes == devQueue \in Seq(Packets)

LEMMA AlwaysPortAccounts ==
  SwitchSpec => [](Port!PacketsAccounted /\ Port!SentIsFetched /\ DeviceTypes)
<1>1. Proved!Spec => []Proved!PacketsAccounted
  BY PortAssumptionHolds, PacketBufferAssumptionHolds, Proved!PacketsAreAccounted
<1>2. Proved!Spec => []Proved!SentIsFetched
  BY PortAssumptionHolds, PacketBufferAssumptionHolds, Proved!OnlyFetchedIsSent
<1>3. Proved!SentIsFetched => Port!SentIsFetched
  BY Zenon DEF Proved!SentIsFetched, Port!SentIsFetched
<1>4. Proved!Spec => []Proved!PortTypeOK
  BY PortAssumptionHolds, PacketBufferAssumptionHolds, Proved!PortKeepsItsTypes
<1>5. Proved!PortTypeOK => DeviceTypes
  BY Zenon DEF Proved!PortTypeOK, DeviceTypes
<1> QED BY <1>1, <1>2, <1>3, <1>4, <1>5, SameAccounts, SwitchIsPort, SamePort, PTL

(***************************************************************************)
(* The disc drops nothing, the link stays up, and no packet is both        *)
(* fetched and refused by the device (DeviceRefusesNothing).               *)
(***************************************************************************)
NothingLost == lost = {}

LEMMA NothingLostKept ==
  MmuInv /\ DiscTypes /\ NothingLost /\ [SwitchNext]_switchVars => NothingLost'
<1> SUFFICES ASSUME MmuInv, DiscTypes, NothingLost, [SwitchNext]_switchVars
             PROVE  lost' = lost
  BY DEF NothingLost
<1>1. CASE \E p \in Packets : ArriveAtSwitch(p)
  BY <1>1, Zenon DEF ArriveAtSwitch, Port!Arrive, portVars
<1>2. CASE \E q \in Queues : RunQueueDisc(q)
  <2>1. PICK q \in Queues : qdisc[q] # <<>> /\ FetchPacket(qdisc[q][1]) /\ Port!Restart(q)
    BY <1>2, Zenon DEF RunQueueDisc
  <2>2. PICK p \in Packets : p = qdisc[q][1]
    BY <2>1 DEF DiscTypes
  <2>3. stage[p] = "stored" /\ stage'[p] = "asked"
    <3>1. stage[p] = "stored" /\ stage' = [stage EXCEPT ![p] = "asked"]
      BY <2>1, <2>2, Zenon
         DEF FetchPacket, FetchOnChip, FetchFromWcache, FetchBeingWritten, FetchFromDram,
             ReadFromWcache, ReadInterruptsWrite, ReadFromDram, Asked
    <3>2. stage \in [Packets -> {"new", "stored", "asked"}]
      BY Zenon DEF MmuInv, PlacesInv, EngineInv, PacketsOK
    <3> QED BY <3>1, <3>2
  <2>4. ~Port!Drop(p)
    <3>1. Status(p) # Status(p)'
      BY <2>3 DEF Status
    <3> QED BY <3>1 DEF Port!Drop, Port!mmuVars, Port!bufferVars
  <2>5. Port!Send(p)
    BY <2>1, <2>2, Zenon DEF Port!Restart
  <2> QED BY <2>4, <2>5, Zenon
     DEF Port!Send, Port!SendOnDeadLink, Port!SendToFullQueue, Port!SendToDevice
<1>3. CASE DiscStep
  BY <1>3, Zenon DEF DiscStep, Port!RunEnd, Port!WakeRun
<1>4. CASE EngineStep
  BY <1>4, Zenon DEF EngineStep, portVars, Port!FetchCompletes
<1>5. CASE TransmissionEnds
  BY <1>5, Zenon DEF TransmissionEnds, Port!TransmitComplete
<1>6. CASE UNCHANGED switchVars
  BY <1>6 DEF switchVars, portVars
<1> QED BY <1>1, <1>2, <1>3, <1>4, <1>5, <1>6, Zenon DEF SwitchNext, Scheduled

(***************************************************************************)
(* With no packet in the disc or the device queue, all have been fetched.  *)
(***************************************************************************)
LEMMA NoneWaitsAllFetched ==
  ASSUME DiscTypes, DeviceTypes, NothingLost, Port!PacketsAccounted, Port!SentIsFetched,
         \A p \in Packets : ~WaitsInPort(p),
         NEW p \in Packets
  PROVE  Status(p) \in {"out", "fetched"}
<1>1. \A S : Port!Cardinality(S) = Cardinality(S)
  BY DEF Port!Cardinality, Cardinality
<1>2. Cardinality({}) = 0
  BY FS_EmptySet
<1>3. QueueOf[p] \in Queues
  BY MmuAssumption
<1>4. ~Port!Contains(qdisc[QueueOf[p]], p) /\ ~Port!Contains(devQueue, p)
  BY <1>3, Zenon DEF WaitsInPort
<1>5. qdisc[QueueOf[p]] \in Seq(Packets) /\ devQueue \in Seq(Packets)
  BY <1>3 DEF DiscTypes, DeviceTypes
<1>6. {i \in DOMAIN qdisc[QueueOf[p]] : qdisc[QueueOf[p]][i] = p} = {}
  BY <1>4, <1>5 DEF Port!Contains
<1>7. {i \in DOMAIN devQueue : devQueue[i] = p} = {}
  BY <1>4, <1>5 DEF Port!Contains
<1>8. currentPkt = p => Status(p) = "fetched"
  BY BufferAssumption DEF Port!SentIsFetched
<1>9. Status(p) \in {"out", "held", "asked", "fetched"}
  BY DEF Status
<1>10. Status(p) # "held"
  BY <1>1, <1>2, <1>6, <1>7 DEF Port!PacketsAccounted, NothingLost
<1>11. Status(p) # "asked"
  BY <1>1, <1>2, <1>6, <1>7, <1>8 DEF Port!PacketsAccounted, NothingLost
<1> QED BY <1>9, <1>10, <1>11

(***************************************************************************)
(* When all packets are out or fetched, the memories are empty.            *)
(***************************************************************************)
LEMMA AllFetchedNothingHeld ==
  ASSUME MmuInv, \A p \in Packets : Status(p) \in {"out", "fetched"}
  PROVE  onChipRemain = OnChipSize /\ wcacheUsed = 0 /\ dramUsed = 0
<1>1. \A p \in Packets : stage[p] # "stored" /\ location[p] = "NOTINBUFFER" /\ stored[p] = 0
  <2> TAKE p \in Packets
  <2>1. stage[p] \in {"new", "stored", "asked"}
    BY DEF MmuInv, PlacesInv, EngineInv, PacketsOK
  <2>2. LocationIsTrue(p)
    BY Zenon DEF MmuInv, PlacesInv, Placed
  <2>3. stage[p] = "new" \/ Fetched(p)
    BY <2>1 DEF Status
  <2> QED BY <2>2, <2>3 DEF LocationIsTrue, Fetched
<1>2. /\ \A p \in Packets : InSram[p] = 0 /\ CacheBytes[p] = 0 /\ stored[p] = 0
  BY <1>1 DEF InSram, CacheBytes, Held, InWcache, OnChip
<1>3. IsFiniteSet(Packets)
  BY BufferAssumption
<1>4. /\ SumFunctionOnSet(InSram, Packets) = 0
      /\ SumFunctionOnSet(CacheBytes, Packets) = 0
      /\ SumFunctionOnSet(stored, Packets) = 0
  BY <1>2, <1>3, SumZero
<1> QED BY <1>4, MmuAssumption DEF MmuInv, SramInv, MemoryInv

(***************************************************************************)
(* No byte leaks between the parts of the switch: the packets the MMU      *)
(* keeps are those on their way through the disc and the device, each in   *)
(* one place, and when none waits every byte of SRAM, the write cache and  *)
(* DRAM has come back, whatever the algorithm, and however fetches meet    *)
(* the engine.                                                             *)
(***************************************************************************)
THEOREM SwitchLeaksNothing == SwitchSpec => []NoLeak
<1>1. MmuInv /\ DiscTypes /\ NothingLost /\ Port!PacketsAccounted /\ Port!SentIsFetched
        /\ DeviceTypes => NoLeak
  <2> SUFFICES ASSUME MmuInv, DiscTypes, DeviceTypes, NothingLost, Port!PacketsAccounted,
                      Port!SentIsFetched,
                      \A p \in Packets : ~WaitsInPort(p)
               PROVE  onChipRemain = OnChipSize /\ wcacheUsed = 0 /\ dramUsed = 0
    BY Zenon DEF NoLeak
  <2> QED BY NoneWaitsAllFetched, AllFetchedNothingHeld
<1>2. SwitchInit => NothingLost
  BY DEF SwitchInit, Port!Init, NothingLost
<1> QED BY <1>1, <1>2, SwitchIsMmu, AlwaysMmuInv, InitDiscTypes, DiscTypesKept,
   NothingLostKept, AlwaysPortAccounts, PTL
   DEF SwitchSpec

(***************************************************************************)
(* From end to end: in the switch each packet is handed over by the packet *)
(* buffer of the MMU's specification, whose own buffer and counters are    *)
(* sound, whatever device and queue disc do around it.                     *)
(***************************************************************************)
THEOREM SwitchIsPacketBuffer ==
  SwitchSpec => /\ Buffer!PacketBufferSafety
                /\ []BufferIsSound /\ CancelledWriteStops
                /\ [](MemoriesCounted /\ QueuesAccounted)
BY SwitchIsMmu, MmuIsPacketBuffer, BufferSoundInMmu, MemoriesAreCounted, QueuesAreAccounted, PTL

(***************************************************************************)
(* In the switch an idle device has no fetched packet at the head of its   *)
(* queue, although fetches from SRAM and the write cache come at once and  *)
(* those from DRAM late and out of order.                                  *)
(***************************************************************************)
THEOREM SwitchDoesNotStall == SwitchSpec => []Port!NoStall
<1>1. Proved!Spec => []Proved!NoStall
  BY PortAssumptionHolds, PacketBufferAssumptionHolds, Proved!DeviceDoesNotStall
<1>2. Proved!NoStall => Port!NoStall
  BY Zenon DEF Proved!NoStall, Port!NoStall
<1> QED BY <1>1, <1>2, SwitchIsPort, SamePort, PTL

(***************************************************************************)
(* In the switch the packets of a queue leave in the order they came,      *)
(* whatever memory the MMU chose for each.                                 *)
(***************************************************************************)
THEOREM SwitchKeepsOrder == SwitchSpec => QueueOrder
<1> DEFINE Here(p, r) ==
             /\ Port!Ahead(p, r) /\ Port!Waits(p)' /\ Port!Waits(r)' => Port!Ahead(p, r)'
             /\ Port!Waits(p) /\ ~Port!Waits(r) /\ Port!Waits(p)' /\ Port!Waits(r)'
                  => Port!Ahead(p, r)'
             /\ Port!Ahead(p, r) => currentPkt' # r
           There(p, r) ==
             /\ Proved!Ahead(p, r) /\ Proved!Waits(p)' /\ Proved!Waits(r)'
                  => Proved!Ahead(p, r)'
             /\ Proved!Waits(p) /\ ~Proved!Waits(r) /\ Proved!Waits(p)' /\ Proved!Waits(r)'
                  => Proved!Ahead(p, r)'
             /\ Proved!Ahead(p, r) => currentPkt' # r
           Kept == \A p, r \in Packets : QueueOf[p] = QueueOf[r] /\ p # r => Here(p, r)
           KeptThere == \A p, r \in Packets : QueueOf[p] = QueueOf[r] /\ p # r => There(p, r)
<1>1. Proved!Spec => Proved!KeepsOrder
  BY PortAssumptionHolds, PacketBufferAssumptionHolds, Proved!QueuesKeepTheirOrder
<1>2. [KeptThere]_(Proved!portVars) => [Kept]_(Port!portVars)
  <2>1. \A p, r \in Packets : There(p, r) => Here(p, r)
    <3> TAKE p, r \in Packets
    <3>1. /\ Proved!Ahead(p, r) <=> Port!Ahead(p, r)
          /\ Proved!Ahead(p, r)' <=> Port!Ahead(p, r)'
      BY Zenon
         DEF Proved!Ahead, Port!Ahead, Proved!Precedes, Port!Precedes, Proved!Contains,
             Port!Contains
    <3>2. \A w \in {p, r} : /\ Proved!Waits(w) <=> Port!Waits(w)
                            /\ Proved!Waits(w)' <=> Port!Waits(w)'
      BY Zenon DEF Proved!Waits, Port!Waits, Proved!Contains, Port!Contains
    <3> QED BY <3>1, <3>2
  <2>2. UNCHANGED Proved!portVars => UNCHANGED Port!portVars
    BY Zenon
       DEF Port!portVars, Proved!portVars, Proved!mmuVars, Port!mmuVars, Proved!bufferVars,
           Port!bufferVars, Port!deviceVars, Proved!deviceVars, Port!discVars, Proved!discVars
  <2> QED BY <2>1, <2>2, Zenon
<1> QED BY <1>1, <1>2, SwitchIsPort, SamePort, PTL DEF QueueOrder, Proved!KeepsOrder, Port!KeepsOrder

(***************************************************************************)
(* In the switch no packet waits in the disc of a device that has room,    *)
(* unless a run of the disc is due, for a device queue limited in packets  *)
(* and a quota above its limit: the MMU's reads, which decide when the     *)
(* device queue empties, lose no wakeup.                                   *)
(***************************************************************************)
THEOREM SwitchLosesNoWakeup ==
  ASSUME DevUnit = "PACKETS", Quota > DevLimit
  PROVE  SwitchSpec => []Port!NoLostWakeup
<1>1. Proved!Spec => []Proved!NoLostWakeup
  BY PortAssumptionHolds, PacketBufferAssumptionHolds, Proved!WakeupsReachTheDisc
<1>2. Proved!NoLostWakeup => Port!NoLostWakeup
  BY Zenon DEF Proved!NoLostWakeup, Port!NoLostWakeup, Proved!NoneQueued, Port!NoneQueued
<1> QED BY <1>1, <1>2, SwitchIsPort, SamePort, PTL

(***************************************************************************)
(* With nothing due, a packet the device queue waits for has its read      *)
(* somewhere in the buffer, and the engine does not sleep on a read.       *)
(***************************************************************************)
LEMMA AskedIsDue ==
  ASSUME MmuInv, NEW p \in Packets, Status(p) = "asked", channel = <<>>, events = {}
  PROVE  FALSE
<1>1. stage \in [Packets -> {"new", "stored", "asked"}] /\ EngineOK
  BY Zenon DEF MmuInv, PlacesInv, EngineInv
<1>2. LocationIsTrue(p) /\ ReadPlaces(p)
  BY Zenon DEF MmuInv, PlacesInv, Placed
<1>3. stage[p] = "asked" /\ location[p] # "NOTINBUFFER"
  BY <1>1 DEF Status, Fetched
<1>4. InOffChipBuffer(p)
  BY <1>2, <1>3 DEF LocationIsTrue, InOffChipBuffer
<1>5. ReadSent(p) \/ ReadWaits(p) \/ Reading(p)
  BY <1>2, <1>3, <1>4, Zenon DEF ReadPlaces
<1>6. readVec = <<>>
  BY <1>1 DEF EngineOK
<1> QED BY <1>5, <1>6 DEF ReadSent, ReadWaits, Reading, Atomics, Range

(***************************************************************************)
(* What PacketsAccounted says of a packet in the port and of one that is   *)
(* in no place of it.                                                      *)
(***************************************************************************)
LEMMA KeptIsInPort ==
  ASSUME DiscTypes, DeviceTypes, NothingLost, Port!PacketsAccounted, NEW p \in Packets
  PROVE  /\ Status(p) # "out" => WaitsInPort(p) \/ currentPkt = p
         /\ Port!Contains(devQueue, p) => Status(p) \in {"asked", "fetched"}
<1>1. \A S : Port!Cardinality(S) = Cardinality(S)
  BY DEF Port!Cardinality, Cardinality
<1>2. Cardinality({}) = 0
  BY FS_EmptySet
<1>3. QueueOf[p] \in Queues
  BY MmuAssumption
<1>4. qdisc[QueueOf[p]] \in Seq(Packets) /\ devQueue \in Seq(Packets)
  BY <1>3 DEF DiscTypes, DeviceTypes
<1> DEFINE inDisc == {i \in DOMAIN qdisc[QueueOf[p]] : qdisc[QueueOf[p]][i] = p}
           inQueue == {i \in DOMAIN devQueue : devQueue[i] = p}
           inDevice == Cardinality(inQueue) + (IF currentPkt = p THEN 1 ELSE 0)
<1>5. /\ IsFiniteSet(inDisc) /\ Cardinality(inDisc) \in Nat
      /\ IsFiniteSet(inQueue) /\ Cardinality(inQueue) \in Nat
  <2>1. IsFiniteSet(DOMAIN qdisc[QueueOf[p]]) /\ IsFiniteSet(DOMAIN devQueue)
    <3>1. \A n \in Nat : IsFiniteSet(1 .. n)
      BY FS_Interval
    <3>2. \A queue \in Seq(Packets) : IsFiniteSet(DOMAIN queue)
      BY <3>1
    <3> QED BY <1>4, <3>2, Zenon
  <2>2. inDisc \subseteq DOMAIN qdisc[QueueOf[p]] /\ inQueue \subseteq DOMAIN devQueue
    OBVIOUS
  <2>3. IsFiniteSet(inDisc) /\ IsFiniteSet(inQueue)
    BY <2>1, <2>2, FS_Subset
  <2> QED BY <2>3, FS_CardinalityType
<1>6. /\ Status(p) = "out" => Cardinality(inDisc) + inDevice + 0 = 0
      /\ Status(p) = "held" => Cardinality(inDisc) + 0 = 1 /\ inDevice = 0
      /\ Status(p) \notin {"out", "held"} => Cardinality(inDisc) + 0 = 0 /\ inDevice = 1
  BY <1>1 DEF Port!PacketsAccounted, NothingLost
<1>7. Port!Contains(devQueue, p) => Cardinality(inQueue) # 0
  <2> SUFFICES ASSUME Port!Contains(devQueue, p) PROVE inQueue # {}
    BY <1>5, FS_EmptySet
  <2> QED BY DEF Port!Contains
<1>8. Cardinality(inQueue) # 0 => WaitsInPort(p)
  <2> SUFFICES ASSUME inQueue # {} PROVE WaitsInPort(p)
    BY <1>2
  <2> QED BY <1>3 DEF Port!Contains, WaitsInPort
<1>9. Cardinality(inDisc) # 0 => WaitsInPort(p)
  <2> SUFFICES ASSUME inDisc # {} PROVE WaitsInPort(p)
    BY <1>2
  <2> QED BY <1>3 DEF Port!Contains, WaitsInPort
<1>10. Status(p) \in {"out", "held", "asked", "fetched"}
  BY DEF Status
<1> QED
  <2> HIDE DEF inDisc, inQueue
  <2> QED BY <1>5, <1>6, <1>7, <1>8, <1>9, <1>10

(***************************************************************************)
(* The switch never hangs, for a device queue limited in packets and a     *)
(* quota above its limit.  Each part stops for a reason that keeps another *)
(* one going: packets wait in the disc because the device queue is full,   *)
(* the device waits because its first packet is not fetched, and the       *)
(* engine has an event while a read is asked of it, however full DRAM is.  *)
(* It is what the liveness of the switch rests on.                         *)
(***************************************************************************)
THEOREM SwitchNeverHangs ==
  ASSUME DevUnit = "PACKETS", Quota > DevLimit
  PROVE  SwitchSpec => []NeverHangs
<1>1. MmuInv /\ DiscTypes /\ DeviceTypes /\ NothingLost /\ Port!PacketsAccounted
        /\ Port!NoStall /\ Port!NoLostWakeup => NeverHangs
  <2> SUFFICES ASSUME MmuInv, DiscTypes, DeviceTypes, NothingLost, Port!PacketsAccounted,
                      Port!NoStall, Port!NoLostWakeup
               PROVE  NeverHangs
    OBVIOUS
  <2> SUFFICES ASSUME ~SomethingIsDue, NEW p \in Packets, stage[p] # "new"
               PROVE  FALSE
    BY Zenon DEF NeverHangs
  <2>1. /\ quotaLeft = 0 /\ wake # TRUE /\ currentPkt = NoPacket
        /\ channel = <<>> /\ events = {}
    BY DEF SomethingIsDue
  <2>2. WaitsInPort(p)
    <3>1. stage \in [Packets -> {"new", "stored", "asked"}]
      BY Zenon DEF MmuInv, PlacesInv, EngineInv
    <3>2. Status(p) # "out"
      BY <3>1 DEF Status
    <3> QED BY <2>1, <3>2, KeptIsInPort, BufferAssumption
  <2>3. devQueue # <<>>
    <3> SUFFICES ASSUME devQueue = <<>> PROVE FALSE
      OBVIOUS
    <3>1. \A q \in Queues : qdisc[q] = <<>>
      BY <2>1 DEF Port!NoLostWakeup, Port!NoneQueued, SomethingIsDue
    <3> QED BY <2>2, <3>1 DEF WaitsInPort, Port!Contains
  <2>4. PICK first \in Packets : first = devQueue[1] /\ Port!Contains(devQueue, first)
    BY <2>3 DEF DeviceTypes, Port!Contains
  <2>5. Status(first) \in {"asked", "fetched"}
    BY <2>4, KeptIsInPort
  <2>6. Status(first) # "fetched"
    BY <2>1, <2>3, <2>4 DEF Port!NoStall
  <2> QED BY <2>1, <2>5, <2>6, AskedIsDue
<1>2. SwitchInit => NothingLost
  BY DEF SwitchInit, Port!Init, NothingLost
<1> QED BY <1>1, <1>2, SwitchIsMmu, AlwaysMmuInv, InitDiscTypes, DiscTypesKept,
   NothingLostKept, AlwaysPortAccounts, SwitchDoesNotStall, SwitchLosesNoWakeup, PTL
   DEF SwitchSpec
=============================================================================
