------------------------ MODULE HtbfQueueDisc_proofs ------------------------
(***************************************************************************)
(* Proofs about HtbfQueueDisc for any number of classes, any rates, bursts *)
(* and packet sizes.                                                       *)
(***************************************************************************)
EXTENDS HtbfQueueDisc, TLAPS

LEMMA ShaperFacts ==
  /\ Root \in Shapers
  /\ Classes \subseteq Shapers
  /\ Root \notin Classes
  /\ NClasses - 1 \in Classes
  /\ Den \in Nat /\ Den > 0
  /\ \A s \in Shapers : Rate[s] \in Nat /\ Rate[s] > 0 /\ PeakRate[s] \in Nat
                        /\ Burst[s] \in Nat /\ Mtu[s] \in Nat
<1>1. NClasses \in Nat \ {0} /\ Den \in Nat \ {0}
  BY Zenon, HtbfAssumption
<1>2. /\ Rate \in [Shapers -> Nat \ {0}] /\ PeakRate \in [Shapers -> Nat]
      /\ Burst \in [Shapers -> Nat] /\ Mtu \in [Shapers -> Nat]
  BY Zenon, HtbfAssumption
<1> QED BY <1>1, <1>2 DEF Root, Shapers, Classes

(***************************************************************************)
(* Rounding: of a quotient of naturals, and so of tokens and delays.       *)
(***************************************************************************)
LEMMA Quotient ==
  ASSUME NEW x \in Nat, NEW d \in Nat, d > 0
  PROVE  x \div d \in Nat /\ d * (x \div d) <= x
  OBVIOUS

LEMMA GainedFacts ==
  ASSUME NEW rate \in Nat, NEW ticks \in Nat
  PROVE  /\ Gained(rate, ticks) \in Nat
         /\ 2 * Den * Gained(rate, ticks) <= 2 * (rate * ticks) + Den
<1>1. Den \in Nat /\ Den > 0
  BY ShaperFacts
<1>2. 2 * rate * ticks + Den \in Nat /\ 2 * Den \in Nat /\ 2 * Den > 0
  BY <1>1
<1>3. /\ Gained(rate, ticks) \in Nat
      /\ 2 * Den * Gained(rate, ticks) <= 2 * rate * ticks + Den
  BY <1>2, Quotient DEF Gained
<1> QED BY <1>3

LEMMA DelayIsNatural ==
  ASSUME NEW rate \in Nat, rate > 0, NEW bytes \in Nat
  PROVE  CalculateBytesTxTime(rate, bytes) \in Nat
<1>1. 2 * Den * bytes + rate \in Nat /\ 2 * rate \in Nat /\ 2 * rate > 0
  BY ShaperFacts
<1> QED BY <1>1, Quotient DEF CalculateBytesTxTime

-----------------------------------------------------------------------------
(***************************************************************************)
(* One shaper: what its buckets hold, and how long it sleeps.              *)
(***************************************************************************)
LEMMA BucketFacts ==
  ASSUME TypeOK, NEW s \in Shapers, NEW n \in Nat
  PROVE  /\ Btoks(s, n) \in Int /\ Btoks(s, n) <= Burst[s]
         /\ Ptoks(s, n) \in Int /\ Ptoks(s, n) <= Mtu[s]
         /\ PeakRate[s] = 0 => Ptoks(s, n) = 0
<1>1. btokens[s] \in Nat /\ ptokens[s] \in Nat /\ age[s] \in Nat
  BY DEF TypeOK
<1>2. Rate[s] \in Nat /\ PeakRate[s] \in Nat /\ Burst[s] \in Nat /\ Mtu[s] \in Nat
  BY ShaperFacts
<1>3. Gained(Rate[s], age[s]) \in Nat /\ Gained(PeakRate[s], age[s]) \in Nat
  BY <1>1, <1>2, GainedFacts
<1> QED BY <1>1, <1>2, <1>3 DEF Btoks, Ptoks, Least

LEMMA BlockedSleeps ==
  ASSUME TypeOK, NEW s \in Shapers, NEW n \in Nat, ~HasTokens(s, n)
  PROVE  RequiredDelay(s, n) \in Nat
<1>1. /\ Btoks(s, n) \in Int /\ Ptoks(s, n) \in Int
      /\ Ptoks(s, n) < 0 => PeakRate[s] # 0
  BY BucketFacts
<1>2. Rate[s] \in Nat /\ Rate[s] > 0 /\ PeakRate[s] \in Nat
  BY ShaperFacts
<1> DEFINE forRate == CalculateBytesTxTime(Rate[s], -Btoks(s, n))
           forPeak == CalculateBytesTxTime(PeakRate[s], -Ptoks(s, n))
<1>3. Btoks(s, n) < 0 => forRate \in Nat
  BY <1>1, <1>2, DelayIsNatural
<1>4. Ptoks(s, n) < 0 => forPeak \in Nat
  BY <1>1, <1>2, DelayIsNatural
<1>5. RequiredDelay(s, n) = CASE Ptoks(s, n) >= 0 -> forRate
                              [] Btoks(s, n) >= 0 -> forPeak
                              [] OTHER -> Most(forRate, forPeak)
  BY DEF RequiredDelay
<1>6. ~(Btoks(s, n) >= 0 /\ Ptoks(s, n) >= 0)
  BY DEF HasTokens
<1> HIDE DEF forRate, forPeak
<1>7. CASE Ptoks(s, n) >= 0
  BY <1>1, <1>3, <1>5, <1>6, <1>7
<1>8. CASE Ptoks(s, n) < 0 /\ Btoks(s, n) >= 0
  BY <1>1, <1>4, <1>5, <1>8
<1>9. CASE Ptoks(s, n) < 0 /\ Btoks(s, n) < 0
  <2>1. RequiredDelay(s, n) = Most(forRate, forPeak)
    BY <1>1, <1>5, <1>9
  <2> QED BY <2>1, <1>3, <1>4, <1>9 DEF Most
<1> QED BY <1>1, <1>7, <1>8, <1>9

(***************************************************************************)
(* The packet a class gives, and the classes that hold theirs back.        *)
(***************************************************************************)
LEMMA GivenPacket ==
  ASSUME TypeOK, NEW c \in Classes, Gives(c)
  PROVE  /\ Head(Waiting(c)) \in Sizes
         /\ peeked[c] = <<>> => queues[c] # <<>> /\ HasTokens(c, Head(Waiting(c)))
<1>1. queues[c] \in Seq(Sizes) /\ peeked[c] \in {<<>>} \cup {<<n>> : n \in Sizes}
  BY DEF TypeOK
<1>2. CASE peeked[c] = <<>>
  <2>1. queues[c] # <<>> /\ HasTokens(c, Head(queues[c]))
    BY <1>2 DEF Gives
  <2>2. Waiting(c) = queues[c]
    BY <1>1, <1>2 DEF Waiting
  <2> QED BY <1>1, <2>1, <2>2
<1>3. CASE peeked[c] # <<>>
  <2>1. PICK n \in Sizes : peeked[c] = <<n>>
    BY <1>1, <1>3
  <2>2. Head(<<n>> \o queues[c]) = n
    BY <1>1
  <2> QED BY <2>1, <2>2, <1>3 DEF Waiting
<1> QED BY <1>2, <1>3

LEMMA HeldBackFacts ==
  ASSUME TypeOK, NEW k, NEW c \in HeldBackBefore(k)
  PROVE  /\ c \in Classes
         /\ Head(queues[c]) \in Sizes
         /\ ~HasTokens(c, Head(queues[c]))
<1>1. c \in Classes /\ queues[c] # <<>> /\ ~Gives(c)
  BY DEF HeldBackBefore
<1>2. queues[c] \in Seq(Sizes)
  BY <1>1 DEF TypeOK
<1> QED BY <1>1, <1>2 DEF Gives

(***************************************************************************)
(* Payments and timers.                                                    *)
(***************************************************************************)
LEMMA SizesAreNatural == Sizes \subseteq Nat
  BY HtbfAssumption

LEMMA PayTypes ==
  ASSUME TypeOK, NEW S \in SUBSET Shapers, NEW n \in Sizes,
         \A s \in S : HasTokens(s, n), Pay(S, n)
  PROVE  /\ btokens' \in [Shapers -> Nat] /\ ptokens' \in [Shapers -> Nat]
         /\ age' \in [Shapers -> 0 .. MaxAge] /\ credit' \in [Shapers -> Int]
         /\ \A s \in Shapers : btokens'[s] <= Burst[s] /\ ptokens'[s] <= Mtu[s]
<1>1. n \in Nat /\ MaxAge \in Nat
  BY HtbfAssumption
<1>2. btokens' = [s \in Shapers |-> IF s \in S THEN Btoks(s, n) ELSE btokens[s]]
  BY DEF Pay
<1>3. ptokens' = [s \in Shapers |-> IF s \in S THEN Ptoks(s, n) ELSE ptokens[s]]
  BY DEF Pay
<1>4. age' = [s \in Shapers |-> IF s \in S THEN 0 ELSE age[s]]
  BY DEF Pay
<1>5. credit' = [s \in Shapers |->
        IF s \in S THEN Least(credit[s] + Den, 2 * Den * Burst[s]) - 2 * Den * n ELSE credit[s]]
  BY DEF Pay
<1>6. ASSUME NEW s \in Shapers
      PROVE  /\ btokens'[s] \in Nat /\ btokens'[s] <= Burst[s]
             /\ ptokens'[s] \in Nat /\ ptokens'[s] <= Mtu[s]
             /\ age'[s] \in 0 .. MaxAge /\ credit'[s] \in Int
  <2>1. /\ btokens[s] \in Nat /\ btokens[s] <= Burst[s]
        /\ ptokens[s] \in Nat /\ ptokens[s] <= Mtu[s]
        /\ age[s] \in 0 .. MaxAge /\ credit[s] \in Int
    BY DEF TypeOK
  <2>2. CASE s \in S
    <3>1. HasTokens(s, n)
      BY <2>2
    <3>2. /\ Btoks(s, n) \in Nat /\ Btoks(s, n) <= Burst[s]
          /\ Ptoks(s, n) \in Nat /\ Ptoks(s, n) <= Mtu[s]
      BY <1>1, <3>1, BucketFacts DEF HasTokens
    <3>3. btokens'[s] = Btoks(s, n) /\ ptokens'[s] = Ptoks(s, n) /\ age'[s] = 0
      BY <1>2, <1>3, <1>4, <2>2
    <3>4. credit'[s] = Least(credit[s] + Den, 2 * Den * Burst[s]) - 2 * Den * n
      BY <1>5, <2>2
    <3>5. credit'[s] \in Int
      BY <3>4, <2>1, <1>1, ShaperFacts DEF Least
    <3> QED BY <3>2, <3>3, <3>5, <1>1
  <2>3. CASE s \notin S
    BY <2>1, <2>3, <1>2, <1>3, <1>4, <1>5
  <2> QED BY <2>2, <2>3
<1> QED BY <1>2, <1>3, <1>4, <1>5, <1>6

LEMMA TimersSet ==
  ASSUME TypeOK, NEW P \in SUBSET Shapers, NEW n,
         \A s \in P : LET m == IF s = Root THEN n ELSE Head(queues[s])
                      IN m \in Sizes /\ ~HasTokens(s, m),
         SetTimers(P, n)
  PROVE  /\ timer' \in [Shapers -> Nat \cup {Expired}]
         /\ \A s \in Shapers : s \in P \/ timer[s] # Expired => timer'[s] # Expired
<1> DEFINE m(s) == IF s = Root THEN n ELSE Head(queues[s])
<1>1. timer' = [s \in Shapers |-> IF s \in P /\ timer[s] = Expired
                                 THEN RequiredDelay(s, m(s)) ELSE timer[s]]
  BY DEF SetTimers
<1>2. \A s \in P : RequiredDelay(s, m(s)) \in Nat
  BY BlockedSleeps, SizesAreNatural
<1>3. \A s \in Shapers : timer[s] \in Nat \cup {Expired}
  BY DEF TypeOK
<1> HIDE DEF m
<1>4. ASSUME NEW s \in Shapers
      PROVE  /\ timer'[s] \in Nat \cup {Expired}
             /\ s \in P \/ timer[s] # Expired => timer'[s] # Expired
  <2>1. Expired \notin Nat
    BY DEF Expired
  <2> QED BY <1>1, <1>2, <1>3, <2>1
<1> QED BY <1>1, <1>4

-----------------------------------------------------------------------------
(***************************************************************************)
(* Type correctness: the tokens, unsigned in the code, never go below zero *)
(* and never above the bucket.                                             *)
(***************************************************************************)
LEMMA InitTypes == Init => TypeOK
<1> SUFFICES ASSUME Init PROVE TypeOK
  OBVIOUS
<1>1. MaxAge \in Nat /\ Den \in Nat
  BY HtbfAssumption
<1>2. Burst \in [Shapers -> Nat] /\ Mtu \in [Shapers -> Nat]
  BY HtbfAssumption
<1>3. credit \in [Shapers -> Int]
  BY <1>1, <1>2 DEF Init
<1>4. \A s \in Shapers : btokens[s] <= Burst[s] /\ ptokens[s] <= Mtu[s]
  BY <1>2 DEF Init
<1>5. queues \in [Classes -> Seq(Sizes)] /\ peeked \in [Classes -> {<<>>} \cup {<<n>> : n \in Sizes}]
  BY DEF Init
<1>6. timer \in [Shapers -> Nat \cup {Expired}] /\ age \in [Shapers -> 0 .. MaxAge]
  BY <1>1 DEF Init
<1>7. last \in Classes /\ running \in BOOLEAN /\ stopped \in BOOLEAN
  BY ShaperFacts DEF Init
<1>8. btokens \in [Shapers -> Nat] /\ ptokens \in [Shapers -> Nat]
  BY <1>2 DEF Init
<1> QED BY <1>3, <1>4, <1>5, <1>6, <1>7, <1>8 DEF TypeOK

(***************************************************************************)
(* The class the root finds, and what the steps of DoDequeue do to the     *)
(* FIFOs.                                                                  *)
(***************************************************************************)
LEMMA FifoTypes ==
  ASSUME TypeOK, NEW c \in Classes, Gives(c),
         queues' = [queues EXCEPT ![c] = IF peeked[c] = <<>> THEN Tail(@) ELSE @]
  PROVE  queues' \in [Classes -> Seq(Sizes)]
<1>1. queues \in [Classes -> Seq(Sizes)]
  BY DEF TypeOK
<1>2. queues[c] \in Seq(Sizes)
  BY <1>1
<1>3. peeked[c] = <<>> => queues[c] # <<>>
  BY GivenPacket
<1>4. peeked[c] = <<>> => Tail(queues[c]) \in Seq(Sizes)
  BY <1>2, <1>3
<1> QED BY <1>1, <1>2, <1>4

LEMMA PayersPay ==
  ASSUME TypeOK, NEW c \in Classes, Gives(c)
  PROVE  \A s \in Payers(c) : s \in Shapers /\ HasTokens(s, Head(Waiting(c)))
  BY GivenPacket, ShaperFacts DEF Payers

LEMMA TypesKept == TypeOK /\ [Next]_vars => TypeOK'
<1> SUFFICES ASSUME TypeOK, [Next]_vars PROVE TypeOK'
  OBVIOUS
<1> USE ShaperFacts
<1>1. ASSUME NEW c \in Classes, Send(c) PROVE TypeOK'
  <2> DEFINE n == Head(Waiting(c))
  <2>1. Gives(c) /\ HasTokens(Root, n)
    BY <1>1 DEF Send, IsFirst
  <2>2. n \in Sizes
    BY <2>1, GivenPacket
  <2>3. Pay(Payers(c) \cup {Root}, n)
    BY <1>1 DEF Send
  <2>4. /\ Payers(c) \cup {Root} \in SUBSET Shapers
        /\ \A s \in Payers(c) \cup {Root} : HasTokens(s, n)
    BY <2>1, PayersPay
  <2>5. /\ btokens' \in [Shapers -> Nat] /\ ptokens' \in [Shapers -> Nat]
        /\ age' \in [Shapers -> 0 .. MaxAge] /\ credit' \in [Shapers -> Int]
        /\ \A s \in Shapers : btokens'[s] <= Burst[s] /\ ptokens'[s] <= Mtu[s]
    BY <2>2, <2>3, <2>4, PayTypes
  <2>6. SetTimers(HeldBackBefore(Turn(c)), 0)
    BY <1>1 DEF Send
  <2>7. timer' \in [Shapers -> Nat \cup {Expired}]
    BY <2>6, HeldBackFacts, TimersSet
  <2>8. queues' \in [Classes -> Seq(Sizes)]
    BY <1>1, <2>1, FifoTypes DEF Send
  <2>9. peeked' \in [Classes -> {<<>>} \cup {<<k>> : k \in Sizes}]
    <3>1. peeked' = [peeked EXCEPT ![c] = <<>>]
      BY <1>1 DEF Send
    <3>2. peeked \in [Classes -> {<<>>} \cup {<<k>> : k \in Sizes}]
      BY DEF TypeOK
    <3> QED BY <3>1, <3>2
  <2>10. last' \in Classes /\ stopped' \in BOOLEAN /\ running' \in BOOLEAN
    BY <1>1 DEF Send
  <2> QED BY <2>5, <2>7, <2>8, <2>9, <2>10 DEF TypeOK
<1>2. ASSUME NEW c \in Classes, Block(c) PROVE TypeOK'
  <2> DEFINE n == Head(Waiting(c))
  <2>1. Gives(c) /\ ~HasTokens(Root, n)
    BY <1>2 DEF Block, IsFirst
  <2>2. n \in Sizes
    BY <2>1, GivenPacket
  <2>3. Pay(Payers(c), n)
    BY <1>2 DEF Block
  <2>4. /\ Payers(c) \in SUBSET Shapers
        /\ \A s \in Payers(c) : HasTokens(s, n)
    BY <2>1, PayersPay
  <2>5. /\ btokens' \in [Shapers -> Nat] /\ ptokens' \in [Shapers -> Nat]
        /\ age' \in [Shapers -> 0 .. MaxAge] /\ credit' \in [Shapers -> Int]
        /\ \A s \in Shapers : btokens'[s] <= Burst[s] /\ ptokens'[s] <= Mtu[s]
    BY <2>2, <2>3, <2>4, PayTypes
  <2>6. SetTimers(HeldBackBefore(Turn(c)) \cup {Root}, n)
    BY <1>2 DEF Block
  <2>7. timer' \in [Shapers -> Nat \cup {Expired}]
    BY <2>1, <2>2, <2>6, HeldBackFacts, TimersSet
  <2>8. queues' \in [Classes -> Seq(Sizes)]
    BY <1>2, <2>1, FifoTypes DEF Block
  <2>9. peeked' \in [Classes -> {<<>>} \cup {<<k>> : k \in Sizes}]
    <3>1. peeked' = [peeked EXCEPT ![c] = <<n>>]
      BY <1>2 DEF Block
    <3>2. peeked \in [Classes -> {<<>>} \cup {<<k>> : k \in Sizes}]
      BY DEF TypeOK
    <3> QED BY <2>2, <3>1, <3>2
  <2>10. running' = FALSE /\ last' = last /\ stopped' = stopped
    BY <1>2 DEF Block
  <2>11. last' \in Classes /\ stopped' \in BOOLEAN /\ running' \in BOOLEAN
    BY <2>10 DEF TypeOK
  <2> QED BY <2>5, <2>7, <2>8, <2>9, <2>11 DEF TypeOK
<1>3. ASSUME GiveNothing PROVE TypeOK'
  <2>1. timer' \in [Shapers -> Nat \cup {Expired}]
    BY <1>3, HeldBackFacts, TimersSet DEF GiveNothing
  <2> QED BY <1>3, <2>1 DEF GiveNothing, TypeOK
<1>4. ASSUME NEW c \in Classes, NEW n \in Sizes, Enqueue(c, n) PROVE TypeOK'
  <2>1. queues' = [queues EXCEPT ![c] = Append(@, n)] /\ queues \in [Classes -> Seq(Sizes)]
    BY <1>4 DEF Enqueue, TypeOK
  <2>2. queues' \in [Classes -> Seq(Sizes)]
    BY <2>1
  <2>3. running' \in BOOLEAN
    BY <1>4 DEF Enqueue
  <2> QED BY <1>4, <2>2, <2>3 DEF Enqueue, TypeOK
<1>5. ASSUME DeviceWakes PROVE TypeOK'
  BY <1>5 DEF DeviceWakes, TypeOK
<1>6. ASSUME NEW s \in Shapers, TimerFires(s) PROVE TypeOK'
  <2>1. timer' \in [Shapers -> Nat \cup {Expired}]
    BY <1>6 DEF TimerFires, TypeOK
  <2>2. running' \in BOOLEAN
    BY <1>6 DEF TimerFires
  <2> QED BY <1>6, <2>1, <2>2 DEF TimerFires, TypeOK
<1>7. ASSUME Tick PROVE TypeOK'
  <2>1. timer' \in [Shapers -> Nat \cup {Expired}]
    <3>1. timer' = [s \in Shapers |-> IF timer[s] = Expired THEN Expired ELSE timer[s] - 1]
      BY <1>7 DEF Tick
    <3>2. ASSUME NEW s \in Shapers, timer[s] # Expired PROVE timer[s] - 1 \in Nat
      <4>1. timer[s] \in Nat
        BY <3>2 DEF TypeOK
      <4>2. timer[s] # 0
        BY <1>7 DEF Tick
      <4> QED BY <4>1, <4>2
    <3> QED BY <3>1, <3>2
  <2>2. age' \in [Shapers -> 0 .. MaxAge]
    <3>1. age \in [Shapers -> 0 .. MaxAge] /\ MaxAge \in Nat
      BY HtbfAssumption DEF TypeOK
    <3> QED BY <1>7, <3>1 DEF Tick, Least
  <2>3. credit' \in [Shapers -> Int]
    <3>1. credit \in [Shapers -> Int]
      BY DEF TypeOK
    <3> QED BY <1>7, <3>1 DEF Tick, Least
  <2>4. UNCHANGED <<queues, peeked, btokens, ptokens, last, running, stopped>>
    BY <1>7 DEF Tick
  <2> QED BY <2>1, <2>2, <2>3, <2>4 DEF TypeOK
<1>8. CASE UNCHANGED vars
  BY <1>8 DEF vars, TypeOK
<1> QED BY <1>1, <1>2, <1>3, <1>4, <1>5, <1>6, <1>7, <1>8 DEF Next, Dequeue

(***************************************************************************)
(* HTBF keeps its types, for any tree of one level: no bucket is overdrawn *)
(* or overfilled.                                                          *)
(***************************************************************************)
THEOREM HtbfTypes == Spec => []TypeOK
  BY InitTypes, TypesKept, PTL DEF Spec

-----------------------------------------------------------------------------
(***************************************************************************)
(* Rates.  What a bucket may hold after the time since its checkpoint is   *)
(* covered by the exact account: the bucket is given its tokens rounded,   *)
(* the account half a byte with every packet.                              *)
(***************************************************************************)
Unit == 2 * Den

Covered(s) ==
  credit[s] >= Least(Unit * Burst[s], Unit * btokens[s] + 2 * (Rate[s] * age[s]))

RateInv == TypeOK /\ \A s \in Shapers : Covered(s)

LEMMA RateInvImplies == RateInv => RateIsKept
<1> SUFFICES ASSUME RateInv, NEW s \in Shapers PROVE credit[s] >= 0
  BY DEF RateIsKept
<1>1. btokens[s] \in Nat /\ age[s] \in Nat /\ credit[s] \in Int
  BY DEF RateInv, TypeOK
<1>2. Unit \in Nat /\ Burst[s] \in Nat /\ Rate[s] \in Nat
  BY ShaperFacts DEF Unit
<1>3. Unit * Burst[s] \in Nat /\ Unit * btokens[s] \in Nat /\ Rate[s] * age[s] \in Nat
  BY <1>1, <1>2
<1>4. Covered(s)
  BY DEF RateInv
<1> HIDE DEF Unit
<1> QED BY <1>1, <1>3, <1>4 DEF Covered, Least

LEMMA InitCovered == ASSUME Init, NEW s \in Shapers PROVE Covered(s)
<1>1. credit[s] = Unit * Burst[s] /\ btokens[s] = Burst[s] /\ age[s] = 0
  BY DEF Init, Unit
<1>2. Unit * Burst[s] \in Nat /\ Rate[s] * 0 = 0
  BY ShaperFacts DEF Unit
<1> QED BY <1>1, <1>2 DEF Covered, Least

(***************************************************************************)
(* The arithmetic of a payment: u, b and g are the bucket, what it holds   *)
(* and what it gains, r the rate's exact yield, all in units.              *)
(***************************************************************************)
LEMMA PaymentCovered ==
  ASSUME NEW u \in Nat, NEW b \in Nat, NEW g \in Nat, NEW r \in Nat, NEW n \in Nat,
         NEW d \in Nat, NEW k \in Int, g <= r + d, k >= Least(u, b + r)
  PROVE  Least(k + d, u) - n >= Least(u, Least(b + g, u) - n)
  BY DEF Least

LEMMA PayCovered ==
  ASSUME RateInv, NEW S \in SUBSET Shapers, NEW n \in Sizes, Pay(S, n), NEW s \in S
  PROVE  Covered(s)'
<1>1. s \in Shapers /\ n \in Nat
  BY SizesAreNatural
<1>2. btokens[s] \in Nat /\ age[s] \in Nat /\ credit[s] \in Int
  BY <1>1 DEF RateInv, TypeOK
<1>3. Den \in Nat /\ Unit \in Nat /\ Burst[s] \in Nat /\ Rate[s] \in Nat
  BY <1>1, ShaperFacts DEF Unit
<1> DEFINE g == Gained(Rate[s], age[s])
<1>4. g \in Nat /\ Unit * g <= 2 * (Rate[s] * age[s]) + Den
  BY <1>2, <1>3, GainedFacts DEF Unit
<1>5. /\ btokens'[s] = Least(btokens[s] + g, Burst[s]) - n
      /\ age'[s] = 0
      /\ credit'[s] = Least(credit[s] + Den, Unit * Burst[s]) - Unit * n
  BY <1>1 DEF Pay, Btoks, Unit
<1>6. Covered(s)
  BY <1>1 DEF RateInv
<1> HIDE DEF g, Unit
<1>7. /\ Unit * Burst[s] \in Nat /\ Unit * btokens[s] \in Nat /\ Unit * g \in Nat
      /\ Unit * n \in Nat /\ 2 * (Rate[s] * age[s]) \in Nat
  BY <1>1, <1>2, <1>3, <1>4
<1>8. Unit * btokens'[s] = Least(Unit * btokens[s] + Unit * g, Unit * Burst[s]) - Unit * n
  <2>1. CASE btokens[s] + g <= Burst[s]
    <3>1. Unit * (btokens[s] + g) <= Unit * Burst[s]
      BY <1>2, <1>3, <1>4, <2>1
    <3>2. Unit * (btokens[s] + g) = Unit * btokens[s] + Unit * g
      BY <1>2, <1>3, <1>4
    <3>3. Unit * btokens'[s] = Unit * (btokens[s] + g) - Unit * n
      <4> DEFINE h == btokens[s] + g
      <4>1. btokens'[s] = Least(h, Burst[s]) - n /\ h <= Burst[s]
        BY <1>5, <2>1
      <4> HIDE DEF h
      <4>2. btokens'[s] = h - n
        BY <4>1 DEF Least
      <4>3. h \in Nat /\ Unit * (h - n) = Unit * h - Unit * n
        BY <1>1, <1>2, <1>3, <1>4 DEF h
      <4> QED BY <4>2, <4>3 DEF h
    <3> QED BY <3>1, <3>2, <3>3, <1>7 DEF Least
  <2>2. CASE ~(btokens[s] + g <= Burst[s])
    <3>1. Unit * Burst[s] <= Unit * (btokens[s] + g)
      BY <1>2, <1>3, <1>4, <2>2
    <3>2. Unit * (btokens[s] + g) = Unit * btokens[s] + Unit * g
      BY <1>2, <1>3, <1>4
    <3>3. Unit * btokens'[s] = Unit * Burst[s] - Unit * n
      <4>1. btokens'[s] = Burst[s] - n
        BY <1>5, <2>2 DEF Least
      <4> QED BY <4>1, <1>1, <1>3
    <3> QED BY <3>1, <3>2, <3>3, <1>7 DEF Least
  <2> QED BY <2>1, <2>2
<1>9. credit'[s] >= Least(Unit * Burst[s], Unit * btokens'[s])
  <2>1. credit[s] >= Least(Unit * Burst[s], Unit * btokens[s] + 2 * (Rate[s] * age[s]))
    BY <1>6 DEF Covered
  <2> DEFINE u == Unit * Burst[s]
             b == Unit * btokens[s]
             v == Unit * g
             r == 2 * (Rate[s] * age[s])
             m == Unit * n
  <2>2. /\ u \in Nat /\ b \in Nat /\ v \in Nat /\ r \in Nat /\ m \in Nat
        /\ v <= r + Den
        /\ credit[s] >= Least(u, b + r)
    BY <1>4, <1>7, <2>1
  <2>3. credit'[s] = Least(credit[s] + Den, u) - m /\ Unit * btokens'[s] = Least(b + v, u) - m
    BY <1>5, <1>8
  <2> HIDE DEF u, b, v, r, m
  <2>4. Least(credit[s] + Den, u) - m >= Least(u, Least(b + v, u) - m)
    BY <2>2, <1>2, <1>3, PaymentCovered
  <2>5. credit'[s] >= Least(u, Unit * btokens'[s])
    BY <2>3, <2>4
  <2> QED BY <2>5 DEF u
<1>10. 2 * (Rate[s] * age'[s]) = 0
  BY <1>3, <1>5
<1>11. Unit * btokens'[s] \in Int
  BY <1>7, <1>8 DEF Least
<1> QED BY <1>9, <1>10, <1>11 DEF Covered, Unit

(***************************************************************************)
(* The arithmetic of a tick: w is what a tick yields.  A bucket as old as  *)
(* MaxAge is full, the account with it.                                    *)
(***************************************************************************)
LEMMA TickCovered ==
  ASSUME RateInv, Tick, NEW s \in Shapers
  PROVE  Covered(s)'
<1>1. btokens[s] \in Nat /\ age[s] \in 0 .. MaxAge /\ credit[s] \in Int /\ MaxAge \in Nat
  BY HtbfAssumption DEF RateInv, TypeOK
<1>2. Den \in Nat /\ Unit \in Nat /\ Burst[s] \in Nat /\ Rate[s] \in Nat
  BY ShaperFacts DEF Unit
<1>3. /\ btokens'[s] = btokens[s]
      /\ age'[s] = Least(age[s] + 1, MaxAge)
      /\ credit'[s] = Least(credit[s] + 2 * Rate[s], Unit * Burst[s])
  BY DEF Tick, Unit
<1> DEFINE u == Unit * Burst[s]
           b == Unit * btokens[s]
           w == 2 * Rate[s]
           r == 2 * (Rate[s] * age[s])
<1>4. u \in Nat /\ b \in Nat /\ w \in Nat /\ r \in Nat
  BY <1>1, <1>2
<1>5. credit[s] >= Least(u, b + r)
  BY DEF RateInv, Covered
<1>6. CASE age[s] < MaxAge
  <2>1. age'[s] = age[s] + 1
    BY <1>1, <1>3, <1>6 DEF Least
  <2>2. 2 * (Rate[s] * age'[s]) = r + w
    BY <1>1, <1>2, <2>1
  <2> HIDE DEF u, b, w, r
  <2>3. Least(credit[s] + w, u) >= Least(u, b + (r + w))
    BY <1>1, <1>4, <1>5 DEF Least
  <2> QED BY <1>3, <2>2, <2>3 DEF Covered, u, b, w, Unit
<1>7. CASE age[s] = MaxAge
  <2>1. age'[s] = age[s]
    BY <1>1, <1>3, <1>7 DEF Least
  <2>2. r >= u
    <3>1. Rate[s] * MaxAge >= Den * Burst[s]
      BY HtbfAssumption
    <3>2. Rate[s] * MaxAge \in Nat /\ Den * Burst[s] \in Nat
      BY <1>1, <1>2
    <3>3. u = 2 * (Den * Burst[s])
      BY <1>2 DEF Unit
    <3> QED BY <1>7, <3>1, <3>2, <3>3
  <2>3. 2 * (Rate[s] * age'[s]) = r
    BY <2>1
  <2> HIDE DEF u, b, w, r
  <2>4. Least(credit[s] + w, u) >= Least(u, b + r)
    BY <1>1, <1>4, <1>5, <2>2 DEF Least
  <2> QED BY <1>3, <2>3, <2>4 DEF Covered, u, b, w, Unit
<1> QED BY <1>1, <1>6, <1>7

LEMMA CoverKept == RateInv /\ [Next]_vars => \A s \in Shapers : Covered(s)'
<1> SUFFICES ASSUME RateInv, [Next]_vars, NEW s \in Shapers PROVE Covered(s)'
  OBVIOUS
<1>1. Covered(s) /\ TypeOK
  BY DEF RateInv
<1>2. ASSUME NEW S \in SUBSET Shapers, NEW n \in Sizes, Pay(S, n) PROVE Covered(s)'
  <2>1. CASE s \in S
    BY <1>2, <2>1, PayCovered
  <2>2. CASE s \notin S
    <3>1. btokens'[s] = btokens[s] /\ age'[s] = age[s] /\ credit'[s] = credit[s]
      BY <1>1, <1>2, <2>2 DEF Pay, TypeOK
    <3> QED BY <1>1, <3>1 DEF Covered, Unit
  <2> QED BY <2>1, <2>2
<1>3. ASSUME UNCHANGED <<btokens, age, credit>> PROVE Covered(s)'
  BY <1>1, <1>3 DEF Covered, Unit
<1>4. ASSUME NEW c \in Classes, Send(c) \/ Block(c) PROVE Covered(s)'
  <2>1. Gives(c)
    BY <1>4 DEF Send, Block, IsFirst
  <2>2. Head(Waiting(c)) \in Sizes
    BY <1>1, <2>1, GivenPacket
  <2>3. \E S \in SUBSET Shapers : Pay(S, Head(Waiting(c)))
    BY <1>4, <1>1, <2>1, PayersPay, ShaperFacts DEF Send, Block
  <2> QED BY <1>2, <2>2, <2>3
<1>5. CASE GiveNothing
  BY <1>3, <1>5 DEF GiveNothing
<1>6. ASSUME NEW c \in Classes, NEW n \in Sizes, Enqueue(c, n) PROVE Covered(s)'
  BY <1>3, <1>6 DEF Enqueue
<1>7. CASE DeviceWakes
  BY <1>3, <1>7 DEF DeviceWakes
<1>8. ASSUME NEW t \in Shapers, TimerFires(t) PROVE Covered(s)'
  BY <1>3, <1>8 DEF TimerFires
<1>9. CASE Tick
  BY <1>9, TickCovered
<1>10. CASE UNCHANGED vars
  BY <1>3, <1>10 DEF vars
<1> QED BY <1>4, <1>5, <1>6, <1>7, <1>8, <1>9, <1>10 DEF Next, Dequeue

(***************************************************************************)
(* No shaper ever lets more pass than its burst and its rate allow, but    *)
(* for half a byte a packet, for any rates, bursts, sizes and classes.     *)
(***************************************************************************)
THEOREM HtbfRate == Spec => []RateIsKept
<1>1. Init => RateInv
  BY InitTypes, InitCovered DEF RateInv
<1>2. RateInv /\ [Next]_vars => RateInv'
  BY TypesKept, CoverKept DEF RateInv
<1> QED BY <1>1, <1>2, RateInvImplies, PTL DEF Spec

-----------------------------------------------------------------------------
(***************************************************************************)
(* Wakeups.                                                                *)
(***************************************************************************)
LEMMA TurnsAreFew == ASSUME TypeOK, NEW c \in Classes PROVE Turn(c) < NClasses
<1>1. c \in Int /\ last \in Int /\ NClasses \in Nat /\ NClasses > 0
  BY HtbfAssumption DEF TypeOK, Classes
<1>2. (c + NClasses - 1 - last) % NClasses < NClasses
  BY <1>1
<1> QED BY <1>2 DEF Turn

LEMMA WakeupKept == TypeOK /\ WakeupPending /\ [Next]_vars => WakeupPending'
<1> SUFFICES ASSUME TypeOK, WakeupPending, [Next]_vars,
                    NEW c \in Classes, Waiting(c)' # <<>>, ~running', ~stopped'
             PROVE  \E s \in Shapers : timer'[s] # Expired
  BY DEF WakeupPending
<1> USE ShaperFacts
<1>1. ASSUME NEW d \in Classes, Send(d) PROVE FALSE
  BY <1>1 DEF Send
<1>2. ASSUME NEW d \in Classes, Block(d) PROVE timer'[Root] # Expired
  <2>1. Gives(d) /\ ~HasTokens(Root, Head(Waiting(d)))
    BY <1>2 DEF Block, IsFirst
  <2>2. Head(Waiting(d)) \in Sizes
    BY <2>1, GivenPacket
  <2>3. SetTimers(HeldBackBefore(Turn(d)) \cup {Root}, Head(Waiting(d)))
    BY <1>2 DEF Block
  <2> DEFINE P == HeldBackBefore(Turn(d)) \cup {Root}
  <2>4. /\ P \in SUBSET Shapers
        /\ \A s \in P : LET m == IF s = Root THEN Head(Waiting(d)) ELSE Head(queues[s])
                       IN m \in Sizes /\ ~HasTokens(s, m)
    BY <2>1, <2>2, HeldBackFacts
  <2>5. Root \in P
    OBVIOUS
  <2> HIDE DEF P
  <2>6. SetTimers(P, Head(Waiting(d)))
    BY <2>3 DEF P
  <2> QED BY <2>4, <2>5, <2>6, TimersSet
<1>3. ASSUME GiveNothing PROVE timer'[c] # Expired
  <2>1. ~Gives(c)
    BY <1>3 DEF GiveNothing
  <2>2. Waiting(c) # <<>>
    BY <1>3 DEF GiveNothing, Waiting
  <2>3. queues[c] # <<>>
    <3>1. peeked[c] = <<>> /\ queues[c] \in Seq(Sizes)
      BY <2>1 DEF Gives, TypeOK
    <3> QED BY <2>2, <3>1 DEF Waiting
  <2>4. c \in HeldBackBefore(NClasses)
    BY <2>1, <2>3, TurnsAreFew DEF HeldBackBefore
  <2>5. SetTimers(HeldBackBefore(NClasses), 0)
    BY <1>3 DEF GiveNothing
  <2> QED BY <2>4, <2>5, HeldBackFacts, TimersSet
<1>4. ASSUME NEW d \in Classes, NEW n \in Sizes, Enqueue(d, n) PROVE FALSE
  BY <1>4 DEF Enqueue
<1>5. ASSUME DeviceWakes PROVE FALSE
  BY <1>5 DEF DeviceWakes
<1>6. ASSUME NEW s \in Shapers, TimerFires(s) PROVE FALSE
  BY <1>6 DEF TimerFires
<1>7. ASSUME UNCHANGED <<queues, peeked, running, stopped>> PROVE \E s \in Shapers : timer[s] # Expired
  <2>1. Waiting(c) # <<>> /\ ~running /\ ~stopped
    BY <1>7 DEF Waiting
  <2> QED BY <2>1 DEF WakeupPending
<1>8. ASSUME Tick PROVE \E s \in Shapers : timer'[s] # Expired
  <2>1. PICK s \in Shapers : timer[s] # Expired
    BY <1>7, <1>8 DEF Tick
  <2>2. timer'[s] = timer[s] - 1 /\ timer[s] # 0
    BY <1>8, <2>1 DEF Tick
  <2>3. timer[s] \in Nat
    BY <2>1 DEF TypeOK
  <2>4. timer'[s] # Expired
    BY <2>2, <2>3 DEF Expired
  <2> QED BY <2>4
<1>9. ASSUME UNCHANGED vars PROVE \E s \in Shapers : timer'[s] # Expired
  BY <1>7, <1>9 DEF vars
<1> QED BY <1>1, <1>2, <1>3, <1>4, <1>5, <1>6, <1>8, <1>9 DEF Next, Dequeue

(***************************************************************************)
(* A disc with packets is never left without a timer, for any rates and    *)
(* classes: whoever blocks a packet has one, or sets it.                   *)
(***************************************************************************)
THEOREM HtbfWakeup == Spec => []WakeupPending
<1>1. Init => WakeupPending
  BY DEF Init, WakeupPending, Waiting
<1>2. TypeOK /\ WakeupPending /\ [Next]_vars => WakeupPending'
  BY WakeupKept
<1> QED BY <1>1, <1>2, HtbfTypes, PTL DEF Spec
=============================================================================
