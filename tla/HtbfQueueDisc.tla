---------------------------- MODULE HtbfQueueDisc ----------------------------
(***************************************************************************)
(* A tree of token bucket discs (htbf-queue-disc.{h,cc}): a root disc and  *)
(* one child per class, each a shaper of its own over a FIFO, all of them  *)
(* waking the root (SetRootQdisc).  The root looks at a child with         *)
(* QueueDisc::Peek, which makes the child dequeue: a packet that is only   *)
(* looked at has paid its child's tokens and stays with the child until    *)
(* the root can pay too.                                                   *)
(*                                                                         *)
(* Time passes in ticks (a nanosecond, the resolution of ns-3); a rate is  *)
(* a number of bytes per Den ticks.  A packet is its size.                 *)
(***************************************************************************)
EXTENDS Integers, Sequences

CONSTANTS NClasses,   \* GetNQueueDiscClasses () of the root
          Burst,      \* m_burst of each shaper
          Mtu,        \* m_mtu of each shaper
          Rate,       \* m_rate of each shaper, in bytes per Den ticks
          PeakRate,   \* m_peakRate, 0 if there is no second bucket
          Den,        \* the ticks a rate is given for
          Sizes,      \* the sizes of packets
          QueueBound, \* bound: packets in the FIFO of one child
          MaxAge      \* bound: a checkpoint is not told from one as old as this

Classes == 0 .. NClasses - 1
Root == NClasses
Shapers == 0 .. NClasses

(***************************************************************************)
(* A bucket is full after MaxAge ticks whatever was in it, so nothing      *)
(* depends on how much older a checkpoint is.                              *)
(***************************************************************************)
ASSUME HtbfAssumption ==
  /\ NClasses \in Nat \ {0}
  /\ Den \in Nat \ {0}
  /\ Rate \in [Shapers -> Nat \ {0}]
  /\ PeakRate \in [Shapers -> Nat]
  /\ Burst \in [Shapers -> Nat]
  /\ Mtu \in [Shapers -> Nat]
  /\ Sizes \subseteq Nat \ {0}
  /\ QueueBound \in Nat
  /\ MaxAge \in Nat
  /\ \A s \in Shapers : Rate[s] * MaxAge >= Den * Burst[s]
  /\ \A s \in Shapers : PeakRate[s] > 0 => PeakRate[s] * MaxAge >= Den * Mtu[s]

VARIABLES
  queues,   \* the packets in the FIFO of each class
  peeked,   \* m_requeued of each child: a packet that waits for the root's tokens
  btokens,  \* m_btokens of each shaper
  ptokens,  \* m_ptokens
  age,      \* Now - m_timeCheckPoint
  timer,    \* m_id: ticks until it fires, Expired otherwise
  last,     \* m_last of the root
  running,  \* the root's Run has not ended
  stopped,  \* the device takes nothing
  credit    \* what each shaper may send now at its rate (see RateIsKept)

shaperVars == <<btokens, ptokens, age, credit>>
vars == <<queues, peeked, btokens, ptokens, age, timer, last, running, stopped, credit>>

-----------------------------------------------------------------------------
Expired == -1

Least(x, y) == IF x <= y THEN x ELSE y
Most(x, y) == IF x >= y THEN x ELSE y

(***************************************************************************)
(* Both conversions round to the nearest: tokens to whole bytes (round     *)
(* ()), a delay to whole ticks (Time (int64x64_t)). Tokens are gained at   *)
(* the whole bytes per second of a rate (GetBitRate () / 8), a delay       *)
(* counts its bits: one rate stands for both, so rates are multiples of 8  *)
(* bits per second.                                                        *)
(***************************************************************************)
Gained(rate, ticks) == (2 * rate * ticks + Den) \div (2 * Den)
CalculateBytesTxTime(rate, bytes) == (2 * Den * bytes + rate) \div (2 * rate)

(***************************************************************************)
(* btoks and ptoks: the tokens a packet of n bytes would leave.            *)
(***************************************************************************)
WrongBtoks(s, n) == btokens[s] + Gained(Rate[s], age[s]) - n  \* mutant: the bucket has no brim

Btoks(s, n) == Least(btokens[s] + Gained(Rate[s], age[s]), Burst[s]) - n

Ptoks(s, n) ==
  IF PeakRate[s] = 0 THEN 0
  ELSE Least(ptokens[s] + Gained(PeakRate[s], age[s]), Mtu[s]) - n

HasTokens(s, n) == Btoks(s, n) >= 0 /\ Ptoks(s, n) >= 0

RequiredDelay(s, n) ==
  LET forRate == CalculateBytesTxTime(Rate[s], -Btoks(s, n))
      forPeak == CalculateBytesTxTime(PeakRate[s], -Ptoks(s, n))
  IN CASE Ptoks(s, n) >= 0 -> forRate
       [] Btoks(s, n) >= 0 -> forPeak
       [] OTHER -> Most(forRate, forPeak)

-----------------------------------------------------------------------------
Init ==
  /\ queues = [c \in Classes |-> <<>>]
  /\ peeked = [c \in Classes |-> <<>>]
  /\ btokens = Burst
  /\ ptokens = Mtu
  /\ age = [s \in Shapers |-> 0]
  /\ timer = [s \in Shapers |-> Expired]
  /\ last = NClasses - 1
  /\ running = FALSE
  /\ stopped = FALSE
  /\ credit = [s \in Shapers |-> 2 * Den * Burst[s]]

(***************************************************************************)
(* The packet a class would give the root, first of those it holds.        *)
(***************************************************************************)
Waiting(c) == peeked[c] \o queues[c]

Gives(c) == peeked[c] # <<>> \/ (queues[c] # <<>> /\ HasTokens(c, Head(queues[c])))

WrongTurn(c) == c  \* mutant: every scan begins with the first class

Turn(c) == (c + NClasses - 1 - last) % NClasses

IsFirst(c) == Gives(c) /\ \A d \in Classes : Gives(d) => Turn(c) <= Turn(d)

(***************************************************************************)
(* The shapers of S let a packet of n bytes pass.                          *)
(***************************************************************************)
WrongPay(S, n) ==  \* mutant: the checkpoint is not moved
  /\ btokens' = [s \in Shapers |-> IF s \in S THEN Btoks(s, n) ELSE btokens[s]]
  /\ ptokens' = [s \in Shapers |-> IF s \in S THEN Ptoks(s, n) ELSE ptokens[s]]
  /\ age' = age
  /\ credit' = [s \in Shapers |->
       IF s \in S THEN Least(credit[s] + Den, 2 * Den * Burst[s]) - 2 * Den * n ELSE credit[s]]

Pay(S, n) ==
  /\ btokens' = [s \in Shapers |-> IF s \in S THEN Btoks(s, n) ELSE btokens[s]]
  /\ ptokens' = [s \in Shapers |-> IF s \in S THEN Ptoks(s, n) ELSE ptokens[s]]
  /\ age' = [s \in Shapers |-> IF s \in S THEN 0 ELSE age[s]]
  /\ credit' = [s \in Shapers |->
       IF s \in S THEN Least(credit[s] + Den, 2 * Den * Burst[s]) - 2 * Den * n ELSE credit[s]]

(***************************************************************************)
(* The children in P held their packet back, the root a packet of n bytes  *)
(* if it is in P: each sets its timer unless one is set.                   *)
(***************************************************************************)
WrongSetTimers(P, n) ==  \* mutant: only the root wakes itself
  timer' = [s \in Shapers |->
    IF s \in P /\ s = Root /\ timer[s] = Expired THEN RequiredDelay(s, n) ELSE timer[s]]

SetTimers(P, n) ==
  timer' = [s \in Shapers |->
    IF s \in P /\ timer[s] = Expired
    THEN RequiredDelay(s, IF s = Root THEN n ELSE Head(queues[s]))
    ELSE timer[s]]

HeldBackBefore(k) == {c \in Classes : Turn(c) < k /\ queues[c] # <<>> /\ ~Gives(c)}

(***************************************************************************)
(* DoDequeue of the root finds c first; c pays unless it has paid.         *)
(***************************************************************************)
Payers(c) == IF peeked[c] = <<>> THEN {c} ELSE {}

Send(c) ==
  LET n == Head(Waiting(c))
  IN /\ running
     /\ IsFirst(c)
     /\ HasTokens(Root, n)
     /\ Pay(Payers(c) \cup {Root}, n)
     /\ SetTimers(HeldBackBefore(Turn(c)), 0)
     /\ peeked' = [peeked EXCEPT ![c] = <<>>]
     /\ queues' = [queues EXCEPT ![c] = IF peeked[c] = <<>> THEN Tail(@) ELSE @]
     /\ last' = c
     /\ stopped' \in BOOLEAN
     /\ running' = ~stopped'

(***************************************************************************)
(* The root cannot pay: the classes behind c are blocked too.              *)
(***************************************************************************)
Block(c) ==
  LET n == Head(Waiting(c))
  IN /\ running
     /\ IsFirst(c)
     /\ ~HasTokens(Root, n)
     /\ Pay(Payers(c), n)
     /\ SetTimers(HeldBackBefore(Turn(c)) \cup {Root}, n)
     /\ peeked' = [peeked EXCEPT ![c] = <<n>>]
     /\ queues' = [queues EXCEPT ![c] = IF peeked[c] = <<>> THEN Tail(@) ELSE @]
     /\ running' = FALSE
     /\ UNCHANGED <<last, stopped>>

GiveNothing ==
  /\ running
  /\ \A c \in Classes : ~Gives(c)
  /\ SetTimers(HeldBackBefore(NClasses), 0)
  /\ running' = FALSE
  /\ UNCHANGED <<queues, peeked, btokens, ptokens, age, last, stopped, credit>>

Dequeue == GiveNothing \/ \E c \in Classes : Send(c) \/ Block(c)

(***************************************************************************)
(* Who calls Run: the traffic control layer behind Enqueue, the device     *)
(* when it wakes its queue, and a timer.                                   *)
(***************************************************************************)
Enqueue(c, n) ==
  /\ ~running
  /\ Len(queues[c]) < QueueBound
  /\ queues' = [queues EXCEPT ![c] = Append(@, n)]
  /\ running' = ~stopped
  /\ UNCHANGED <<peeked, timer, last, stopped, btokens, ptokens, age, credit>>

DeviceWakes ==
  /\ stopped
  /\ stopped' = FALSE
  /\ running' = TRUE
  /\ UNCHANGED <<queues, peeked, timer, last, btokens, ptokens, age, credit>>

TimerFires(s) ==
  /\ ~running
  /\ timer[s] = 0
  /\ timer' = [timer EXCEPT ![s] = Expired]
  /\ running' = ~stopped
  /\ UNCHANGED <<queues, peeked, last, stopped, btokens, ptokens, age, credit>>

(***************************************************************************)
(* The clock moves on when nothing is due now.                             *)
(***************************************************************************)
Tick ==
  /\ ~running
  /\ \A s \in Shapers : timer[s] # 0
  /\ timer' = [s \in Shapers |-> IF timer[s] = Expired THEN Expired ELSE timer[s] - 1]
  /\ age' = [s \in Shapers |-> Least(age[s] + 1, MaxAge)]
  /\ credit' = [s \in Shapers |-> Least(credit[s] + 2 * Rate[s], 2 * Den * Burst[s])]
  /\ UNCHANGED <<queues, peeked, btokens, ptokens, last, running, stopped>>

Next ==
  \/ Dequeue
  \/ \E c \in Classes, n \in Sizes : Enqueue(c, n)
  \/ DeviceWakes
  \/ \E s \in Shapers : TimerFires(s)
  \/ Tick

Spec == Init /\ [][Next]_vars

(***************************************************************************)
(* The simulator runs what is due and goes on to what is due next; the     *)
(* device wakes its queue once it has sent a packet.                       *)
(***************************************************************************)
FairSpec ==
  /\ Spec
  /\ WF_vars(Dequeue)
  /\ WF_vars(DeviceWakes)
  /\ \A s \in Shapers : WF_vars(TimerFires(s))
  /\ WF_vars(Tick)

-----------------------------------------------------------------------------
(***************************************************************************)
(* Types: no bucket is overdrawn (the tokens are unsigned) or overfilled.  *)
(***************************************************************************)
TypeOK ==
  /\ queues \in [Classes -> Seq(Sizes)]
  /\ peeked \in [Classes -> {<<>>} \cup {<<n>> : n \in Sizes}]
  /\ btokens \in [Shapers -> Nat]
  /\ ptokens \in [Shapers -> Nat]
  /\ age \in [Shapers -> 0 .. MaxAge]
  /\ timer \in [Shapers -> Nat \cup {Expired}]
  /\ last \in Classes
  /\ running \in BOOLEAN
  /\ stopped \in BOOLEAN
  /\ credit \in [Shapers -> Int]
  /\ \A s \in Shapers : btokens[s] <= Burst[s] /\ ptokens[s] <= Mtu[s]

(***************************************************************************)
(* The rate of every shaper is kept: in no span of time does it let more   *)
(* pass than a burst, what its rate gives in that time, and half a byte    *)
(* per packet, which is what the rounding of tokens may add.  credit is a  *)
(* bucket that keeps exact accounts, in units of 1 / (2 Den) bytes, and    *)
(* is given that half byte with every packet.                              *)
(***************************************************************************)
RateIsKept == \A s \in Shapers : credit[s] >= 0

(***************************************************************************)
(* A disc that holds packets and is neither running nor stopped by the     *)
(* device will be woken.                                                   *)
(***************************************************************************)
WakeupPending ==
  (\E c \in Classes : Waiting(c) # <<>>) /\ ~running /\ ~stopped
    => \E s \in Shapers : timer[s] # Expired

(***************************************************************************)
(* No class waits for ever: not behind a class whose packet blocks the     *)
(* root, not for a timer, and not because its tokens come in fractions.    *)
(***************************************************************************)
Departs(c) == running /\ Waiting(c)' # Waiting(c)

EveryClassIsServed ==
  \A c \in Classes : []<>(Waiting(c) = <<>>) \/ []<><<Departs(c)>>_vars

(***************************************************************************)
(* "we have to schedule the waking of root qdisc when enough tokens are    *)
(* available" (htbf-queue-disc.cc): the timer a blocked shaper sets is for *)
(* a later time.                                                           *)
(***************************************************************************)
WakesLater ==
  [][\A s \in Shapers : timer[s] = Expired /\ timer'[s] # Expired => timer'[s] > 0]_vars
=============================================================================
