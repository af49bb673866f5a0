---------------------------- MODULE DrrQueueDisc ----------------------------
(***************************************************************************)
(* The deficit round robin disc of the switch's low priority queues        *)
(* (drr-queue-disc.{h,cc}).  The simulator runs one call at a time; a call *)
(* of DoDequeue is taken apart into the iterations of its loop, each the   *)
(* visit of one class, so that its termination is a question of its own.   *)
(*                                                                         *)
(* A packet is its size.  A child disc gives up its packets in order; one  *)
(* that shapes traffic (HTBF, TBF) may hold them back.                     *)
(***************************************************************************)
EXTENDS Integers, Sequences

CONSTANTS NClasses,     \* GetNQueueDiscClasses ()
          Quantum,      \* m_quantum of each class
          QuantumUnit,  \* what IncreaseDeficit multiplies it with (500)
          Sizes,        \* the sizes of the packets of each class, headers included
          MaxSize,      \* no packet is larger
          MayHold,      \* the classes whose child may hold packets back
          QueueBound,   \* bound: packets in one child
          HalfRange     \* 2^31: a deficit is in -HalfRange .. HalfRange - 1

Classes == 0 .. NClasses - 1

ASSUME DrrAssumption ==
  /\ NClasses \in Nat \ {0}
  /\ Quantum \in [Classes -> Nat \ {0}]
  /\ QuantumUnit \in Nat \ {0}
  /\ MaxSize \in Nat \ {0}
  /\ Sizes \in [Classes -> SUBSET (1 .. MaxSize)]
  /\ MayHold \subseteq Classes
  /\ QueueBound \in Nat
  /\ HalfRange \in Nat \ {0}

VARIABLES
  queues,    \* the packets in the child of each class
  deficit,   \* m_deficit of each class
  last,      \* m_last
  visiting,  \* curIndex while DoDequeue runs, NClasses otherwise
  saved,     \* what the packets of a class fell short of its credits (see CountSent)
  waits,     \* packets the disc has sent while the class waited with one
  lead       \* how far a class is ahead of another while both wait (see ShareFollowsWeights)

counts == <<saved, waits, lead>>
vars   == <<queues, deficit, last, visiting, counts>>

-----------------------------------------------------------------------------
Credit(i) == Quantum[i] * QuantumUnit

WrongSigned(n) == n % (2 * HalfRange)  \* mutant: m_deficit is declared unsigned

Signed(n) == ((n + HalfRange) % (2 * HalfRange)) - HalfRange

Backlogged(i) == queues[i] # <<>>

After(i) == (i + 1) % NClasses

Init ==
  /\ queues = [i \in Classes |-> <<>>]
  /\ deficit = [i \in Classes |-> 0]
  /\ last = 0
  /\ visiting = NClasses
  /\ saved = [i \in Classes |-> 0]
  /\ waits = [i \in Classes |-> 0]
  /\ lead = [i \in Classes |-> [j \in Classes |-> 0]]

(***************************************************************************)
(* What the properties count.  A class whose packet is smaller than its    *)
(* credit keeps the rest: it sends one packet a visit.  It saves at most   *)
(* what its packets have been short of its credits since its deficit was   *)
(* last taken away, and as long as that leaves room for one more credit    *)
(* and packet its counter cannot have overflowed.  Beyond that nothing     *)
(* more is counted for the class.                                          *)
(***************************************************************************)
Short(i, n) == IF n < Credit(i) THEN Credit(i) - n ELSE 0

InRange(i) == saved[i] + Credit(i) + MaxSize <= HalfRange

Measured(i) == Backlogged(i) /\ InRange(i)

(***************************************************************************)
(* Class i has sent a packet of n bytes, or has held one back.             *)
(***************************************************************************)
CountSent(i, n) ==
  /\ saved' = [saved EXCEPT ![i] = IF InRange(i) THEN @ + Short(i, n) ELSE @]
  /\ waits' = [j \in Classes |-> IF j = i \/ ~Measured(j) THEN 0 ELSE waits[j] + 1]
  /\ lead' = [j \in Classes |-> [k \in Classes |->
                IF j = k \/ ~Measured(j)' \/ ~Measured(k)' THEN 0
                ELSE IF j = i THEN lead[j][k] + n * Credit(k)
                ELSE IF k = i THEN lead[j][k] - n * Credit(j)
                ELSE lead[j][k]]]

CountHeld(i) ==
  /\ saved' = [saved EXCEPT ![i] = 0]
  /\ waits' = [waits EXCEPT ![i] = 0]
  /\ lead' = [j \in Classes |-> [k \in Classes |-> 0]]

-----------------------------------------------------------------------------
(***************************************************************************)
(* DoEnqueue of a packet a filter has classified; a packet no filter       *)
(* matches, or its child refuses, is dropped and changes nothing here.     *)
(***************************************************************************)
DoEnqueue(i, n) ==
  /\ visiting = NClasses
  /\ Len(queues[i]) < QueueBound
  /\ queues' = [queues EXCEPT ![i] = Append(@, n)]
  /\ UNCHANGED <<deficit, last, visiting, counts>>

DoDequeue ==
  /\ visiting = NClasses
  /\ \E i \in Classes : Backlogged(i)
  /\ visiting' = After(last)
  /\ UNCHANGED <<queues, deficit, last, counts>>

WrongIncreased(i) == Signed(Credit(i))  \* mutant: what a class still owes is forgotten

Increased(i) == Signed(deficit[i] + Credit(i))

(***************************************************************************)
(* The visit of a class without packets takes its deficit away.            *)
(***************************************************************************)
WrongVisitEmpty(i) ==  \* mutant: a class without packets is credited too
  /\ visiting = i
  /\ ~Backlogged(i)
  /\ deficit' = [deficit EXCEPT ![i] = Increased(i)]
  /\ saved' = [saved EXCEPT ![i] = 0]
  /\ visiting' = After(i)
  /\ UNCHANGED <<queues, last, waits, lead>>

VisitEmpty(i) ==
  /\ visiting = i
  /\ ~Backlogged(i)
  /\ deficit' = [deficit EXCEPT ![i] = 0]
  /\ saved' = [saved EXCEPT ![i] = 0]
  /\ visiting' = After(i)
  /\ UNCHANGED <<queues, last, waits, lead>>

WrongVisitInDebt(i) ==  \* mutant: a class in debt is visited again at once
  /\ visiting = i
  /\ Backlogged(i)
  /\ Increased(i) <= 0
  /\ UNCHANGED <<queues, deficit, last, visiting, counts>>

VisitInDebt(i) ==
  /\ visiting = i
  /\ Backlogged(i)
  /\ Increased(i) <= 0
  /\ deficit' = [deficit EXCEPT ![i] = Increased(i)]
  /\ visiting' = After(i)
  /\ UNCHANGED <<queues, last, counts>>

(***************************************************************************)
(* A class with a positive deficit sends one packet and ends the call.     *)
(***************************************************************************)
WrongServe(i) ==  \* mutant: the next call begins with the same class
  /\ visiting = i
  /\ Backlogged(i)
  /\ Increased(i) > 0
  /\ LET n == Head(queues[i])
     IN /\ queues' = [queues EXCEPT ![i] = Tail(@)]
        /\ deficit' = [deficit EXCEPT ![i] = Signed(Increased(i) - n)]
        /\ CountSent(i, n)
  /\ last' = (i + NClasses - 1) % NClasses
  /\ visiting' = NClasses

Serve(i) ==
  /\ visiting = i
  /\ Backlogged(i)
  /\ Increased(i) > 0
  /\ LET n == Head(queues[i])
     IN /\ queues' = [queues EXCEPT ![i] = Tail(@)]
        /\ deficit' = [deficit EXCEPT ![i] = Signed(Increased(i) - n)]
        /\ CountSent(i, n)
  /\ last' = i
  /\ visiting' = NClasses

(***************************************************************************)
(* Its child holds the packet back: the deficit is lost, the call returns  *)
(* nothing, and the next one starts where this one did.                    *)
(***************************************************************************)
HeldBack(i) ==
  /\ visiting = i
  /\ i \in MayHold
  /\ Backlogged(i)
  /\ Increased(i) > 0
  /\ deficit' = [deficit EXCEPT ![i] = 0]
  /\ visiting' = NClasses
  /\ CountHeld(i)
  /\ UNCHANGED <<queues, last>>

Visit ==
  \E i \in Classes : VisitEmpty(i) \/ VisitInDebt(i) \/ Serve(i) \/ HeldBack(i)

Next ==
  \/ \E i \in Classes : \E n \in Sizes[i] : DoEnqueue(i, n)
  \/ DoDequeue
  \/ Visit

(***************************************************************************)
(* A call that runs goes on; nobody has to call.                           *)
(***************************************************************************)
Spec == Init /\ [][Next]_vars
FairSpec == Spec /\ WF_vars(Visit)

-----------------------------------------------------------------------------
(***************************************************************************)
(* Types.                                                                  *)
(***************************************************************************)
TypeOK ==
  /\ queues \in [Classes -> Seq(1 .. MaxSize)]
  /\ deficit \in [Classes -> -HalfRange .. HalfRange - 1]
  /\ last \in Classes
  /\ visiting \in 0 .. NClasses
  /\ saved \in [Classes -> Nat]
  /\ waits \in [Classes -> Nat]
  /\ lead \in [Classes -> [Classes -> Int]]

(***************************************************************************)
(* No class owes as much as its largest packet or saves more than its      *)
(* packets fell short of its credits, however long a backlog lasts, until  *)
(* that can overflow the counter of DrrFlow: never, if the packets of the  *)
(* class are no smaller than its credit.                                   *)
(***************************************************************************)
DeficitIsBounded ==
  \A i \in Classes : InRange(i) => deficit[i] \in -(MaxSize - 1) .. saved[i]

(***************************************************************************)
(* No starvation before the counter of the class can overflow: while a     *)
(* class waits, each other class sends at most as many packets as the      *)
(* visits it takes to pay for the class's last packet.                     *)
(***************************************************************************)
VisitsToPay(i) == (MaxSize + Credit(i) - 1) \div Credit(i)

WaitIsBounded ==
  \A i \in Classes : waits[i] <= (NClasses - 1) * VisitsToPay(i)

(***************************************************************************)
(* "The available bandwidth is distributed among classes proportionaly to  *)
(* the weights" (drr-queue-disc.h): as long as two classes have packets    *)
(* and no class holds one back (the classes before it are then visited     *)
(* once more than those behind it), neither is ahead by more than a round  *)
(* and a packet of each are worth, plus what both have saved.  Nothing is  *)
(* saved with packets no smaller than the credits, and the weights are     *)
(* followed; with small packets this is how far the shares drift.          *)
(***************************************************************************)
ShareFollowsWeights ==
  \A i, j \in Classes : i # j =>
    lead[i][j] <= Credit(i) * Credit(j) + MaxSize * (Credit(i) + Credit(j))
                    + (Credit(j) * saved[i] + Credit(i) * saved[j])

(***************************************************************************)
(* The loop of DoDequeue ends.                                             *)
(***************************************************************************)
DequeueReturns == visiting # NClasses ~> visiting = NClasses
=============================================================================
