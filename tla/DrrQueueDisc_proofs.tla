------------------------- MODULE DrrQueueDisc_proofs -------------------------
(***************************************************************************)
(* Proofs about DrrQueueDisc, for any number of classes, any quantums and  *)
(* packets, and any bound on the children.                                 *)
(***************************************************************************)
EXTENDS DrrQueueDisc, TLAPS

USE DrrAssumption

(***************************************************************************)
(* The signed reading of a counter stays in its range, and is the number   *)
(* itself while that is in range.                                          *)
(***************************************************************************)
LEMMA SignedRange ==
  ASSUME NEW n \in Int
  PROVE  /\ Signed(n) \in -HalfRange .. HalfRange - 1
         /\ n \in -HalfRange .. HalfRange - 1 => Signed(n) = n
<1>1. HalfRange \in Nat \ {0}
  OBVIOUS
<1>2. DEFINE w == 2 * HalfRange
<1>3. w \in Nat /\ w > 0
  BY <1>1
<1>4. (n + HalfRange) % w \in 0 .. w - 1
  BY <1>1, <1>3
<1>5. n + HalfRange \in 0 .. w - 1 => (n + HalfRange) % w = n + HalfRange
  BY <1>1, <1>3
<1>6. QED
  BY <1>1, <1>4, <1>5 DEF Signed

(***************************************************************************)
(* Every visit of a class with packets raises its deficit.                 *)
(***************************************************************************)
LEMMA CreditIsPositive ==
  ASSUME NEW i \in Classes
  PROVE  Credit(i) \in Nat \ {0}
<1>1. Quantum[i] \in Nat \ {0} /\ QuantumUnit \in Nat \ {0}
  OBVIOUS
<1>2. QED
  BY <1>1 DEF Credit

(***************************************************************************)
(* The scan stays among the classes.                                       *)
(***************************************************************************)
LEMMA ClassesWrap ==
  ASSUME NEW i \in Classes
  PROVE  After(i) \in Classes
<1>1. NClasses \in Nat \ {0} /\ i + 1 \in Nat
  BY DEF Classes
<1>2. (i + 1) % NClasses \in 0 .. NClasses - 1
  BY <1>1
<1>3. QED
  BY <1>2 DEF After, Classes

-----------------------------------------------------------------------------
(***************************************************************************)
(* What the properties count stays in its types.                           *)
(***************************************************************************)
LEMMA CountSentTypes ==
  ASSUME TypeOK, NEW i \in Classes, NEW n \in Int, CountSent(i, n)
  PROVE  /\ saved' \in [Classes -> Nat]
         /\ waits' \in [Classes -> Nat]
         /\ lead' \in [Classes -> [Classes -> Int]]
<1>1. waits' \in [Classes -> Nat]
  <2>1. \A j \in Classes : (IF j = i \/ ~Measured(j) THEN 0 ELSE waits[j] + 1) \in Nat
    <3>1. ASSUME NEW j \in Classes
          PROVE  waits[j] + 1 \in Nat
      <4>1. waits \in [Classes -> Nat]
        BY DEF TypeOK
      <4>2. QED
        BY <4>1
    <3>2. QED
      BY <3>1
  <2>2. QED
    BY <2>1 DEF CountSent
<1>2. lead' \in [Classes -> [Classes -> Int]]
  <2> DEFINE Lead(j, k) == IF j = k \/ ~Measured(j)' \/ ~Measured(k)' THEN 0
                           ELSE IF j = i THEN lead[j][k] + n * Credit(k)
                           ELSE IF k = i THEN lead[j][k] - n * Credit(j)
                           ELSE lead[j][k]
  <2>1. ASSUME NEW j \in Classes, NEW k \in Classes
        PROVE  Lead(j, k) \in Int
    <3>1. lead[j][k] \in Int
      BY DEF TypeOK
    <3>2. n * Credit(k) \in Int /\ n * Credit(j) \in Int
      BY CreditIsPositive
    <3>3. lead[j][k] + n * Credit(k) \in Int /\ lead[j][k] - n * Credit(j) \in Int
      BY <3>1, <3>2
    <3>4. QED
      BY <3>1, <3>3
  <2>2. lead' = [j \in Classes |-> [k \in Classes |-> Lead(j, k)]]
    BY DEF CountSent
  <2> HIDE DEF Lead
  <2>3. QED
    BY <2>1, <2>2
<1>3. saved' \in [Classes -> Nat]
  <2>1. Short(i, n) \in Nat
    BY CreditIsPositive DEF Short
  <2>2. saved \in [Classes -> Nat]
    BY DEF TypeOK
  <2>3. saved[i] + Short(i, n) \in Nat
    <3>1. saved[i] \in Nat
      BY <2>2
    <3> QED BY <2>1, <3>1
  <2> QED BY <2>2, <2>3 DEF CountSent
<1>4. QED
  BY <1>1, <1>2, <1>3

-----------------------------------------------------------------------------
(***************************************************************************)
(* Type correctness: one step per action.                                  *)
(***************************************************************************)
LEMMA DrrTypesInit == Init => TypeOK
<1> SUFFICES ASSUME Init PROVE TypeOK
  OBVIOUS
<1>1. 0 \in Classes /\ NClasses \in 0 .. NClasses
  BY DEF Classes
<1>2. lead \in [Classes -> [Classes -> Int]]
  BY DEF Init
<1>3. 0 \in -HalfRange .. HalfRange - 1
  OBVIOUS
<1>4. queues \in [Classes -> Seq(1 .. MaxSize)]
  BY DEF Init
<1>5. QED
  BY <1>1, <1>2, <1>3, <1>4 DEF Init, TypeOK

(***************************************************************************)
(* Each action of the disc keeps the types.                                *)
(***************************************************************************)
LEMMA DrrTypesStep == TypeOK /\ [Next]_vars => TypeOK'
<1> SUFFICES ASSUME TypeOK, [Next]_vars PROVE TypeOK'
  OBVIOUS
<1>0. \A i \in Classes : i \in 0 .. NClasses /\ NClasses \in 0 .. NClasses
  BY DEF Classes
<1>1. ASSUME NEW i \in Classes, NEW n \in Sizes[i], DoEnqueue(i, n)
      PROVE  TypeOK'
  <2>1. n \in 1 .. MaxSize
    OBVIOUS
  <2>2. queues' \in [Classes -> Seq(1 .. MaxSize)]
    BY <1>1, <2>1 DEF DoEnqueue, TypeOK
  <2>3. QED
    BY <1>1, <2>2 DEF DoEnqueue, TypeOK, counts
<1>2. CASE DoDequeue
  <2>1. visiting' \in 0 .. NClasses
    BY <1>0, <1>2, ClassesWrap DEF DoDequeue, TypeOK
  <2>2. QED
    BY <1>2, <2>1 DEF DoDequeue, TypeOK, counts
<1>3. ASSUME NEW i \in Classes, VisitEmpty(i)
      PROVE  TypeOK'
  <2>1. visiting' \in 0 .. NClasses
    BY <1>0, <1>3, ClassesWrap DEF VisitEmpty
  <2>2. deficit' \in [Classes -> -HalfRange .. HalfRange - 1]
    BY <1>3 DEF VisitEmpty, TypeOK
  <2>3. QED
    BY <1>3, <2>1, <2>2 DEF VisitEmpty, TypeOK
<1>4. ASSUME NEW i \in Classes
      PROVE  Increased(i) \in -HalfRange .. HalfRange - 1
  <2>1. deficit[i] + Credit(i) \in Int
    BY CreditIsPositive DEF TypeOK
  <2>2. QED
    BY <2>1, SignedRange DEF Increased
<1>5. ASSUME NEW i \in Classes, VisitInDebt(i)
      PROVE  TypeOK'
  <2>1. visiting' \in 0 .. NClasses
    BY <1>0, <1>5, ClassesWrap DEF VisitInDebt
  <2>2. deficit' \in [Classes -> -HalfRange .. HalfRange - 1]
    BY <1>4, <1>5 DEF VisitInDebt, TypeOK
  <2>3. QED
    BY <1>5, <2>1, <2>2 DEF VisitInDebt, TypeOK, counts
<1>6. ASSUME NEW i \in Classes, Serve(i)
      PROVE  TypeOK'
  <2> DEFINE n == Head(queues[i])
  <2>1. n \in 1 .. MaxSize
    <3>1. queues[i] \in Seq(1 .. MaxSize)
      BY DEF TypeOK
    <3>2. queues[i] # <<>>
      BY <1>6 DEF Serve, Backlogged
    <3>3. QED
      BY <3>1, <3>2
  <2>2. Signed(Increased(i) - n) \in -HalfRange .. HalfRange - 1
    <3>1. Increased(i) - n \in Int
      BY <1>4, <2>1
    <3>2. QED
      BY <3>1, SignedRange
  <2>3. deficit' \in [Classes -> -HalfRange .. HalfRange - 1]
    BY <1>6, <2>2 DEF Serve, TypeOK
  <2>4. queues' \in [Classes -> Seq(1 .. MaxSize)]
    <3>1. Tail(queues[i]) \in Seq(1 .. MaxSize)
      BY <1>6 DEF Serve, Backlogged, TypeOK
    <3>2. QED
      BY <1>6, <3>1 DEF Serve, TypeOK
  <2>5. CountSent(i, n) /\ n \in Int
    BY <1>6, <2>1 DEF Serve
  <2>6. saved' \in [Classes -> Nat] /\ waits' \in [Classes -> Nat] /\ lead' \in [Classes -> [Classes -> Int]]
    BY <2>5, CountSentTypes
  <2>7. last' \in Classes /\ visiting' \in 0 .. NClasses
    BY <1>0, <1>6 DEF Serve
  <2>8. QED
    BY <2>3, <2>4, <2>6, <2>7 DEF TypeOK
<1>7. ASSUME NEW i \in Classes, HeldBack(i)
      PROVE  TypeOK'
  <2>1. visiting' \in 0 .. NClasses
    BY <1>0, <1>7 DEF HeldBack
  <2>2. deficit' \in [Classes -> -HalfRange .. HalfRange - 1]
    BY <1>7 DEF HeldBack, TypeOK
  <2>3. saved' \in [Classes -> Nat] /\ waits' \in [Classes -> Nat] /\ lead' \in [Classes -> [Classes -> Int]]
    <3>1. saved \in [Classes -> Nat] /\ waits \in [Classes -> Nat]
      BY DEF TypeOK
    <3> QED BY <1>7, <3>1 DEF HeldBack, CountHeld
  <2>4. QED
    BY <1>7, <2>1, <2>2, <2>3 DEF HeldBack, TypeOK
<1>8. CASE UNCHANGED vars
  BY <1>8 DEF vars, counts, TypeOK
<1>9. QED
  BY <1>1, <1>2, <1>3, <1>5, <1>6, <1>7, <1>8 DEF Next, Visit

(***************************************************************************)
(* The disc keeps its types, and its deficits the range of an int32_t.     *)
(***************************************************************************)
THEOREM DrrTypes == Spec => []TypeOK
<1>1. QED
  BY DrrTypesInit, DrrTypesStep, PTL DEF Spec

-----------------------------------------------------------------------------
(***************************************************************************)
(* What a visit does to the deficit and the savings of its class, in the   *)
(* range of the counter.                                                   *)
(***************************************************************************)
DeficitInv == TypeOK /\ DeficitIsBounded

LEMMA Deficits ==
  ASSUME DeficitInv, NEW i \in Classes, InRange(i)
  PROVE  /\ Credit(i) \in Nat \ {0} /\ MaxSize \in Nat \ {0} /\ saved[i] \in Nat
         /\ deficit[i] \in Int /\ -(MaxSize - 1) <= deficit[i] /\ deficit[i] <= saved[i]
         /\ Increased(i) = deficit[i] + Credit(i)
         /\ VisitInDebt(i) => deficit' = [deficit EXCEPT ![i] = @ + Credit(i)]
         /\ Serve(i) => /\ Head(queues[i]) \in 1 .. MaxSize
                        /\ deficit' = [deficit EXCEPT ![i] = (@ + Credit(i)) - Head(queues[i])]
                        /\ saved' = [saved EXCEPT ![i] = @ + Short(i, Head(queues[i]))]
<1>1. /\ Credit(i) \in Nat \ {0} /\ MaxSize \in Nat \ {0} /\ saved[i] \in Nat
      /\ saved[i] + Credit(i) + MaxSize <= HalfRange
  BY CreditIsPositive DEF DeficitInv, TypeOK, InRange
<1>2. deficit[i] \in Int /\ -(MaxSize - 1) <= deficit[i] /\ deficit[i] <= saved[i]
  <2>1. deficit[i] \in -(MaxSize - 1) .. saved[i]
    BY DEF DeficitInv, DeficitIsBounded
  <2> QED BY <1>1, <2>1
<1>3. Increased(i) = deficit[i] + Credit(i)
  <2>1. deficit[i] + Credit(i) \in -HalfRange .. HalfRange - 1
    BY <1>1, <1>2
  <2> QED BY <2>1, SignedRange DEF Increased
<1>4. VisitInDebt(i) => deficit' = [deficit EXCEPT ![i] = @ + Credit(i)]
  BY <1>3 DEF VisitInDebt
<1>5. ASSUME Serve(i)
      PROVE  /\ Head(queues[i]) \in 1 .. MaxSize
             /\ deficit' = [deficit EXCEPT ![i] = (@ + Credit(i)) - Head(queues[i])]
             /\ saved' = [saved EXCEPT ![i] = @ + Short(i, Head(queues[i]))]
  <2>1. Head(queues[i]) \in 1 .. MaxSize
    <3>1. queues[i] \in Seq(1 .. MaxSize) /\ queues[i] # <<>>
      BY <1>5 DEF DeficitInv, TypeOK, Serve, Backlogged
    <3> QED BY <3>1
  <2>2. PICK n \in 1 .. MaxSize : n = Head(queues[i])
    BY <2>1
  <2>3. Increased(i) > 0 /\ deficit' = [deficit EXCEPT ![i] = Signed(Increased(i) - n)]
    BY <1>5, <2>2 DEF Serve
  <2>4. Increased(i) - n \in -HalfRange .. HalfRange - 1
    BY <1>1, <1>2, <1>3, <2>3
  <2>5. Increased(i) - n \in Int /\ Signed(Increased(i) - n) = Increased(i) - n
    BY <1>1, <1>2, <1>3, <2>4, SignedRange
  <2>6. deficit' = [deficit EXCEPT ![i] = (deficit[i] + Credit(i)) - n]
    BY <1>3, <2>3, <2>5
  <2>7. saved' = [saved EXCEPT ![i] = @ + Short(i, Head(queues[i]))]
    BY <1>5 DEF Serve, CountSent
  <2> QED BY <2>1, <2>2, <2>6, <2>7
<1> QED BY <1>1, <1>2, <1>3, <1>4, <1>5

(***************************************************************************)
(* A class leaves the range of its counter when it sends, and only the     *)
(* loss of its deficit brings it back.                                     *)
(***************************************************************************)
LEMMA RangeIsLeft ==
  ASSUME TypeOK, NEW i \in Classes, Serve(i), NEW j \in Classes
  PROVE  /\ InRange(j)' => InRange(j)
         /\ j # i => saved'[j] = saved[j] /\ InRange(j)' = InRange(j)
<1>1. saved \in [Classes -> Nat]
  BY DEF TypeOK
<1>2. saved' = [saved EXCEPT ![i] = IF InRange(i) THEN @ + Short(i, Head(queues[i])) ELSE @]
  BY DEF Serve, CountSent
<1>3. j # i => saved'[j] = saved[j]
  BY <1>1, <1>2
<1>4. ~InRange(i) => saved' = saved
  BY <1>1, <1>2
<1>5. saved'[j] = saved[j] => InRange(j)' = InRange(j)
  BY DEF InRange, Credit
<1> QED BY <1>3, <1>4, <1>5

(***************************************************************************)
(* The four actions that change a deficit keep it in its bounds.           *)
(***************************************************************************)
LEMMA DeficitStep ==
  ASSUME DeficitInv, [Next]_vars
  PROVE  DeficitIsBounded'
<1> SUFFICES ASSUME NEW j \in Classes, InRange(j)'
             PROVE  deficit'[j] \in -(MaxSize - 1) .. saved'[j]
  BY DEF DeficitIsBounded
<1>1. deficit \in [Classes -> -HalfRange .. HalfRange - 1] /\ saved \in [Classes -> Nat] /\ TypeOK
  BY DEF DeficitInv, TypeOK
<1>2. ASSUME deficit'[j] = deficit[j], saved'[j] = saved[j]
      PROVE  deficit'[j] \in -(MaxSize - 1) .. saved'[j]
  <2>1. InRange(j)
    BY <1>2 DEF InRange, Credit
  <2> QED BY <1>2, <2>1 DEF DeficitInv, DeficitIsBounded
<1>3. ASSUME NEW i \in Classes, VisitEmpty(i) \/ HeldBack(i)
      PROVE  deficit'[j] \in -(MaxSize - 1) .. saved'[j]
  <2>1. deficit' = [deficit EXCEPT ![i] = 0] /\ saved' = [saved EXCEPT ![i] = 0]
    BY <1>3 DEF VisitEmpty, HeldBack, CountHeld
  <2>2. CASE j = i
    BY <1>1, <2>1, <2>2
  <2>3. CASE j # i
    BY <1>1, <1>2, <2>1, <2>3
  <2> QED BY <2>2, <2>3
<1>4. ASSUME NEW i \in Classes, VisitInDebt(i)
      PROVE  deficit'[j] \in -(MaxSize - 1) .. saved'[j]
  <2>1. saved' = saved /\ Increased(i) <= 0 /\ deficit' = [deficit EXCEPT ![i] = Increased(i)]
    BY <1>4 DEF VisitInDebt, counts
  <2>2. CASE j = i
    <3>1. InRange(i)
      BY <2>1, <2>2 DEF InRange, Credit
    <3>2. /\ Credit(i) \in Nat /\ saved[i] \in Nat /\ Increased(i) = deficit[i] + Credit(i)
          /\ deficit[i] \in Int /\ -(MaxSize - 1) <= deficit[i]
      BY <3>1, Deficits
    <3>3. deficit'[j] = Increased(i) /\ saved'[j] = saved[i]
      BY <1>1, <2>1, <2>2
    <3> QED BY <2>1, <3>2, <3>3
  <2>3. CASE j # i
    BY <1>1, <1>2, <2>1, <2>3
  <2> QED BY <2>2, <2>3
<1>5. ASSUME NEW i \in Classes, Serve(i)
      PROVE  deficit'[j] \in -(MaxSize - 1) .. saved'[j]
  <2>1. CASE j = i
    <3>1. InRange(i)
      BY <1>1, <1>5, <2>1, RangeIsLeft
    <3>2. PICK n \in 1 .. MaxSize : n = Head(queues[i])
      BY <1>5, <3>1, Deficits
    <3>3. /\ Credit(i) \in Nat /\ saved[i] \in Nat /\ deficit[i] \in Int /\ deficit[i] <= saved[i]
          /\ Increased(i) = deficit[i] + Credit(i)
          /\ deficit' = [deficit EXCEPT ![i] = (@ + Credit(i)) - n]
          /\ saved' = [saved EXCEPT ![i] = @ + Short(i, n)]
      BY <1>5, <3>1, <3>2, Deficits
    <3>4. deficit'[j] = (deficit[i] + Credit(i)) - n /\ saved'[j] = saved[i] + Short(i, n)
      BY <1>1, <2>1, <3>3
    <3>5. deficit[i] + Credit(i) > 0
      BY <1>5, <3>3 DEF Serve
    <3>6. Short(i, n) \in Nat /\ Credit(i) - n <= Short(i, n)
      BY <3>2, <3>3 DEF Short
    <3> QED BY <3>2, <3>3, <3>4, <3>5, <3>6
  <2>2. CASE j # i
    <3>1. saved'[j] = saved[j]
      BY <1>1, <1>5, <2>2, RangeIsLeft
    <3>2. deficit'[j] = deficit[j]
      BY <1>1, <1>5, <2>2 DEF Serve
    <3> QED BY <1>2, <3>1, <3>2
  <2> QED BY <2>1, <2>2
<1>6. ASSUME UNCHANGED <<deficit, saved>>
      PROVE  deficit'[j] \in -(MaxSize - 1) .. saved'[j]
  BY <1>2, <1>6
<1>7. \A i \in Classes : \A n \in Sizes[i] : DoEnqueue(i, n) => UNCHANGED <<deficit, saved>>
  BY DEF DoEnqueue, counts
<1>8. DoDequeue \/ UNCHANGED vars => UNCHANGED <<deficit, saved>>
  BY DEF DoDequeue, vars, counts
<1> QED BY <1>3, <1>4, <1>5, <1>6, <1>7, <1>8, Zenon DEF Next, Visit

LEMMA InitDeficitInv == Init => DeficitInv
<1> SUFFICES ASSUME Init PROVE DeficitInv
  OBVIOUS
<1>1. 0 \in -(MaxSize - 1) .. 0
  OBVIOUS
<1>2. \A i \in Classes : deficit[i] = 0 /\ saved[i] = 0
  BY DEF Init
<1> QED BY <1>1, <1>2, DrrTypesInit DEF DeficitInv, DeficitIsBounded

LEMMA AlwaysDeficitInv == Spec => []DeficitInv
<1>1. DeficitInv /\ [Next]_vars => DeficitInv'
  BY DrrTypesStep, DeficitStep DEF DeficitInv
<1> QED BY <1>1, InitDeficitInv, PTL DEF Spec

(***************************************************************************)
(* For any packets, quantums and number of classes, no deficit leaves its  *)
(* bounds before the packets of its class have fallen short of its credits *)
(* by as much as the counter takes; one whose packets are no smaller than  *)
(* its credit never does.                                                  *)
(***************************************************************************)
THEOREM DrrDeficit == Spec => []DeficitIsBounded
<1>1. DeficitInv => DeficitIsBounded
  BY DEF DeficitInv
<1> QED BY <1>1, AlwaysDeficitInv, PTL

-----------------------------------------------------------------------------
(***************************************************************************)
(* The scan.  StepsTo(p, j) classes are visited from class p on before the *)
(* scan is at j.                                                           *)
(***************************************************************************)
Scan == IF visiting = NClasses THEN After(last) ELSE visiting

StepsTo(p, j) == IF p <= j THEN j - p ELSE j - p + NClasses

LEMMA ScanMoves ==
  ASSUME NEW i \in Classes
  PROVE  /\ \A j \in Classes : StepsTo(i, j) \in 0 .. NClasses - 1
         /\ StepsTo(i, i) = 0
         /\ StepsTo(After(i), i) = NClasses - 1
         /\ \A j \in Classes : j # i => StepsTo(i, j) > 0 /\ StepsTo(After(i), j) = StepsTo(i, j) - 1
         /\ After(i) \in Classes
<1>1. NClasses \in Nat /\ i \in Nat /\ i <= NClasses - 1 /\ 0 \in Nat
  BY DEF Classes
<1>2. After(i) = IF i = NClasses - 1 THEN 0 ELSE i + 1
  <2>1. CASE i = NClasses - 1
    BY <1>1, <2>1 DEF After
  <2>2. CASE i # NClasses - 1
    <3>1. i + 1 \in 0 .. NClasses - 1 /\ NClasses > 0
      BY <1>1, <2>2
    <3> QED BY <2>2, <3>1 DEF After
  <2> QED BY <2>1, <2>2
<1>3. /\ \A j \in Classes : StepsTo(i, j) \in 0 .. NClasses - 1
      /\ StepsTo(i, i) = 0
      /\ StepsTo(After(i), i) = NClasses - 1
      /\ \A j \in Classes : j # i => StepsTo(i, j) > 0 /\ StepsTo(After(i), j) = StepsTo(i, j) - 1
  BY <1>1, <1>2 DEF StepsTo, Classes
<1> QED BY <1>3, ClassesWrap

LEMMA ScanIsAClass ==
  ASSUME TypeOK
  PROVE  Scan \in Classes /\ After(last) \in Classes
<1>1. last \in Classes /\ (visiting = NClasses \/ visiting \in Classes)
  BY DEF TypeOK, Classes
<1> QED BY <1>1, ClassesWrap DEF Scan

(***************************************************************************)
(* The scan is at i when i is visited, and behind it afterwards.           *)
(***************************************************************************)
LEMMA VisitMovesScan ==
  ASSUME NEW i \in Classes, visiting = i, visiting' = After(i) \/ (visiting' = NClasses /\ last' = i)
  PROVE  Scan = i /\ Scan' = After(i)
<1>1. i # NClasses /\ After(i) # NClasses
  <2>1. NClasses \in Nat /\ NClasses \notin 0 .. NClasses - 1
    OBVIOUS
  <2>2. After(i) \in Classes
    BY ClassesWrap
  <2> QED BY <2>1, <2>2 DEF Classes
<1> QED BY <1>1 DEF Scan

-----------------------------------------------------------------------------
(***************************************************************************)
(* Whole credits in a number of bytes.                                     *)
(***************************************************************************)
LEMMA QuotientIs ==
  ASSUME NEW c \in Nat \ {0}, NEW n \in Nat, NEW q \in Int, NEW r \in 0 .. c - 1, n = q * c + r
  PROVE  n \div c = q
<1> DEFINE s == n \div c
           t == n % c
<1>1. s \in Int /\ t \in 0 .. c - 1 /\ n = s * c + t
  OBVIOUS
<1> HIDE DEF s, t
<1>2. (s - q) * c = r - t
  BY <1>1
<1>3. CASE s - q >= 1
  <2>1. (s - q) * c >= c
    BY <1>1, <1>3
  <2> QED BY <1>1, <1>2, <2>1
<1>4. CASE s - q <= -1
  <2>1. (s - q) * c <= -c
    BY <1>1, <1>4
  <2> QED BY <1>1, <1>2, <2>1
<1>5. s = q
  BY <1>1, <1>3, <1>4
<1> QED BY <1>5 DEF s

LEMMA Quotients ==
  ASSUME NEW c \in Nat \ {0}, NEW n \in Nat
  PROVE  /\ n \div c \in Nat
         /\ (n + c) \div c = (n \div c) + 1
         /\ n >= c => (n - c) \div c = (n \div c) - 1
         /\ \A m \in Nat : m <= n => (m \div c) <= (n \div c)
<1> DEFINE q == n \div c
           r == n % c
<1>1. q \in Nat /\ r \in 0 .. c - 1 /\ n = q * c + r
  OBVIOUS
<1> HIDE DEF q, r
<1>2. (n + c) \div c = q + 1
  <2>1. n + c = (q + 1) * c + r
    BY <1>1
  <2>2. n + c \in Nat /\ q + 1 \in Int
    BY <1>1
  <2> QED BY <1>1, <2>1, <2>2, QuotientIs
<1>3. ASSUME n >= c
      PROVE  (n - c) \div c = q - 1
  <2>1. n - c = (q - 1) * c + r
    BY <1>1
  <2>2. n - c \in Nat /\ q - 1 \in Int
    BY <1>1, <1>3
  <2> QED BY <1>1, <2>1, <2>2, QuotientIs
<1>4. ASSUME NEW m \in Nat, m <= n
      PROVE  (m \div c) <= q
  <2> DEFINE s == m \div c
             t == m % c
  <2>1. s \in Nat /\ t \in 0 .. c - 1 /\ m = s * c + t
    OBVIOUS
  <2> HIDE DEF s, t
  <2>2. (s - q) * c < c
    <3>1. (s - q) * c = (m - t) - (n - r)
      BY <1>1, <2>1
    <3> QED BY <1>1, <1>4, <2>1, <3>1
  <2>3. ~(s - q >= 1)
    <3>1. s - q >= 1 => (s - q) * c >= c
      BY <1>1, <2>1
    <3> QED BY <2>2, <3>1, <1>1, <2>1
  <2>4. s <= q
    BY <1>1, <2>1, <2>3
  <2> QED BY <2>4 DEF s
<1> QED BY <1>1, <1>2, <1>3, <1>4 DEF q

-----------------------------------------------------------------------------
(***************************************************************************)
(* No starvation.  A class that owes its credit for v more visits waits    *)
(* for v rounds of the other classes and for those the scan meets before   *)
(* it.  A child that holds its packet back sets the scan back to where the *)
(* call began, so the bound is kept for both places.                       *)
(***************************************************************************)
Owes(j) == IF InRange(j) /\ deficit[j] <= 0 THEN (-deficit[j]) \div Credit(j) ELSE 0

Paying(j) == (NClasses - 1) * Owes(j)

WaitsFrom(p, j) ==
  waits[j] + StepsTo(p, j) + Paying(j) <= (NClasses - 1) * VisitsToPay(j)

WaitInv ==
  \A j \in Classes : /\ ~Measured(j) => waits[j] = 0
                     /\ WaitsFrom(Scan, j) /\ WaitsFrom(After(last), j)

LEMMA OwesTypes ==
  ASSUME DeficitInv, NEW j \in Classes
  PROVE  Owes(j) \in Nat /\ VisitsToPay(j) \in Nat /\ Owes(j) + 1 <= VisitsToPay(j)
<1>1. PICK c \in Nat \ {0} : c = Credit(j)
  BY CreditIsPositive
<1>2. PICK m \in Nat : m = MaxSize - 1
  BY CreditIsPositive
<1>3. VisitsToPay(j) = (m + c) \div c
  <2>1. MaxSize + Credit(j) - 1 = m + c
    BY <1>1, <1>2, CreditIsPositive
  <2> QED BY <1>1, <2>1 DEF VisitsToPay
<1>4. m \div c \in Nat /\ (m + c) \div c = (m \div c) + 1
  BY Quotients
<1>5. Owes(j) \in Nat /\ Owes(j) <= (m \div c)
  <2>1. CASE InRange(j) /\ deficit[j] <= 0
    <3>1. PICK d \in Nat : d = -deficit[j] /\ d <= m
      BY <1>2, <2>1, Deficits
    <3>2. d \div c \in Nat /\ (d \div c) <= (m \div c)
      BY Quotients, <3>1
    <3>3. Owes(j) = d \div c
      BY <1>1, <2>1, <3>1 DEF Owes
    <3> QED BY <3>2, <3>3
  <2>2. CASE ~(InRange(j) /\ deficit[j] <= 0)
    BY <1>4, <2>2 DEF Owes
  <2> QED BY <2>1, <2>2
<1> QED BY <1>3, <1>4, <1>5

(***************************************************************************)
(* The visit of a class in debt takes one of its visits off.               *)
(***************************************************************************)
LEMMA OwesLess ==
  ASSUME DeficitInv, NEW i \in Classes, VisitInDebt(i), InRange(i)
  PROVE  Owes(i) \in Nat /\ Owes(i) > 0 /\ Owes(i)' = Owes(i) - 1
<1>1. /\ Credit(i) \in Nat \ {0} /\ deficit[i] \in Int /\ Increased(i) = deficit[i] + Credit(i)
      /\ deficit' = [deficit EXCEPT ![i] = @ + Credit(i)]
  BY Deficits
<1>2. PICK c \in Nat \ {0} : c = Credit(i)
  BY <1>1
<1>3. deficit[i] + c <= 0
  BY <1>1, <1>2 DEF VisitInDebt
<1>4. PICK n \in Nat : n = -deficit[i] /\ n >= c
  BY <1>1, <1>3
<1>5. deficit'[i] = deficit[i] + c
  BY <1>1, <1>2 DEF DeficitInv, TypeOK
<1>6. -deficit'[i] = n - c /\ n - c \in Nat
  BY <1>1, <1>4, <1>5
<1>7. Owes(i) = n \div c /\ Owes(i)' = (n - c) \div c
  <2>1. InRange(i) /\ InRange(i)' /\ deficit[i] <= 0 /\ deficit'[i] <= 0
    BY <1>1, <1>3, <1>5, <1>2 DEF VisitInDebt, counts, InRange, Credit
  <2>2. Credit(i)' = Credit(i)
    BY DEF Credit
  <2> QED BY <1>2, <1>4, <1>6, <2>1, <2>2 DEF Owes
<1>8. n \div c \in Nat /\ (n - c) \div c = (n \div c) - 1 /\ (n - c) \div c \in Nat
  BY <1>4, <1>6, Quotients
<1> QED BY <1>7, <1>8

LEMMA PayingTypes ==
  ASSUME DeficitInv, NEW j \in Classes
  PROVE  /\ Paying(j) \in Nat
         /\ (NClasses - 1) * VisitsToPay(j) \in Nat
         /\ Paying(j) + (NClasses - 1) <= (NClasses - 1) * VisitsToPay(j)
<1>1. NClasses - 1 \in Nat
  BY DrrAssumption
<1>2. \A a, b, n \in Nat : a + 1 <= b => n * a \in Nat /\ n * b \in Nat /\ n * a + n <= n * b
  OBVIOUS
<1> QED BY <1>1, <1>2, OwesTypes DEF Paying

PayingOK ==
  \A j \in Classes : /\ Paying(j) \in Nat
                     /\ (NClasses - 1) * VisitsToPay(j) \in Nat
                     /\ Paying(j) + (NClasses - 1) <= (NClasses - 1) * VisitsToPay(j)

LEMMA PayingHolds == DeficitInv => PayingOK
BY PayingTypes DEF PayingOK

(***************************************************************************)
(* A class that has just sent, or has nothing to send, may wait for every  *)
(* visit it could need.                                                    *)
(***************************************************************************)
FreshOK == \A j \in Classes : waits[j] = 0 => WaitsFrom(Scan, j) /\ WaitsFrom(After(last), j)

LEMMA FreshHolds == DeficitInv => FreshOK
<1> SUFFICES ASSUME DeficitInv, NEW j \in Classes, waits[j] = 0
             PROVE  WaitsFrom(Scan, j) /\ WaitsFrom(After(last), j)
  BY DEF FreshOK
<1>1. /\ Paying(j) \in Nat /\ (NClasses - 1) * VisitsToPay(j) \in Nat
      /\ Paying(j) + (NClasses - 1) <= (NClasses - 1) * VisitsToPay(j)
  BY PayingTypes
<1>2. Scan \in Classes /\ After(last) \in Classes
  BY ScanIsAClass DEF DeficitInv
<1>3. StepsTo(Scan, j) \in 0 .. NClasses - 1 /\ StepsTo(After(last), j) \in 0 .. NClasses - 1
  BY <1>2, ScanMoves
<1>4. PICK b \in Nat : b = (NClasses - 1) * VisitsToPay(j)
  BY <1>1
<1> QED BY <1>1, <1>3, <1>4 DEF WaitsFrom

(***************************************************************************)
(* The visit of a class in debt pays for one round of the others.          *)
(***************************************************************************)
LEMMA VisitPays ==
  ASSUME DeficitInv, NEW i \in Classes, VisitInDebt(i), InRange(i)
  PROVE  Paying(i)' = Paying(i) - (NClasses - 1)
<1>1. Owes(i) \in Int /\ Owes(i)' = Owes(i) - 1
  BY OwesLess
<1>2. \A a, n \in Int : n * (a - 1) = n * a - n
  OBVIOUS
<1>3. NClasses - 1 \in Int
  BY DrrAssumption
<1> QED BY <1>1, <1>2, <1>3 DEF Paying

(***************************************************************************)
(* A class the step does not visit.                                        *)
(***************************************************************************)
LEMMA PassedBy ==
  ASSUME DeficitInv, WaitInv, NEW i \in Classes, NEW j \in Classes, j # i,
         visiting = i, Scan' = After(i), deficit'[j] = deficit[j], saved'[j] = saved[j]
  PROVE  /\ waits'[j] = waits[j] /\ last' = last => WaitsFrom(Scan, j)' /\ WaitsFrom(After(last), j)'
         /\ waits'[j] = waits[j] + 1 /\ last' = i => WaitsFrom(Scan, j)' /\ WaitsFrom(After(last), j)'
<1>1. Paying(j)' = Paying(j)
  BY DEF Paying, Owes, InRange, Credit
<1>2. /\ StepsTo(i, j) \in 0 .. NClasses - 1 /\ StepsTo(After(i), j) = StepsTo(i, j) - 1
  BY ScanMoves
<1>3. Scan = i
  <2>1. NClasses \in Nat /\ i # NClasses
    BY DEF Classes
  <2> QED BY <2>1 DEF Scan
<1>4. /\ Paying(j) \in Nat /\ waits[j] \in Nat
      /\ (NClasses - 1) * VisitsToPay(j) \in Nat
  BY PayingTypes DEF DeficitInv, TypeOK
<1>5. PICK b \in Nat : b = (NClasses - 1) * VisitsToPay(j)
  BY <1>4
<1>6. /\ waits[j] + StepsTo(i, j) + Paying(j) <= b
      /\ waits[j] + StepsTo(After(last), j) + Paying(j) <= b
  BY <1>3, <1>5 DEF WaitInv, WaitsFrom
<1>7. \A p : waits'[j] + StepsTo(p, j) + Paying(j) <= b
               => waits'[j] + StepsTo(p, j) + Paying(j)' <= (NClasses - 1) * VisitsToPay(j)
  BY <1>1, <1>5
<1>8. ASSUME waits'[j] = waits[j], last' = last
      PROVE  WaitsFrom(Scan, j)' /\ WaitsFrom(After(last), j)'
  <2>1. waits'[j] + StepsTo(After(i), j) + Paying(j) <= b
    BY <1>2, <1>4, <1>6, <1>8
  <2>2. After(last)' = After(last)
    BY <1>8 DEF After
  <2>3. waits'[j] + StepsTo(After(last), j) + Paying(j) <= b
    BY <1>6, <1>8
  <2> QED BY <1>7, <2>1, <2>2, <2>3 DEF WaitsFrom, VisitsToPay, Credit
<1>9. ASSUME waits'[j] = waits[j] + 1, last' = i
      PROVE  WaitsFrom(Scan, j)' /\ WaitsFrom(After(last), j)'
  <2>1. waits'[j] + StepsTo(After(i), j) + Paying(j) <= b
    BY <1>2, <1>4, <1>6, <1>9
  <2>2. After(last)' = After(i)
    BY <1>9 DEF After
  <2> QED BY <1>7, <2>1, <2>2 DEF WaitsFrom, VisitsToPay, Credit
<1> QED BY <1>8, <1>9

LEMMA AppendFills ==
  ASSUME NEW S, NEW s \in Seq(S), NEW n \in S
  PROVE  Append(s, n) # <<>>
<1>1. Len(Append(s, n)) = Len(s) + 1 /\ Len(s) \in Nat
  OBVIOUS
<1>2. Len(<<>>) = 0
  OBVIOUS
<1> QED BY <1>1, <1>2

LEMMA WaitStep ==
  DeficitInv /\ DeficitInv' /\ WaitInv /\ [Next]_vars => WaitInv'
<1> SUFFICES ASSUME DeficitInv, DeficitInv', WaitInv, [Next]_vars, NEW j \in Classes
             PROVE  /\ ~Measured(j)' => waits'[j] = 0
                    /\ WaitsFrom(Scan, j)' /\ WaitsFrom(After(last), j)'
  BY DEF WaitInv
<1>1. FreshOK'
  BY FreshHolds, PTL
<1>2. waits'[j] = 0 => WaitsFrom(Scan, j)' /\ WaitsFrom(After(last), j)'
  BY <1>1 DEF FreshOK
<1>3. /\ queues \in [Classes -> Seq(1 .. MaxSize)]
      /\ deficit \in [Classes -> -HalfRange .. HalfRange - 1]
      /\ waits \in [Classes -> Nat] /\ saved \in [Classes -> Nat]
  BY DEF DeficitInv, TypeOK
<1>4. /\ ~Measured(j) => waits[j] = 0
      /\ WaitsFrom(Scan, j) /\ WaitsFrom(After(last), j)
  BY DEF WaitInv
<1>5. ASSUME waits'[j] = waits[j], deficit'[j] = deficit[j], saved'[j] = saved[j],
             Scan' = Scan \/ Scan' = After(last), last' = last
      PROVE  WaitsFrom(Scan, j)' /\ WaitsFrom(After(last), j)'
  <2>1. After(last)' = After(last)
    BY <1>5 DEF After
  <2>2. \A p : WaitsFrom(p, j) => waits'[j] + StepsTo(p, j) + Paying(j)' <= (NClasses - 1) * VisitsToPay(j)
    BY <1>5 DEF WaitsFrom, Paying, Owes, InRange, Credit
  <2>3. /\ waits'[j] + StepsTo(Scan', j) + Paying(j)' <= (NClasses - 1) * VisitsToPay(j)
        /\ waits'[j] + StepsTo(After(last)', j) + Paying(j)' <= (NClasses - 1) * VisitsToPay(j)
    BY <1>4, <1>5, <2>1, <2>2
  <2> QED BY <2>3 DEF WaitsFrom, VisitsToPay, Credit
<1>6. ASSUME NEW i \in Classes, NEW n \in Sizes[i], DoEnqueue(i, n)
      PROVE  /\ ~Measured(j)' => waits'[j] = 0
             /\ WaitsFrom(Scan, j)' /\ WaitsFrom(After(last), j)'
  <2>1. /\ queues' = [queues EXCEPT ![i] = Append(@, n)] /\ n \in 1 .. MaxSize
        /\ deficit' = deficit /\ waits' = waits /\ saved' = saved /\ last' = last /\ visiting' = visiting
    BY <1>6 DEF DoEnqueue, counts
  <2>2. Backlogged(j) => Backlogged(j)'
    <3>1. Append(queues[i], n) # <<>>
      <4>1. queues[i] \in Seq(1 .. MaxSize) /\ n \in 1 .. MaxSize
        BY <1>3, <2>1
      <4> QED BY <4>1, AppendFills
    <3>2. queues'[j] = queues[j] \/ queues'[j] = Append(queues[i], n)
      BY <1>3, <2>1
    <3> QED BY <3>1, <3>2 DEF Backlogged
  <2>3. Scan' = Scan
    BY <2>1 DEF Scan, After
  <2>4. ~Measured(j)' => ~Measured(j)
    BY <2>1, <2>2 DEF Measured, InRange, Credit
  <2> QED BY <1>4, <1>5, <2>1, <2>3, <2>4
<1>7. CASE DoDequeue
  <2>1. /\ queues' = queues /\ deficit' = deficit /\ waits' = waits /\ saved' = saved /\ last' = last
        /\ visiting = NClasses /\ visiting' = After(last)
    BY <1>7 DEF DoDequeue, counts
  <2>2. After(last) \in Classes /\ NClasses \in Nat
    BY ScanIsAClass DEF DeficitInv
  <2>3. Scan' = After(last)
    BY <2>1, <2>2 DEF Scan, Classes
  <2> QED BY <1>4, <1>5, <2>1, <2>3 DEF Measured, Backlogged, InRange, Credit
<1>8. ASSUME NEW i \in Classes, VisitEmpty(i)
      PROVE  /\ ~Measured(j)' => waits'[j] = 0
             /\ WaitsFrom(Scan, j)' /\ WaitsFrom(After(last), j)'
  <2>1. /\ visiting = i /\ ~Backlogged(i) /\ deficit' = [deficit EXCEPT ![i] = 0]
        /\ visiting' = After(i) /\ queues' = queues /\ last' = last /\ waits' = waits
        /\ saved' = [saved EXCEPT ![i] = 0]
    BY <1>8 DEF VisitEmpty
  <2>2. CASE j = i
    BY <1>2, <1>4, <2>1, <2>2 DEF Measured
  <2>3. CASE j # i
    <3>1. Scan' = After(i) /\ deficit'[j] = deficit[j] /\ saved'[j] = saved[j]
      BY <1>3, <2>1, <2>3, VisitMovesScan
    <3> QED BY <1>4, <2>1, <2>3, <3>1, PassedBy DEF Measured, Backlogged, InRange, Credit
  <2> QED BY <2>2, <2>3
<1>9. ASSUME NEW i \in Classes, VisitInDebt(i)
      PROVE  /\ ~Measured(j)' => waits'[j] = 0
             /\ WaitsFrom(Scan, j)' /\ WaitsFrom(After(last), j)'
  <2>1. /\ visiting = i /\ Backlogged(i) /\ visiting' = After(i)
        /\ queues' = queues /\ last' = last /\ waits' = waits /\ saved' = saved
    BY <1>9 DEF VisitInDebt, counts
  <2>2. Scan = i /\ Scan' = After(i)
    BY <2>1, VisitMovesScan
  <2>5. CASE j = i /\ ~InRange(i)
    <3>1. waits'[j] = 0
      BY <1>4, <2>1, <2>5 DEF Measured
    <3> QED BY <1>2, <3>1
  <2>3. CASE j = i /\ InRange(i)
    <3>1. Paying(j)' = Paying(j) - (NClasses - 1)
      BY <1>9, <2>3, VisitPays
    <3>2. Paying(j) \in Nat /\ waits[j] \in Nat /\ (NClasses - 1) * VisitsToPay(j) \in Nat
      BY <1>3, PayingTypes
    <3>3. PICK b \in Nat : b = (NClasses - 1) * VisitsToPay(j)
      BY <3>2
    <3>4. waits[j] + StepsTo(i, i) + Paying(j) <= b
      BY <1>4, <2>2, <2>3, <3>3 DEF WaitsFrom
    <3>5. StepsTo(i, i) = 0 /\ \A p \in Classes : StepsTo(p, j) \in 0 .. NClasses - 1
      BY ScanMoves
    <3>6. \A p \in Classes : waits'[j] + StepsTo(p, j) + Paying(j)' <= (NClasses - 1) * VisitsToPay(j)
      <4>1. ASSUME NEW p \in Classes
            PROVE  waits'[j] + StepsTo(p, j) + Paying(j)' <= b
        <5>1. StepsTo(p, j) \in 0 .. NClasses - 1
          BY <3>5
        <5> QED BY <2>1, <3>1, <3>2, <3>4, <3>5, <5>1
      <4> QED BY <3>3, <4>1
    <3>7. Scan' \in Classes /\ After(last)' \in Classes
      <4>1. last' \in Classes
        BY <2>1 DEF DeficitInv, TypeOK
      <4> QED BY <2>2, <4>1, ClassesWrap DEF After
    <3>8. /\ waits'[j] + StepsTo(Scan', j) + Paying(j)' <= (NClasses - 1) * VisitsToPay(j)
          /\ waits'[j] + StepsTo(After(last)', j) + Paying(j)' <= (NClasses - 1) * VisitsToPay(j)
      BY <3>6, <3>7
    <3> QED BY <1>4, <2>1, <3>8 DEF WaitsFrom, VisitsToPay, Credit, Measured, InRange, Backlogged
  <2>4. CASE j # i
    <3>1. deficit'[j] = deficit[j]
      BY <1>3, <1>9, <2>4 DEF VisitInDebt
    <3> QED BY <1>4, <2>1, <2>2, <2>4, <3>1, PassedBy DEF Measured, Backlogged, InRange, Credit
  <2> QED BY <2>3, <2>4, <2>5
<1>10. ASSUME NEW i \in Classes, Serve(i)
       PROVE  /\ ~Measured(j)' => waits'[j] = 0
              /\ WaitsFrom(Scan, j)' /\ WaitsFrom(After(last), j)'
  <2>1. /\ visiting = i /\ visiting' = NClasses /\ last' = i
        /\ queues' = [queues EXCEPT ![i] = Tail(@)]
        /\ waits'[j] = IF j = i \/ ~Measured(j) THEN 0 ELSE waits[j] + 1
    BY <1>10 DEF Serve, CountSent
  <2>2. CASE j = i \/ ~Measured(j)
    BY <1>2, <2>1, <2>2
  <2>3. CASE j # i /\ Measured(j)
    <3>1. Scan' = After(i)
      BY <2>1, VisitMovesScan
    <3>2. deficit'[j] = deficit[j] /\ queues'[j] = queues[j]
      BY <1>3, <1>10, <2>3 DEF Serve
    <3>3. saved'[j] = saved[j] /\ InRange(j)' = InRange(j)
      BY <1>10, <2>3, RangeIsLeft DEF DeficitInv
    <3> QED BY <2>1, <2>3, <3>1, <3>2, <3>3, PassedBy DEF Measured, Backlogged
  <2> QED BY <2>2, <2>3
<1>11. ASSUME NEW i \in Classes, HeldBack(i)
       PROVE  /\ ~Measured(j)' => waits'[j] = 0
              /\ WaitsFrom(Scan, j)' /\ WaitsFrom(After(last), j)'
  <2>1. /\ visiting' = NClasses /\ last' = last /\ queues' = queues
        /\ deficit' = [deficit EXCEPT ![i] = 0] /\ waits' = [waits EXCEPT ![i] = 0]
        /\ saved' = [saved EXCEPT ![i] = 0]
    BY <1>11 DEF HeldBack, CountHeld
  <2>2. CASE j = i
    BY <1>2, <1>3, <2>1, <2>2
  <2>3. CASE j # i
    <3>1. deficit'[j] = deficit[j] /\ waits'[j] = waits[j] /\ saved'[j] = saved[j]
      BY <1>3, <2>1, <2>3
    <3>2. Scan' = After(last)
      BY <2>1 DEF Scan, After
    <3> QED BY <1>4, <1>5, <2>1, <3>1, <3>2 DEF Measured, Backlogged, InRange, Credit
  <2> QED BY <2>2, <2>3
<1>12. CASE UNCHANGED vars
  <2>1. UNCHANGED <<queues, deficit, last, visiting, waits, saved>>
    BY <1>12 DEF vars, counts
  <2>2. Scan' = Scan
    BY <2>1 DEF Scan, After
  <2> QED BY <1>4, <1>5, <2>1, <2>2 DEF Measured, Backlogged, InRange, Credit
<1> QED BY <1>6, <1>7, <1>8, <1>9, <1>10, <1>11, <1>12, Zenon DEF Next, Visit

LEMMA WaitInvBounds == DeficitInv /\ WaitInv => WaitIsBounded
<1> SUFFICES ASSUME DeficitInv, WaitInv, NEW j \in Classes
             PROVE  waits[j] <= (NClasses - 1) * VisitsToPay(j)
  BY DEF WaitIsBounded
<1>1. Paying(j) \in Nat /\ waits[j] \in Nat /\ (NClasses - 1) * VisitsToPay(j) \in Nat
  BY PayingTypes DEF DeficitInv, TypeOK
<1>2. StepsTo(Scan, j) \in 0 .. NClasses - 1
  BY ScanIsAClass, ScanMoves DEF DeficitInv
<1>3. PICK b \in Nat : b = (NClasses - 1) * VisitsToPay(j)
  BY <1>1
<1>4. waits[j] + StepsTo(Scan, j) + Paying(j) <= b
  BY <1>3 DEF WaitInv, WaitsFrom
<1> QED BY <1>1, <1>2, <1>3, <1>4

(***************************************************************************)
(* No starvation, for any classes and packets: while a class waits, each   *)
(* other class sends at most as many packets as the visits it takes to pay *)
(* for its last one, until its counter can overflow.                       *)
(***************************************************************************)
THEOREM DrrWait == Spec => []WaitIsBounded
<1>1. Init => WaitInv
  <2> SUFFICES ASSUME Init PROVE WaitInv
    OBVIOUS
  <2>1. FreshOK
    BY InitDeficitInv, FreshHolds
  <2>2. \A j \in Classes : waits[j] = 0
    BY DEF Init
  <2> QED BY <2>1, <2>2 DEF WaitInv, FreshOK
<1>2. DeficitInv /\ DeficitInv' /\ WaitInv /\ [Next]_vars => WaitInv'
  BY WaitStep
<1>3. DeficitInv /\ WaitInv => WaitIsBounded
  BY WaitInvBounds
<1> QED BY <1>1, <1>2, <1>3, AlwaysDeficitInv, PTL DEF Spec

-----------------------------------------------------------------------------
(***************************************************************************)
(* The shares.  What class i is ahead of class j, less a round if i was    *)
(* visited last of the two, and corrected by what both owe or have saved,  *)
(* stays the same as long as both send; it starts where nothing is counted *)
(* and what i has saved by then is all it can make good.                   *)
(***************************************************************************)
Passed(i, j) == IF StepsTo(Scan, j) < StepsTo(Scan, i) THEN 1 ELSE 0

Balance(l, a, b, s, x, y) == (l - (a * b) * s) + (b * x - a * y)

Ahead(i, j) == Balance(lead[i][j], Credit(i), Credit(j), Passed(i, j), deficit[i], deficit[j])

WithinShare(i, j) ==
  InRange(i) /\ InRange(j)
    => Ahead(i, j) <= Credit(i) * (MaxSize - 1) + Credit(j) * saved[i]

ShareInv ==
  \A i, j \in Classes : i # j =>
    /\ ~Measured(i) \/ ~Measured(j) => lead[i][j] = 0
    /\ WithinShare(i, j)

LEMMA NothingAhead ==
  ASSUME NEW a \in Nat, NEW b \in Nat, NEW m \in Nat, NEW s \in {0, 1},
         NEW x \in Int, NEW y \in Int, NEW t \in Nat, x <= t, -m <= y
  PROVE  Balance(0, a, b, s, x, y) <= a * m + b * t
<1>1. b * x <= b * t /\ b * x \in Int /\ b * t \in Int
  <2>1. b * (t - x) >= 0 /\ b * (t - x) = b * t - b * x
    OBVIOUS
  <2> QED BY <2>1
<1>2. a * y >= -(a * m) /\ a * y \in Int /\ a * m \in Int
  <2>1. a * (y + m) >= 0 /\ a * (y + m) = a * y + a * m
    OBVIOUS
  <2> QED BY <2>1
<1>3. (a * b) * s \in Nat
  OBVIOUS
<1> QED BY <1>1, <1>2, <1>3 DEF Balance

LEMMA AtMostAhead ==
  ASSUME NEW a \in Nat, NEW b \in Nat, NEW m \in Nat, NEW s \in {0, 1},
         NEW x \in Int, NEW y \in Int, NEW l \in Int, NEW t \in Nat, NEW u \in Nat,
         -m <= x, y <= u, Balance(l, a, b, s, x, y) <= a * m + b * t
  PROVE  l <= a * b + (m + 1) * (a + b) + (b * t + a * u)
<1>1. /\ a * y <= a * u /\ a * y \in Int /\ a * u \in Int
      /\ a * m \in Nat /\ b * m \in Nat /\ b * t \in Nat
  <2>1. a * (u - y) >= 0 /\ a * (u - y) = a * u - a * y
    OBVIOUS
  <2> QED BY <2>1
<1>2. b * x >= -(b * m) /\ b * x \in Int
  <2>1. b * (x + m) >= 0 /\ b * (x + m) = b * x + b * m
    OBVIOUS
  <2> QED BY <2>1
<1>3. (a * b) * s <= a * b /\ (a * b) * s \in Nat /\ a * b \in Nat
  OBVIOUS
<1>4. (m + 1) * (a + b) = (a * m + b * m) + (a + b)
  OBVIOUS
<1> QED BY <1>1, <1>2, <1>3, <1>4 DEF Balance

AheadTypes ==
  \A i, j \in Classes :
    /\ lead[i][j] \in Int /\ Passed(i, j) \in {0, 1}
    /\ Credit(i) \in Nat /\ MaxSize - 1 \in Nat /\ saved[i] \in Nat /\ deficit[i] \in Int
    /\ InRange(i) => -(MaxSize - 1) <= deficit[i] /\ deficit[i] <= saved[i]

LEMMA AheadTypesHold == DeficitInv => AheadTypes
<1> SUFFICES ASSUME DeficitInv, NEW i \in Classes, NEW j \in Classes
             PROVE  /\ lead[i][j] \in Int /\ Passed(i, j) \in {0, 1}
                    /\ Credit(i) \in Nat /\ MaxSize - 1 \in Nat
                    /\ saved[i] \in Nat /\ deficit[i] \in Int
                    /\ InRange(i) => -(MaxSize - 1) <= deficit[i] /\ deficit[i] <= saved[i]
  BY DEF AheadTypes
<1>1. lead[i][j] \in Int /\ saved[i] \in Nat
  BY DEF DeficitInv, TypeOK
<1>2. Passed(i, j) \in {0, 1}
  BY DEF Passed
<1>3. Credit(i) \in Nat \ {0} /\ MaxSize \in Nat \ {0}
  BY CreditIsPositive
<1>4. deficit[i] \in Int
  <2>1. deficit[i] \in -HalfRange .. HalfRange - 1
    BY DEF DeficitInv, TypeOK
  <2> QED BY <2>1
<1>5. InRange(i) => -(MaxSize - 1) <= deficit[i] /\ deficit[i] <= saved[i]
  BY Deficits
<1> QED BY <1>1, <1>2, <1>3, <1>4, <1>5

FreshShares == \A i, j \in Classes : lead[i][j] = 0 => WithinShare(i, j)

LEMMA FreshSharesHold == DeficitInv => FreshShares
<1> SUFFICES ASSUME DeficitInv, NEW i \in Classes, NEW j \in Classes, lead[i][j] = 0,
                    InRange(i), InRange(j)
             PROVE  Ahead(i, j) <= Credit(i) * (MaxSize - 1) + Credit(j) * saved[i]
  BY DEF FreshShares, WithinShare
<1>1. AheadTypes
  BY AheadTypesHold
<1>2. /\ Credit(i) \in Nat /\ Credit(j) \in Nat /\ MaxSize - 1 \in Nat /\ Passed(i, j) \in {0, 1}
      /\ deficit[i] \in Int /\ deficit[j] \in Int /\ saved[i] \in Nat
      /\ deficit[i] <= saved[i] /\ -(MaxSize - 1) <= deficit[j]
  BY <1>1 DEF AheadTypes
<1>3. Balance(0, Credit(i), Credit(j), Passed(i, j), deficit[i], deficit[j])
        <= Credit(i) * (MaxSize - 1) + Credit(j) * saved[i]
  BY <1>2, NothingAhead
<1> QED BY <1>3 DEF Ahead

(***************************************************************************)
(* A visit passes the class it visits.                                     *)
(***************************************************************************)
LEMMA VisitPasses ==
  ASSUME NEW k \in Classes, Scan = k, Scan' = After(k), NEW i \in Classes, NEW j \in Classes, i # j
  PROVE  /\ k = i => Passed(i, j) = 0 /\ Passed(i, j)' = 1
         /\ k = j => Passed(i, j) = 1 /\ Passed(i, j)' = 0
         /\ k # i /\ k # j => Passed(i, j)' = Passed(i, j)
<1>1. /\ StepsTo(k, i) \in 0 .. NClasses - 1 /\ StepsTo(k, j) \in 0 .. NClasses - 1
      /\ StepsTo(k, k) = 0 /\ StepsTo(After(k), k) = NClasses - 1
      /\ i # k => StepsTo(k, i) > 0 /\ StepsTo(After(k), i) = StepsTo(k, i) - 1
      /\ j # k => StepsTo(k, j) > 0 /\ StepsTo(After(k), j) = StepsTo(k, j) - 1
  BY ScanMoves
<1>2. /\ Passed(i, j) = (IF StepsTo(k, j) < StepsTo(k, i) THEN 1 ELSE 0)
      /\ Passed(i, j)' = (IF StepsTo(After(k), j) < StepsTo(After(k), i) THEN 1 ELSE 0)
  BY DEF Passed
<1>3. NClasses \in Nat
  OBVIOUS
<1> QED BY <1>1, <1>2, <1>3

(***************************************************************************)
(* What a visit of class k, which sends n bytes or nothing, leaves of i's  *)
(* lead on j.                                                              *)
(***************************************************************************)
LEMMA VisitKeepsBalance ==
  ASSUME AheadTypes, NEW k \in Classes, Scan = k, Scan' = After(k),
         NEW i \in Classes, NEW j \in Classes, i # j, NEW n \in Int,
         \A c \in {i, j} : deficit'[c] = IF c = k THEN (deficit[c] + Credit(c)) - n ELSE deficit[c],
         lead'[i][j] = IF i = k THEN lead[i][j] + n * Credit(j)
                       ELSE IF j = k THEN lead[i][j] - n * Credit(i)
                       ELSE lead[i][j]
  PROVE  Ahead(i, j)' = Ahead(i, j)
<1>1. PICK a \in Int, b \in Int : a = Credit(i) /\ b = Credit(j)
  BY DEF AheadTypes
<1>2. PICK l \in Int, x \in Int, y \in Int : l = lead[i][j] /\ x = deficit[i] /\ y = deficit[j]
  BY DEF AheadTypes
<1>3. Ahead(i, j) = Balance(l, a, b, Passed(i, j), x, y)
  BY <1>1, <1>2 DEF Ahead
<1>4. Ahead(i, j)' = Balance(lead'[i][j], a, b, Passed(i, j)', deficit'[i], deficit'[j])
  BY <1>1 DEF Ahead, Credit
<1>5. CASE k = i
  <2>1. Passed(i, j) = 0 /\ Passed(i, j)' = 1
    BY <1>5, VisitPasses
  <2>2. PICK more, owed : more = lead'[i][j] /\ owed = deficit'[i]
    OBVIOUS
  <2>3. more = l + n * b /\ owed = (x + a) - n /\ deficit'[j] = y
    BY <1>1, <1>2, <1>5, <2>2
  <2>4. Balance(more, a, b, 1, owed, y) = Balance(l, a, b, 0, x, y)
    BY <2>3 DEF Balance
  <2> QED BY <1>3, <1>4, <2>1, <2>2, <2>3, <2>4, Zenon
<1>6. CASE k = j
  <2>1. Passed(i, j) = 1 /\ Passed(i, j)' = 0
    BY <1>6, VisitPasses
  <2>2. PICK less, owed : less = lead'[i][j] /\ owed = deficit'[j]
    OBVIOUS
  <2>3. less = l - n * a /\ deficit'[i] = x /\ owed = (y + b) - n
    BY <1>1, <1>2, <1>6, <2>2
  <2>4. Balance(less, a, b, 0, x, owed) = Balance(l, a, b, 1, x, y)
    BY <2>3 DEF Balance
  <2> QED BY <1>3, <1>4, <2>1, <2>2, <2>3, <2>4, Zenon
<1>7. CASE k # i /\ k # j
  <2>1. Passed(i, j)' = Passed(i, j)
    BY <1>7, VisitPasses
  <2>2. lead'[i][j] = l /\ deficit'[i] = x /\ deficit'[j] = y
    BY <1>1, <1>2, <1>7
  <2> QED BY <1>3, <1>4, <2>1, <2>2
<1> QED BY <1>5, <1>6, <1>7

(***************************************************************************)
(* What a class has saved only grows while the lead is counted.            *)
(***************************************************************************)
LEMMA ShareIsKept ==
  ASSUME AheadTypes, NEW i \in Classes, NEW j \in Classes, WithinShare(i, j),
         Ahead(i, j)' = Ahead(i, j), Ahead(i, j) \in Int,
         saved'[i] \in Nat, saved'[i] >= saved[i],
         InRange(i)' => InRange(i), InRange(j)' => InRange(j)
  PROVE  WithinShare(i, j)'
<1>1. PICK a \in Nat, b \in Nat, m \in Nat : a = Credit(i) /\ b = Credit(j) /\ m = MaxSize - 1
  BY DEF AheadTypes
<1>2. PICK t \in Nat, u \in Nat : t = saved[i] /\ u = saved'[i] /\ t <= u
  BY DEF AheadTypes
<1>3. b * t <= b * u /\ b * t \in Int /\ b * u \in Int /\ a * m \in Int
  <2>1. b * (u - t) >= 0 /\ b * (u - t) = b * u - b * t
    BY <1>2
  <2> QED BY <2>1
<1>4. InRange(i)' /\ InRange(j)' => Ahead(i, j) <= a * m + b * u
  <2>1. InRange(i)' /\ InRange(j)' => Ahead(i, j) <= a * m + b * t
    BY <1>1, <1>2 DEF WithinShare
  <2> QED BY <2>1, <1>3
<1>5. /\ Credit(i)' = a /\ Credit(j)' = b
  BY <1>1 DEF Credit
<1> QED BY <1>1, <1>2, <1>4, <1>5 DEF WithinShare

LEMMA AheadIsInt ==
  ASSUME AheadTypes, NEW i \in Classes, NEW j \in Classes
  PROVE  Ahead(i, j) \in Int
<1>1. /\ lead[i][j] \in Int /\ Passed(i, j) \in Int /\ Credit(i) \in Int /\ Credit(j) \in Int
      /\ deficit[i] \in Int /\ deficit[j] \in Int
  BY DEF AheadTypes
<1>2. \A a, b, l, s, x, y \in Int : Balance(l, a, b, s, x, y) \in Int
  BY DEF Balance
<1> QED BY <1>1, <1>2 DEF Ahead

LEMMA ShareStep ==
  DeficitInv /\ DeficitInv' /\ ShareInv /\ [Next]_vars => ShareInv'
<1> SUFFICES ASSUME DeficitInv, DeficitInv', ShareInv, [Next]_vars,
                    NEW i \in Classes, NEW j \in Classes, i # j
             PROVE  /\ ~Measured(i)' \/ ~Measured(j)' => lead'[i][j] = 0
                    /\ WithinShare(i, j)'
  BY DEF ShareInv
<1>1. FreshShares' /\ AheadTypes
  <2>1. FreshShares'
    BY FreshSharesHold, PTL
  <2> QED BY <2>1, AheadTypesHold
<1>2. lead'[i][j] = 0 => WithinShare(i, j)'
  BY <1>1 DEF FreshShares
<1>3. /\ queues \in [Classes -> Seq(1 .. MaxSize)]
      /\ deficit \in [Classes -> -HalfRange .. HalfRange - 1]
      /\ saved \in [Classes -> Nat] /\ saved' \in [Classes -> Nat]
      /\ lead \in [Classes -> [Classes -> Int]]
  BY DEF DeficitInv, TypeOK
<1>4. /\ ~Measured(i) \/ ~Measured(j) => lead[i][j] = 0
      /\ WithinShare(i, j)
  BY DEF ShareInv
<1>5. ASSUME saved' = saved
      PROVE  InRange(i)' = InRange(i) /\ InRange(j)' = InRange(j)
  BY <1>5 DEF InRange, Credit
<1>6. ASSUME Ahead(i, j)' = Ahead(i, j), saved' = saved
      PROVE  WithinShare(i, j)'
  <2>1. saved'[i] \in Nat /\ saved'[i] >= saved[i] /\ Ahead(i, j) \in Int
    BY <1>1, <1>3, <1>6, AheadIsInt
  <2> QED BY <1>1, <1>4, <1>5, <1>6, <2>1, ShareIsKept
<1>7. ASSUME lead' = lead, deficit' = deficit, saved' = saved, Scan' = Scan
      PROVE  WithinShare(i, j)'
  <2>1. Ahead(i, j)' = Ahead(i, j)
    BY <1>7 DEF Ahead, Passed, Credit
  <2> QED BY <1>6, <1>7, <2>1
<1>8. ASSUME NEW k \in Classes, NEW n \in Sizes[k], DoEnqueue(k, n)
      PROVE  /\ ~Measured(i)' \/ ~Measured(j)' => lead'[i][j] = 0
             /\ WithinShare(i, j)'
  <2>1. /\ queues' = [queues EXCEPT ![k] = Append(@, n)] /\ n \in 1 .. MaxSize
        /\ deficit' = deficit /\ lead' = lead /\ saved' = saved /\ last' = last /\ visiting' = visiting
    BY <1>8 DEF DoEnqueue, counts
  <2>2. \A c \in Classes : Backlogged(c) => Backlogged(c)'
    <3>1. Append(queues[k], n) # <<>>
      <4>1. queues[k] \in Seq(1 .. MaxSize) /\ n \in 1 .. MaxSize
        BY <1>3, <2>1
      <4> QED BY <4>1, AppendFills
    <3>2. \A c \in Classes : queues'[c] = queues[c] \/ queues'[c] = Append(queues[k], n)
      BY <1>3, <2>1
    <3> QED BY <3>1, <3>2 DEF Backlogged
  <2>3. Scan' = Scan
    BY <2>1 DEF Scan, After
  <2>4. (~Measured(i)' => ~Measured(i)) /\ (~Measured(j)' => ~Measured(j))
    BY <1>5, <2>1, <2>2 DEF Measured
  <2> QED BY <1>4, <1>7, <2>1, <2>3, <2>4
<1>9. CASE DoDequeue
  <2>1. /\ queues' = queues /\ deficit' = deficit /\ lead' = lead /\ saved' = saved /\ last' = last
        /\ visiting = NClasses /\ visiting' = After(last)
    BY <1>9 DEF DoDequeue, counts
  <2>2. After(last) \in Classes /\ NClasses \in Nat
    BY ScanIsAClass DEF DeficitInv
  <2>3. Scan' = Scan
    BY <2>1, <2>2 DEF Scan, Classes
  <2>4. Measured(i)' = Measured(i) /\ Measured(j)' = Measured(j)
    BY <1>5, <2>1 DEF Measured, Backlogged
  <2> QED BY <1>4, <1>7, <2>1, <2>3, <2>4
<1>10. ASSUME NEW k \in Classes, VisitEmpty(k)
       PROVE  /\ ~Measured(i)' \/ ~Measured(j)' => lead'[i][j] = 0
              /\ WithinShare(i, j)'
  <2>1. /\ visiting = k /\ ~Backlogged(k) /\ deficit' = [deficit EXCEPT ![k] = 0]
        /\ saved' = [saved EXCEPT ![k] = 0]
        /\ visiting' = After(k) /\ queues' = queues /\ last' = last /\ lead' = lead
    BY <1>10 DEF VisitEmpty
  <2>2. CASE k = i \/ k = j
    BY <1>2, <1>4, <2>1, <2>2 DEF Measured
  <2>3. CASE k # i /\ k # j
    <3>1. /\ deficit'[i] = deficit[i] /\ deficit'[j] = deficit[j]
          /\ saved'[i] = saved[i] /\ saved'[j] = saved[j]
      BY <1>3, <2>1, <2>3
    <3>2. Passed(i, j)' = Passed(i, j)
      BY <2>1, <2>3, VisitMovesScan, VisitPasses
    <3>3. Ahead(i, j)' = Ahead(i, j)
      BY <2>1, <3>1, <3>2 DEF Ahead, Credit
    <3>4. InRange(i)' = InRange(i) /\ InRange(j)' = InRange(j)
      BY <3>1 DEF InRange, Credit
    <3>5. Measured(i)' = Measured(i) /\ Measured(j)' = Measured(j)
      BY <2>1, <3>4 DEF Measured, Backlogged
    <3>6. WithinShare(i, j)'
      BY <1>4, <3>1, <3>3, <3>4 DEF WithinShare, Credit
    <3> QED BY <1>4, <2>1, <3>5, <3>6
  <2> QED BY <2>2, <2>3
<1>11. ASSUME NEW k \in Classes, VisitInDebt(k)
       PROVE  /\ ~Measured(i)' \/ ~Measured(j)' => lead'[i][j] = 0
              /\ WithinShare(i, j)'
  <2>1. /\ visiting = k /\ visiting' = After(k) /\ saved' = saved
        /\ queues' = queues /\ last' = last /\ lead' = lead
        /\ deficit' = [deficit EXCEPT ![k] = Increased(k)]
    BY <1>11 DEF VisitInDebt, counts
  <2>2. Scan = k /\ Scan' = After(k)
    BY <2>1, VisitMovesScan
  <2>3. Measured(i)' = Measured(i) /\ Measured(j)' = Measured(j)
    BY <1>5, <2>1 DEF Measured, Backlogged
  <2>4. CASE InRange(i) /\ InRange(j)
    <3>1. \A c \in {i, j} : deficit'[c] = IF c = k THEN (deficit[c] + Credit(c)) - 0 ELSE deficit[c]
      <4>1. ASSUME NEW c \in {i, j}
            PROVE  deficit'[c] = IF c = k THEN (deficit[c] + Credit(c)) - 0 ELSE deficit[c]
        <5>1. deficit'[c] = IF c = k THEN Increased(c) ELSE deficit[c]
          BY <1>3, <2>1
        <5>2. Increased(c) = deficit[c] + Credit(c) /\ deficit[c] + Credit(c) \in Int
          BY <2>4, Deficits
        <5> QED BY <5>1, <5>2
      <4> QED BY <4>1
    <3>2. lead'[i][j] = IF i = k THEN lead[i][j] + 0 * Credit(j)
                        ELSE IF j = k THEN lead[i][j] - 0 * Credit(i)
                        ELSE lead[i][j]
      <4>1. lead[i][j] \in Int /\ Credit(i) \in Int /\ Credit(j) \in Int
        BY <1>1 DEF AheadTypes
      <4> QED BY <2>1, <4>1
    <3>3. 0 \in Int
      OBVIOUS
    <3>4. Ahead(i, j)' = Ahead(i, j)
      BY <1>1, <2>2, <3>1, <3>2, <3>3, VisitKeepsBalance
    <3> QED BY <1>4, <1>6, <2>1, <2>3, <3>4
  <2>5. CASE ~(InRange(i) /\ InRange(j))
    BY <1>4, <1>5, <2>1, <2>3, <2>5 DEF WithinShare
  <2> QED BY <2>4, <2>5
<1>12. ASSUME NEW k \in Classes, Serve(k)
       PROVE  /\ ~Measured(i)' \/ ~Measured(j)' => lead'[i][j] = 0
              /\ WithinShare(i, j)'
  <2>1. PICK n : n = Head(queues[k])
    OBVIOUS
  <2>2. visiting = k /\ visiting' = NClasses /\ last' = k /\ CountSent(k, n)
    BY <1>12, <2>1 DEF Serve
  <2>3. Scan = k /\ Scan' = After(k)
    BY <2>2, VisitMovesScan
  <2>4. lead'[i][j] = IF ~Measured(i)' \/ ~Measured(j)' THEN 0
                      ELSE IF i = k THEN lead[i][j] + n * Credit(j)
                      ELSE IF j = k THEN lead[i][j] - n * Credit(i)
                      ELSE lead[i][j]
    BY <2>2 DEF CountSent
  <2>5. CASE ~Measured(i)' \/ ~Measured(j)'
    BY <1>2, <2>4, <2>5
  <2>6. CASE ~(~Measured(i)' \/ ~Measured(j)')
    <3>1. InRange(i) /\ InRange(j)
      BY <1>12, <2>6, RangeIsLeft DEF Measured, DeficitInv
    <3>2. n \in 1 .. MaxSize
      <4>1. queues[k] \in Seq(1 .. MaxSize) /\ queues[k] # <<>>
        BY <1>3, <1>12 DEF Serve, Backlogged
      <4> QED BY <2>1, <4>1
    <3>3. \A c \in {i, j} : deficit'[c] = IF c = k THEN (deficit[c] + Credit(c)) - n ELSE deficit[c]
      <4>1. CASE k \in {i, j}
        <5>1. deficit' = [deficit EXCEPT ![k] = (@ + Credit(k)) - n]
          BY <1>12, <2>1, <3>1, <4>1, Deficits
        <5> QED BY <1>3, <5>1
      <4>2. CASE k \notin {i, j}
        <5>1. \A c \in {i, j} : deficit'[c] = deficit[c]
          BY <1>3, <1>12, <4>2 DEF Serve
        <5> QED BY <4>2, <5>1
      <4> QED BY <4>1, <4>2
    <3>4. lead'[i][j] = IF i = k THEN lead[i][j] + n * Credit(j)
                        ELSE IF j = k THEN lead[i][j] - n * Credit(i)
                        ELSE lead[i][j]
      BY <2>4, <2>6, Zenon
    <3>5. n \in Int
      BY <3>2
    <3>6. Ahead(i, j)' = Ahead(i, j)
      BY <1>1, <2>3, <3>3, <3>4, <3>5, VisitKeepsBalance
    <3>7. saved'[i] \in Nat /\ saved'[i] >= saved[i]
      <4>1. k = i => saved'[i] = saved[i] + Short(i, n)
        BY <1>3, <1>12, <2>1, <3>1, Deficits
      <4>2. Short(i, n) \in Nat
        BY <3>5, CreditIsPositive DEF Short
      <4>3. k # i => saved'[i] = saved[i]
        BY <1>12, RangeIsLeft DEF DeficitInv
      <4>4. saved[i] \in Nat
        BY <1>3
      <4> QED BY <4>1, <4>2, <4>3, <4>4
    <3>8. WithinShare(i, j)'
      BY <1>1, <1>4, <3>1, <3>6, <3>7, AheadIsInt, ShareIsKept
    <3> QED BY <2>6, <3>8
  <2> QED BY <2>5, <2>6
<1>13. ASSUME NEW k \in Classes, HeldBack(k)
       PROVE  /\ ~Measured(i)' \/ ~Measured(j)' => lead'[i][j] = 0
              /\ WithinShare(i, j)'
  <2>1. lead'[i][j] = 0
    BY <1>13 DEF HeldBack, CountHeld
  <2> QED BY <1>2, <2>1
<1>14. CASE UNCHANGED vars
  <2>1. UNCHANGED <<queues, deficit, last, visiting, lead, saved>>
    BY <1>14 DEF vars, counts
  <2>2. Scan' = Scan
    BY <2>1 DEF Scan, After
  <2>3. Measured(i)' = Measured(i) /\ Measured(j)' = Measured(j)
    BY <1>5, <2>1 DEF Measured, Backlogged
  <2> QED BY <1>4, <1>7, <2>1, <2>2, <2>3
<1> QED BY <1>8, <1>9, <1>10, <1>11, <1>12, <1>13, <1>14, Zenon DEF Next, Visit

LEMMA ShareInvBounds == DeficitInv /\ ShareInv => ShareFollowsWeights
<1> SUFFICES ASSUME DeficitInv, ShareInv, NEW i \in Classes, NEW j \in Classes, i # j
             PROVE  lead[i][j] <= Credit(i) * Credit(j) + MaxSize * (Credit(i) + Credit(j))
                                    + (Credit(j) * saved[i] + Credit(i) * saved[j])
  BY DEF ShareFollowsWeights
<1>1. AheadTypes
  BY AheadTypesHold
<1>2. PICK a \in Nat, b \in Nat, m \in Nat : a = Credit(i) /\ b = Credit(j) /\ m = MaxSize - 1
  BY <1>1 DEF AheadTypes
<1>3. PICK t \in Nat, u \in Nat : t = saved[i] /\ u = saved[j]
  BY <1>1 DEF AheadTypes
<1>4. MaxSize = m + 1
  BY <1>2, CreditIsPositive
<1>5. lead[i][j] <= a * b + (m + 1) * (a + b) + (b * t + a * u)
  <2>1. CASE InRange(i) /\ InRange(j)
    <3>1. /\ Passed(i, j) \in {0, 1} /\ lead[i][j] \in Int
          /\ deficit[i] \in Int /\ deficit[j] \in Int /\ -m <= deficit[i] /\ deficit[j] <= u
      BY <1>1, <1>2, <1>3, <2>1 DEF AheadTypes
    <3>2. Balance(lead[i][j], a, b, Passed(i, j), deficit[i], deficit[j]) <= a * m + b * t
      BY <1>2, <1>3, <2>1 DEF ShareInv, WithinShare, Ahead
    <3> QED BY <3>1, <3>2, AtMostAhead
  <2>2. CASE ~(InRange(i) /\ InRange(j))
    <3>1. lead[i][j] = 0
      BY <2>2 DEF ShareInv, Measured
    <3>2. a * b \in Nat /\ (m + 1) * (a + b) \in Nat /\ b * t \in Nat /\ a * u \in Nat
      OBVIOUS
    <3> QED BY <3>1, <3>2
  <2> QED BY <2>1, <2>2
<1> QED BY <1>2, <1>3, <1>4, <1>5

(***************************************************************************)
(* "The available bandwidth is distributed among classes proportionaly to  *)
(* the weights", for any classes, weights and packets: of two classes with *)
(* packets, while none is held back and no counter can have overflowed,    *)
(* neither is ahead by more than a round and a packet of each are worth,   *)
(* and what their small packets have saved.                                *)
(***************************************************************************)
THEOREM DrrShare == Spec => []ShareFollowsWeights
<1>1. Init => ShareInv
  <2> SUFFICES ASSUME Init PROVE ShareInv
    OBVIOUS
  <2>1. FreshShares
    BY InitDeficitInv, FreshSharesHold
  <2>2. \A i, j \in Classes : lead[i][j] = 0
    BY DEF Init
  <2> QED BY <2>1, <2>2 DEF ShareInv, FreshShares
<1>2. DeficitInv /\ DeficitInv' /\ ShareInv /\ [Next]_vars => ShareInv'
  BY ShareStep
<1>3. DeficitInv /\ ShareInv => ShareFollowsWeights
  BY ShareInvBounds
<1> QED BY <1>1, <1>2, <1>3, AlwaysDeficitInv, PTL DEF Spec

-----------------------------------------------------------------------------
(***************************************************************************)
(* The loop of DoDequeue.  Once class j is visited VisitsLeft(j) visits    *)
(* from now it sends: the scan comes to it, and pays what it owes one      *)
(* round at a time.                                                        *)
(***************************************************************************)
VisitsLeft(j) == NClasses * Owes(j) + StepsTo(visiting, j)

(***************************************************************************)
(* A call that runs has a class to send from, and no class is further away *)
(* than the rounds its largest packet takes to pay for.                    *)
(***************************************************************************)
CallIsBounded ==
  visiting # NClasses =>
    /\ \E j \in Classes : Backlogged(j)
    /\ \A j \in Classes : VisitsLeft(j) \in 0 .. NClasses * VisitsToPay(j) - 1

(***************************************************************************)
(* A visit that does not end the call brings every class with packets and  *)
(* a counter in its range one visit nearer, and none was there yet.        *)
(***************************************************************************)
VisitsCountDown ==
  visiting # NClasses /\ visiting' # NClasses =>
    \A j \in Classes : Measured(j) =>
      /\ Measured(j)'
      /\ VisitsLeft(j) > 0
      /\ VisitsLeft(j)' = VisitsLeft(j) - 1

(***************************************************************************)
(* A visit of class i that does not end the call, seen by class j.         *)
(***************************************************************************)
LEMMA VisitCounts ==
  ASSUME DeficitInv, NEW i \in Classes, VisitEmpty(i) \/ VisitInDebt(i),
         NEW j \in Classes, Measured(j)
  PROVE  /\ Measured(j)'
         /\ VisitsLeft(j) > 0
         /\ VisitsLeft(j)' = VisitsLeft(j) - 1
<1>1. /\ visiting = i /\ visiting' = After(i) /\ queues' = queues
      /\ j # i => deficit'[j] = deficit[j] /\ saved'[j] = saved[j]
      /\ VisitInDebt(i) => saved' = saved
  BY DEF VisitEmpty, VisitInDebt, counts, DeficitInv, TypeOK
<1>2. Measured(j)'
  <2>1. saved'[j] = saved[j]
    BY <1>1 DEF VisitEmpty, Measured
  <2> QED BY <1>1, <2>1 DEF Measured, Backlogged, InRange, Credit
<1>3. PICK N \in Nat \ {0} : N = NClasses
  BY DrrAssumption
<1>4. CASE j = i
  <2>1. VisitInDebt(i) /\ InRange(i)
    BY <1>4 DEF VisitEmpty, Measured
  <2>2. PICK o \in Nat : o = Owes(j) /\ o > 0 /\ Owes(j)' = o - 1
    BY <1>4, <2>1, OwesLess
  <2>3. StepsTo(i, j) = 0 /\ StepsTo(After(i), j) = N - 1
    BY <1>3, <1>4, ScanMoves
  <2>4. VisitsLeft(j) = N * o
    BY <1>1, <1>3, <2>2, <2>3 DEF VisitsLeft
  <2>5. VisitsLeft(j)' = N * (o - 1) + (N - 1)
    BY <1>1, <1>3, <2>2, <2>3 DEF VisitsLeft, StepsTo
  <2>6. \A n, k \in Nat \ {0} : n * k > 0 /\ n * (k - 1) + (n - 1) = n * k - 1
    OBVIOUS
  <2>7. o \in Nat \ {0}
    BY <2>2
  <2> QED BY <1>2, <1>3, <2>4, <2>5, <2>6, <2>7
<1>5. CASE j # i
  <2>1. Owes(j) \in Nat /\ Owes(j)' = Owes(j)
    BY <1>1, <1>5, OwesTypes DEF Owes, InRange, Credit
  <2>2. PICK o \in Nat : o = Owes(j) /\ Owes(j)' = o
    BY <2>1
  <2>3. PICK s \in Nat : s = StepsTo(i, j) /\ s > 0 /\ StepsTo(After(i), j) = s - 1
    BY <1>5, ScanMoves
  <2>4. VisitsLeft(j) = N * o + s
    BY <1>1, <1>3, <2>2, <2>3 DEF VisitsLeft
  <2>5. VisitsLeft(j)' = N * o + (s - 1)
    BY <1>1, <1>3, <2>2, <2>3 DEF VisitsLeft, StepsTo
  <2>6. \A n, k \in Nat : n * k \in Nat
    OBVIOUS
  <2> QED BY <1>2, <1>3, <2>3, <2>4, <2>5, <2>6
<1> QED BY <1>4, <1>5

LEMMA CallBounds ==
  ASSUME DeficitInv, visiting # NClasses, NEW j \in Classes
  PROVE  VisitsLeft(j) \in 0 .. NClasses * VisitsToPay(j) - 1
<1>1. visiting \in Classes
  BY DEF DeficitInv, TypeOK, Classes
<1>2. PICK N \in Nat \ {0} : N = NClasses
  BY DrrAssumption
<1>3. PICK s \in 0 .. N - 1 : s = StepsTo(visiting, j)
  BY <1>1, <1>2, ScanMoves
<1>4. PICK o \in Nat, v \in Nat : o = Owes(j) /\ v = VisitsToPay(j) /\ o + 1 <= v
  BY OwesTypes
<1>5. \A n, a, b \in Nat : a + 1 <= b => n * a \in Nat /\ n * b \in Nat /\ n * a + n <= n * b
  OBVIOUS
<1>6. N * o \in Nat /\ N * v \in Nat /\ N * o + N <= N * v
  BY <1>4, <1>5
<1> QED BY <1>2, <1>3, <1>4, <1>6 DEF VisitsLeft

(***************************************************************************)
(* DoDequeue returns, for any classes, weights and backlogs: a call visits *)
(* at most NClasses * VisitsToPay(j) classes, for each class j that has    *)
(* packets and a counter in its range, and it begins only if there are     *)
(* packets.                                                                *)
(***************************************************************************)
THEOREM DrrCallEnds == Spec => []CallIsBounded /\ [][VisitsCountDown]_vars
<1> DEFINE Some == visiting # NClasses => \E j \in Classes : Backlogged(j)
<1>1. Init => Some
  BY DEF Init
<1>2. DeficitInv /\ Some /\ [Next]_vars => Some'
  <2> SUFFICES ASSUME DeficitInv, Some, [Next]_vars, visiting' # NClasses
               PROVE  \E j \in Classes : Backlogged(j)'
    OBVIOUS
  <2>1. CASE UNCHANGED vars
    BY <2>1 DEF vars, Backlogged
  <2>2. CASE \E i \in Classes : \E n \in Sizes[i] : DoEnqueue(i, n)
    BY <2>2 DEF DoEnqueue
  <2>3. CASE DoDequeue
    BY <2>3 DEF DoDequeue, Backlogged
  <2>4. CASE Visit
    <3>1. PICK i \in Classes : VisitEmpty(i) \/ VisitInDebt(i) \/ Serve(i) \/ HeldBack(i)
      BY <2>4 DEF Visit
    <3>2. VisitEmpty(i) \/ VisitInDebt(i)
      BY <3>1 DEF Serve, HeldBack
    <3>3. visiting \in Classes /\ queues' = queues
      BY <3>2 DEF VisitEmpty, VisitInDebt
    <3>4. visiting # NClasses
      BY <3>3 DEF Classes
    <3> QED BY <3>3, <3>4 DEF Backlogged
  <2> QED BY <2>1, <2>2, <2>3, <2>4 DEF Next
<1>3. DeficitInv /\ Some => CallIsBounded
  BY CallBounds DEF CallIsBounded
<1>4. DeficitInv /\ [Next]_vars => [VisitsCountDown]_vars
  <2> SUFFICES ASSUME DeficitInv, Next, visiting # NClasses, visiting' # NClasses,
                      NEW j \in Classes, Measured(j)
               PROVE  /\ Measured(j)'
                      /\ VisitsLeft(j) > 0
                      /\ VisitsLeft(j)' = VisitsLeft(j) - 1
    BY DEF VisitsCountDown
  <2>1. PICK i \in Classes : VisitEmpty(i) \/ VisitInDebt(i) \/ Serve(i) \/ HeldBack(i)
    BY DEF Next, Visit, DoEnqueue, DoDequeue
  <2>2. VisitEmpty(i) \/ VisitInDebt(i)
    BY <2>1 DEF Serve, HeldBack
  <2> QED BY <2>2, VisitCounts
<1> HIDE DEF Some
<1> QED BY <1>1, <1>2, <1>3, <1>4, AlwaysDeficitInv, PTL DEF Spec
=============================================================================
