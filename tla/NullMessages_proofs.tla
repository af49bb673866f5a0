------------------------ MODULE NullMessages_proofs ------------------------
(***************************************************************************)
(* Proofs about NullMessages for any number of tasks and any topology in   *)
(* which two tasks share at most one link: packets keep the guarantees     *)
(* sent before them, and no task runs ahead of what may still reach it.    *)
(***************************************************************************)
EXTENDS NullMessages, SequenceTheorems, WellFoundedInduction, TLAPS

Messages == [rx : Nat, guarantee : Nat]

(***************************************************************************)
(* With two links CalculateGuaranteeTime, called while an event is still   *)
(* handled, may promise more than the second link keeps.                   *)
(***************************************************************************)
OneLink == \A l, n \in Tasks : \A c, e \in Channels[l][n] : c = e

(***************************************************************************)
(* Nothing in an event list is earlier than t.                             *)
(***************************************************************************)
After(events, dropped, ends, due, t, B) ==
  /\ \A e \in events : t <= e
  /\ \A e \in dropped : t <= e
  /\ \A c \in Links : ends[c] # Idle => t <= ends[c]
  /\ \A n \in B : t <= due[n]
  /\ t <= StopTime

EventsAfter(l, t, B) == After(user[l], cancelled[l], done[l], nulls[l], t, B)

-----------------------------------------------------------------------------
(***************************************************************************)
(* Sequences of messages: no guarantee is taken back, and no packet is     *)
(* earlier than a guarantee before it.                                     *)
(***************************************************************************)
Ordered(g, ch) ==
  \A i \in 1 .. Len(ch) :
    /\ g <= ch[i].guarantee
    /\ ch[i].rx # NoPacket => g <= ch[i].rx
    /\ \A j \in 1 .. i - 1 :
         /\ ch[j].guarantee <= ch[i].guarantee
         /\ ch[i].rx # NoPacket => ch[j].guarantee <= ch[i].rx

LastGuarantee(g, ch) == IF Len(ch) = 0 THEN g ELSE ch[Len(ch)].guarantee

LEMMA MessageFacts ==
  ASSUME NEW m \in Messages
  PROVE  m.rx \in Nat /\ m.guarantee \in Nat
  BY DEF Messages

LEMMA LastIsLargest ==
  ASSUME NEW g \in Nat, NEW ch \in Seq(Messages), Ordered(g, ch)
  PROVE  /\ LastGuarantee(g, ch) \in Nat
         /\ g <= LastGuarantee(g, ch)
         /\ \A i \in 1 .. Len(ch) : ch[i].guarantee <= LastGuarantee(g, ch)
<1>1. Len(ch) \in Nat /\ \A i \in 1 .. Len(ch) : ch[i] \in Messages
  OBVIOUS
<1>2. \A i \in 1 .. Len(ch) : ch[i].guarantee \in Nat
  BY <1>1, MessageFacts
<1>3. CASE Len(ch) = 0
  BY <1>3 DEF LastGuarantee
<1>4. CASE Len(ch) # 0
  <2>1. Len(ch) \in 1 .. Len(ch)
    BY <1>1, <1>4
  <2>2. \A i \in 1 .. Len(ch) : i = Len(ch) \/ i \in 1 .. Len(ch) - 1
    BY <1>1
  <2> QED BY <1>2, <1>4, <2>1, <2>2 DEF LastGuarantee, Ordered
<1> QED BY <1>3, <1>4

LEMMA AppendOrdered ==
  ASSUME NEW g \in Nat, NEW ch \in Seq(Messages), Ordered(g, ch), NEW m \in Messages,
         LastGuarantee(g, ch) <= m.guarantee,
         m.rx # NoPacket => LastGuarantee(g, ch) <= m.rx
  PROVE  /\ Ordered(g, Append(ch, m))
         /\ LastGuarantee(g, Append(ch, m)) = m.guarantee
<1> DEFINE longer == Append(ch, m)
<1>1. /\ Len(longer) = Len(ch) + 1 /\ Len(ch) \in Nat
      /\ \A i \in 1 .. Len(ch) : longer[i] = ch[i] /\ ch[i] \in Messages
      /\ longer[Len(ch) + 1] = m
  OBVIOUS
<1> HIDE DEF longer
<1>2. LastGuarantee(g, longer) = m.guarantee
  BY <1>1 DEF LastGuarantee
<1>3. /\ LastGuarantee(g, ch) \in Nat /\ m.rx \in Nat /\ m.guarantee \in Nat
      /\ g <= LastGuarantee(g, ch)
      /\ \A i \in 1 .. Len(ch) : ch[i].guarantee <= LastGuarantee(g, ch) /\ ch[i].guarantee \in Nat
  BY <1>1, LastIsLargest, MessageFacts
<1>4. ASSUME NEW i \in 1 .. Len(longer)
      PROVE  /\ g <= longer[i].guarantee
             /\ longer[i].rx # NoPacket => g <= longer[i].rx
             /\ \A j \in 1 .. i - 1 :
                  /\ longer[j].guarantee <= longer[i].guarantee
                  /\ longer[i].rx # NoPacket => longer[j].guarantee <= longer[i].rx
  <2>1. CASE i = Len(ch) + 1
    BY <1>1, <1>3, <2>1
  <2>2. CASE i \in 1 .. Len(ch)
    <3>1. \A j \in 1 .. i - 1 : j \in 1 .. Len(ch)
      BY <1>1, <2>2
    <3> QED BY <1>1, <2>2, <3>1 DEF Ordered
  <2> QED BY <1>1, <2>1, <2>2
<1>5. Ordered(g, longer)
  BY <1>4 DEF Ordered
<1> QED BY <1>2, <1>5 DEF longer

(***************************************************************************)
(* The first k messages are taken.                                         *)
(***************************************************************************)
Rest(ch, k) == SubSeq(ch, k + 1, Len(ch))
Taken(g, ch, k) == IF k > 0 THEN ch[k].guarantee ELSE g

NoneBefore(g, ch, k) ==
  \A i \in 1 .. k : ch[i].rx \in Nat /\ (ch[i].rx # NoPacket => g <= ch[i].rx)

LEMMA TakeOrdered ==
  ASSUME NEW g \in Nat, NEW ch \in Seq(Messages), Ordered(g, ch), NEW k \in 0 .. Len(ch)
  PROVE  /\ Rest(ch, k) \in Seq(Messages)
         /\ Taken(g, ch, k) \in Nat
         /\ Ordered(Taken(g, ch, k), Rest(ch, k))
         /\ LastGuarantee(Taken(g, ch, k), Rest(ch, k)) = LastGuarantee(g, ch)
         /\ g <= Taken(g, ch, k)
         /\ NoneBefore(g, ch, k)
<1> DEFINE rest == Rest(ch, k)
           gone == Taken(g, ch, k)
<1>1. /\ Len(ch) \in Nat /\ k \in Nat /\ k <= Len(ch)
      /\ \A i \in 1 .. Len(ch) : ch[i] \in Messages
  OBVIOUS
<1>2. \A i \in 1 .. Len(ch) : ch[i].guarantee \in Nat /\ ch[i].rx \in Nat
  BY <1>1, MessageFacts
<1>3. /\ rest \in Seq(Messages)
      /\ Len(rest) = Len(ch) - k
      /\ \A i \in 1 .. Len(rest) : rest[i] = ch[i + k]
  BY <1>1 DEF Rest
<1>4. k > 0 => k \in 1 .. Len(ch) /\ gone = ch[k].guarantee
  BY <1>1 DEF Taken
<1>5. ~(k > 0) => k = 0 /\ gone = g
  BY <1>1 DEF Taken
<1> HIDE DEF rest, gone
<1>6. gone \in Nat /\ g <= gone
  BY <1>1, <1>2, <1>4, <1>5 DEF Ordered
<1>7. Ordered(gone, rest)
  <2> SUFFICES ASSUME NEW i \in 1 .. Len(rest)
               PROVE  /\ gone <= rest[i].guarantee
                      /\ rest[i].rx # NoPacket => gone <= rest[i].rx
                      /\ \A j \in 1 .. i - 1 :
                           /\ rest[j].guarantee <= rest[i].guarantee
                           /\ rest[i].rx # NoPacket => rest[j].guarantee <= rest[i].rx
    BY DEF Ordered
  <2>1. i + k \in 1 .. Len(ch) /\ rest[i] = ch[i + k] /\ (k > 0 => k \in 1 .. i + k - 1)
    BY <1>1, <1>3
  <2>2. \A j \in 1 .. i - 1 : rest[j] = ch[j + k] /\ j + k \in 1 .. i + k - 1
    BY <1>1, <1>3
  <2>3. /\ g <= ch[i + k].guarantee
        /\ ch[i + k].rx # NoPacket => g <= ch[i + k].rx
        /\ \A j \in 1 .. i + k - 1 :
             /\ ch[j].guarantee <= ch[i + k].guarantee
             /\ ch[i + k].rx # NoPacket => ch[j].guarantee <= ch[i + k].rx
    BY <2>1 DEF Ordered
  <2> QED BY <1>4, <1>5, <2>1, <2>2, <2>3
<1>8. LastGuarantee(gone, rest) = LastGuarantee(g, ch)
  <2>1. CASE Len(rest) = 0
    BY <1>1, <1>3, <1>4, <1>5, <2>1 DEF LastGuarantee
  <2>2. CASE Len(rest) # 0
    <3>1. Len(rest) \in 1 .. Len(rest) /\ Len(rest) + k = Len(ch) /\ Len(ch) # 0
      BY <1>1, <1>3, <2>2
    <3> QED BY <1>3, <2>2, <3>1 DEF LastGuarantee
  <2> QED BY <2>1, <2>2
<1>9. \A i \in 1 .. k : i \in 1 .. Len(ch)
  BY <1>1
<1> QED BY <1>2, <1>3, <1>6, <1>7, <1>8, <1>9 DEF rest, gone, Ordered, NoneBefore

-----------------------------------------------------------------------------
(***************************************************************************)
(* The invariant.  Clock: a task is behind its safe time and behind all    *)
(* its events, its null messages are due in time, and its safe time is     *)
(* behind the guarantees.  A task has promised X to a peer: nothing        *)
(* earlier than X can leave for it, either because the task itself has no  *)
(* earlier event (Free; the null message event of that peer sends no       *)
(* packet), or because the device is busy until then (Busy).               *)
(***************************************************************************)
Clock(l) ==
  /\ now[l] <= safe[l]
  /\ EventsAfter(l, now[l], Peers(l))
  /\ \A n \in Peers(l) :
       /\ nulls[l][n] <= Clip(now[l] + NullDelay[l][n])
       /\ safe[l] <= guarantee[l][n]

Free(l, n, X) ==
  /\ EventsAfter(l, X, Peers(l) \ {n})
  /\ phase[l] = "handling" => X <= now[l]

Busy(l, n, X) ==
  /\ X <= nulls[l][n]
  /\ \E c \in Channels[l][n] : done[l][c] # Idle /\ X <= done[l][c]

Promised(l, n, X) == X <= safe[l] /\ (Free(l, n, X) \/ Busy(l, n, X))

Promise(l, n) == LastGuarantee(guarantee[n][l], channel[l][n])

Link(l, n) ==
  /\ Ordered(guarantee[n][l], channel[l][n])
  /\ Promised(l, n, Promise(l, n) - BundleDelay[l][n])

Inv ==
  /\ TypeOK
  /\ \A l \in Tasks : Clock(l)
  /\ \A l \in Tasks : \A n \in Peers(l) : Link(l, n)

(***************************************************************************)
(* What belongs to a task alone, left as it is.                            *)
(***************************************************************************)
Same(l) ==
  /\ phase'[l] = phase[l] /\ now'[l] = now[l] /\ user'[l] = user[l]
  /\ done'[l] = done[l] /\ nulls'[l] = nulls[l] /\ cancelled'[l] = cancelled[l]
  /\ safe'[l] = safe[l]

-----------------------------------------------------------------------------
LEMMA PeerFacts ==
  ASSUME NEW l \in Tasks, NEW n \in Peers(l)
  PROVE  /\ n \in Tasks /\ l \in Peers(n) /\ l # n
         /\ NullDelay[l][n] \in Nat /\ NullDelay[l][n] > 0
         /\ BundleDelay[l][n] \in Nat
         /\ \A c \in Channels[l][n] :
              c \in Links /\ ChannelDelay[c] \in Nat /\ BundleDelay[l][n] <= ChannelDelay[c]
<1>1. n \in Tasks /\ l \in Peers(n) /\ l # n
  BY NullAssumption DEF Peers
<1>2. NullDelay[l][n] \in 1 .. BundleDelay[l][n] /\ BundleDelay[l][n] \in Nat
  BY <1>1, NullAssumption
<1>3. \A c \in Channels[l][n] : c \in Links /\ BundleDelay[l][n] <= ChannelDelay[c]
  BY <1>1, NullAssumption DEF Links
<1>4. \A c \in Links : ChannelDelay[c] \in Nat
  BY NullAssumption
<1> QED BY <1>1, <1>2, <1>3, <1>4

LEMMA TypeFacts ==
  ASSUME TypeOK, NEW l \in Tasks
  PROVE  /\ now[l] \in Nat /\ safe[l] \in Nat /\ StopTime \in Nat
         /\ \A t \in user[l] : t \in Nat
         /\ \A t \in cancelled[l] : t \in Nat
         /\ \A c \in Links : done[l][c] # Idle => done[l][c] \in Nat
         /\ \A n \in Tasks :
              /\ nulls[l][n] \in Nat /\ guarantee[l][n] \in Nat
              /\ channel[l][n] \in Seq(Messages)
<1>1. now[l] \in Nat /\ safe[l] \in Nat /\ StopTime \in Nat
  BY NullAssumption DEF TypeOK
<1>2. user[l] \in SUBSET Nat /\ cancelled[l] \in SUBSET Nat
  BY DEF TypeOK
<1>3. \A c \in Links : done[l][c] \in Nat \cup {Idle}
  BY DEF TypeOK
<1>4. \A n \in Tasks : nulls[l][n] \in Nat /\ guarantee[l][n] \in Nat
  BY DEF TypeOK
<1>5. \A n \in Tasks : channel[l][n] \in Seq(Messages)
  BY DEF TypeOK, Messages
<1> QED BY <1>1, <1>2, <1>3, <1>4, <1>5

LEMMA ClipFacts ==
  ASSUME NEW x \in Nat
  PROVE  /\ Clip(x) \in Nat
         /\ \A y \in Int : y <= x /\ y <= StopTime => y <= Clip(x)
         /\ \A y \in Nat : x <= y => Clip(x) <= Clip(y)
  BY NullAssumption DEF Clip

LEMMA EventsFacts ==
  ASSUME TypeOK, NEW l \in Tasks, NEW B \in SUBSET Tasks, NEW t \in Int,
         \A e \in Events(l, B) : t <= e
  PROVE  EventsAfter(l, t, B)
<1>1. \A c \in Links : done[l][c] # Idle => done[l][c] \in Events(l, B)
  BY DEF Events, TransmitTimes
<1>2. \A e \in user[l] \cup cancelled[l] : e \in Events(l, B)
  BY DEF Events
<1>3. (\A n \in B : nulls[l][n] \in Events(l, B)) /\ StopTime \in Events(l, B)
  BY DEF Events
<1> QED BY <1>1, <1>2, <1>3 DEF EventsAfter, After

LEMMA AfterFacts ==
  ASSUME TypeOK, NEW l \in Tasks, NEW B \in SUBSET Tasks, NEW t \in Int,
         EventsAfter(l, t, B)
  PROVE  \A e \in Events(l, B) : e \in Nat /\ t <= e
<1>1. TAKE e \in Events(l, B)
<1>2. CASE e \in user[l] \cup cancelled[l] \cup {StopTime}
  BY <1>2, TypeFacts DEF EventsAfter, After
<1>3. CASE e \in TransmitTimes(l)
  BY <1>3, TypeFacts DEF EventsAfter, After, TransmitTimes
<1>4. CASE e \in {nulls[l][n] : n \in B}
  BY <1>4, TypeFacts DEF EventsAfter, After
<1> QED BY <1>2, <1>3, <1>4 DEF Events

(***************************************************************************)
(* An event list only counts later what it counts earlier.                 *)
(***************************************************************************)
LEMMA AfterEarlier ==
  ASSUME TypeOK, NEW l \in Tasks, NEW B \in SUBSET Tasks, NEW C \in SUBSET B,
         NEW t \in Int, NEW s \in Int, s <= t, EventsAfter(l, t, B)
  PROVE  EventsAfter(l, s, C)
  BY TypeFacts DEF EventsAfter, After

LEMMA PeersAreTasks ==
  ASSUME NEW l \in Tasks
  PROVE  Peers(l) \in SUBSET Tasks /\ \A n \in Tasks : Peers(l) \ {n} \in SUBSET Peers(l)
  BY DEF Peers

LEMMA ProcessFacts ==
  ASSUME TypeOK, NEW l \in Tasks, NEW t, Process(l, t), Clock(l)
  PROVE  /\ t \in Nat /\ now[l] <= t /\ t <= safe[l] /\ t <= StopTime
         /\ EventsAfter(l, t, Peers(l))
         /\ phase[l] = "ready"
         /\ now' = [now EXCEPT ![l] = t]
<1>1. t \in Events(l, Peers(l)) /\ \A e \in Events(l, Peers(l)) : t <= e
  BY DEF Process, IsNext, IsLeast
<1>2. now[l] \in Int /\ EventsAfter(l, now[l], Peers(l))
  BY TypeFacts DEF Clock
<1>3. t \in Nat /\ now[l] <= t
  BY <1>1, <1>2, AfterFacts, PeersAreTasks
<1>4. EventsAfter(l, t, Peers(l))
  BY <1>1, <1>3, EventsFacts, PeersAreTasks
<1>5. t <= StopTime
  BY <1>4 DEF EventsAfter, After
<1> QED BY <1>3, <1>4, <1>5 DEF Process

-----------------------------------------------------------------------------
(***************************************************************************)
(* Each action of task p: the other tasks are left as they are, its clock  *)
(* stays in order, and what it has promised it keeps.                      *)
(***************************************************************************)
Others(p) == \A l \in Tasks \ {p} : Same(l)

Keeps(p) ==
  /\ Clock(p)'
  /\ \A n \in Peers(p) : \A X \in Int : Promised(p, n, X) => Promised(p, n, X)'

LEMMA LaterClock ==
  ASSUME TypeOK, NEW p \in Tasks, NEW t \in Nat, now[p] <= t, Clock(p)
  PROVE  \A n \in Peers(p) : nulls[p][n] <= Clip(t + NullDelay[p][n])
<1>1. TAKE n \in Peers(p)
<1>2. now[p] \in Nat /\ NullDelay[p][n] \in Nat /\ nulls[p][n] \in Nat
  BY TypeFacts, PeerFacts
<1>3. now[p] + NullDelay[p][n] \in Nat /\ t + NullDelay[p][n] \in Nat
      /\ now[p] + NullDelay[p][n] <= t + NullDelay[p][n]
  BY <1>2
<1>4. Clip(now[p] + NullDelay[p][n]) <= Clip(t + NullDelay[p][n])
      /\ Clip(now[p] + NullDelay[p][n]) \in Nat /\ Clip(t + NullDelay[p][n]) \in Nat
  BY <1>3, ClipFacts
<1>5. nulls[p][n] <= Clip(now[p] + NullDelay[p][n])
  BY DEF Clock
<1> QED BY <1>2, <1>4, <1>5

LEMMA UserEventKeeps ==
  ASSUME Inv, NEW p \in Tasks, UserEvent(p)
  PROVE  TypeOK' /\ Others(p) /\ Keeps(p) /\ UNCHANGED <<channel, guarantee>>
<1>1. TypeOK /\ Clock(p)
  BY DEF Inv
<1>2. PICK t \in user[p] :
        /\ Process(p, t)
        /\ user' = [user EXCEPT ![p] = @ \ {t}]
        /\ phase' = [phase EXCEPT ![p] = "handling"]
        /\ UNCHANGED <<done, nulls, cancelled, safe, guarantee, channel, work>>
  BY DEF UserEvent
<1>3. /\ t \in Nat /\ now[p] <= t /\ t <= safe[p] /\ t <= StopTime
      /\ EventsAfter(p, t, Peers(p))
      /\ now' = [now EXCEPT ![p] = t]
  BY <1>1, <1>2, ProcessFacts
<1>4. TypeOK'
  BY <1>1, <1>2, <1>3 DEF TypeOK
<1>5. Others(p)
  BY <1>1, <1>2, <1>3 DEF Others, Same, TypeOK
<1>6. /\ user'[p] = user[p] \ {t} /\ now'[p] = t /\ phase'[p] = "handling"
      /\ done' = done /\ nulls' = nulls /\ cancelled' = cancelled /\ safe' = safe
      /\ guarantee' = guarantee
  BY <1>1, <1>2, <1>3 DEF TypeOK
<1>7. Clock(p)'
  BY <1>1, <1>3, <1>6, LaterClock DEF Clock, EventsAfter, After
<1>8. ASSUME NEW n \in Peers(p), NEW X \in Int, Promised(p, n, X)
      PROVE  Promised(p, n, X)'
  <2>1. CASE Free(p, n, X)
    BY <1>2, <1>6, <1>8, <2>1 DEF Promised, Free, EventsAfter, After
  <2>2. CASE Busy(p, n, X)
    BY <1>6, <1>8, <2>2 DEF Promised, Busy
  <2> QED BY <1>8, <2>1, <2>2 DEF Promised
<1> QED BY <1>2, <1>4, <1>5, <1>7, <1>8 DEF Keeps

LEMMA TransmitCompleteKeeps ==
  ASSUME Inv, NEW p \in Tasks, TransmitComplete(p), OneLink
  PROVE  TypeOK' /\ Others(p) /\ Keeps(p) /\ UNCHANGED <<channel, guarantee>>
<1>1. TypeOK /\ Clock(p)
  BY DEF Inv
<1>2. PICK c \in Links :
        /\ done[p][c] # Idle
        /\ Process(p, done[p][c])
        /\ done' = [done EXCEPT ![p][c] = Idle]
        /\ phase' = [phase EXCEPT ![p] = "handling"]
        /\ UNCHANGED <<user, nulls, cancelled, safe, guarantee, channel, work>>
  BY DEF TransmitComplete
<1> DEFINE t == done[p][c]
<1>3. /\ t \in Nat /\ now[p] <= t /\ t <= safe[p] /\ t <= StopTime
      /\ EventsAfter(p, t, Peers(p))
      /\ now' = [now EXCEPT ![p] = t]
  BY <1>1, <1>2, ProcessFacts
<1>4. TypeOK'
  BY <1>1, <1>2, <1>3 DEF TypeOK
<1>5. Others(p)
  BY <1>1, <1>2, <1>3 DEF Others, Same, TypeOK
<1>6. /\ now'[p] = t /\ phase'[p] = "handling"
      /\ user' = user /\ nulls' = nulls /\ cancelled' = cancelled /\ safe' = safe
      /\ guarantee' = guarantee
      /\ \A e \in Links : done'[p][e] = IF e = c THEN Idle ELSE done[p][e]
  BY <1>1, <1>2, <1>3 DEF TypeOK
<1>7. Clock(p)'
  BY <1>1, <1>3, <1>6, LaterClock DEF Clock, EventsAfter, After
<1>8. ASSUME NEW n \in Peers(p), NEW X \in Int, Promised(p, n, X)
      PROVE  Promised(p, n, X)'
  <2>1. CASE X <= t
    <3>1. EventsAfter(p, X, Peers(p) \ {n})
      BY <1>1, <1>3, <2>1, AfterEarlier, PeersAreTasks, PeerFacts
    <3> QED BY <1>6, <1>8, <2>1, <3>1 DEF Promised, Free, EventsAfter, After
  <2>2. CASE Free(p, n, X)
    <3>1. X <= t
      BY <1>2, <2>2 DEF Free, EventsAfter, After
    <3> QED BY <2>1, <3>1
  <2>3. CASE Busy(p, n, X)
    <3>1. PICK e \in Channels[p][n] : done[p][e] # Idle /\ X <= done[p][e]
      BY <2>3 DEF Busy
    <3>2. CASE e = c
      BY <2>1, <3>1, <3>2
    <3>3. CASE e # c
      <4>1. e \in Links /\ done'[p][e] = done[p][e]
        BY <1>6, <3>3, PeerFacts
      <4> QED BY <1>6, <1>8, <2>3, <3>1, <4>1 DEF Promised, Busy
    <3> QED BY <3>2, <3>3
  <2> QED BY <1>8, <2>2, <2>3 DEF Promised
<1> QED BY <1>2, <1>4, <1>5, <1>7, <1>8 DEF Keeps

LEMMA CancelledEventKeeps ==
  ASSUME Inv, NEW p \in Tasks, CancelledEvent(p)
  PROVE  TypeOK' /\ Others(p) /\ Keeps(p) /\ UNCHANGED <<channel, guarantee>>
<1>1. TypeOK /\ Clock(p)
  BY DEF Inv
<1>2. PICK t \in cancelled[p] :
        /\ Process(p, t)
        /\ cancelled' = [cancelled EXCEPT ![p] = @ \ {t}]
        /\ phase' = [phase EXCEPT ![p] = "handled"]
        /\ UNCHANGED <<user, done, nulls, safe, guarantee, channel, work>>
  BY DEF CancelledEvent
<1>3. /\ t \in Nat /\ now[p] <= t /\ t <= safe[p] /\ t <= StopTime
      /\ EventsAfter(p, t, Peers(p))
      /\ now' = [now EXCEPT ![p] = t]
  BY <1>1, <1>2, ProcessFacts
<1>4. TypeOK'
  BY <1>1, <1>2, <1>3 DEF TypeOK
<1>5. Others(p)
  BY <1>1, <1>2, <1>3 DEF Others, Same, TypeOK
<1>6. /\ cancelled'[p] = cancelled[p] \ {t} /\ now'[p] = t /\ phase'[p] = "handled"
      /\ done' = done /\ nulls' = nulls /\ user' = user /\ safe' = safe
      /\ guarantee' = guarantee
  BY <1>1, <1>2, <1>3 DEF TypeOK
<1>7. Clock(p)'
  BY <1>1, <1>3, <1>6, LaterClock DEF Clock, EventsAfter, After
<1>8. \A n \in Peers(p) : \A X \in Int : Promised(p, n, X) => Promised(p, n, X)'
  BY <1>6 DEF Promised, Free, Busy, EventsAfter, After
<1> QED BY <1>2, <1>4, <1>5, <1>7, <1>8 DEF Keeps

LEMMA StopKeeps ==
  ASSUME Inv, NEW p \in Tasks, Stop(p)
  PROVE  TypeOK' /\ Others(p) /\ Keeps(p) /\ UNCHANGED <<channel, guarantee>>
<1>1. TypeOK /\ Clock(p)
  BY DEF Inv
<1>2. /\ Process(p, StopTime)
      /\ phase' = [phase EXCEPT ![p] = "stopped"]
      /\ UNCHANGED <<user, done, nulls, cancelled, safe, guarantee, channel, work>>
  BY DEF Stop
<1>3. /\ StopTime \in Nat /\ now[p] <= StopTime /\ StopTime <= safe[p]
      /\ EventsAfter(p, StopTime, Peers(p))
      /\ now' = [now EXCEPT ![p] = StopTime]
  BY <1>1, <1>2, ProcessFacts
<1>4. TypeOK'
  BY <1>1, <1>2, <1>3 DEF TypeOK
<1>5. Others(p)
  BY <1>1, <1>2, <1>3 DEF Others, Same, TypeOK
<1>6. /\ now'[p] = StopTime /\ phase'[p] = "stopped"
      /\ done' = done /\ nulls' = nulls /\ user' = user /\ safe' = safe
      /\ cancelled' = cancelled /\ guarantee' = guarantee
  BY <1>1, <1>2, <1>3 DEF TypeOK
<1>7. Clock(p)'
  BY <1>1, <1>3, <1>6, LaterClock DEF Clock, EventsAfter, After
<1>8. \A n \in Peers(p) : \A X \in Int : Promised(p, n, X) => Promised(p, n, X)'
  BY <1>6 DEF Promised, Free, Busy, EventsAfter, After
<1> QED BY <1>2, <1>4, <1>5, <1>7, <1>8 DEF Keeps

LEMMA ScheduleKeeps ==
  ASSUME Inv, NEW p \in Tasks, NEW delay \in TimerDelays, Schedule(p, delay)
  PROVE  TypeOK' /\ Others(p) /\ Keeps(p) /\ UNCHANGED <<channel, guarantee>>
<1>1. TypeOK /\ Clock(p)
  BY DEF Inv
<1>2. /\ phase[p] = "handling"
      /\ user' = [user EXCEPT ![p] = @ \cup InTime({now[p] + delay})]
      /\ work' = [work EXCEPT ![p] = @ + 1]
      /\ UNCHANGED <<phase, now, done, nulls, cancelled, safe, guarantee, channel>>
  BY DEF Schedule
<1>3. now[p] \in Nat /\ delay \in Nat /\ now[p] + delay \in Nat
      /\ \A t \in InTime({now[p] + delay}) : t = now[p] + delay
  BY <1>1, TypeFacts, NullAssumption DEF InTime
<1>4. TypeOK'
  <2>1. work' \in [Tasks -> Nat]
    BY <1>1, <1>2 DEF TypeOK
  <2>2. user' \in [Tasks -> SUBSET Nat]
    BY <1>1, <1>2, <1>3 DEF TypeOK
  <2> QED BY <1>1, <1>2, <2>1, <2>2 DEF TypeOK
<1>5. Others(p)
  BY <1>1, <1>2, <1>3 DEF Others, Same, TypeOK
<1>6. /\ \A t \in user'[p] : t \in user[p] \/ t = now[p] + delay
      /\ now' = now /\ phase' = phase
      /\ done' = done /\ nulls' = nulls /\ safe' = safe
      /\ cancelled' = cancelled /\ guarantee' = guarantee
  BY <1>1, <1>2, <1>3 DEF TypeOK
<1>7. Clock(p)'
  BY <1>1, <1>3, <1>6 DEF Clock, EventsAfter, After
<1>8. ASSUME NEW n \in Peers(p), NEW X \in Int, Promised(p, n, X)
      PROVE  Promised(p, n, X)'
  <2>1. CASE Free(p, n, X)
    <3>1. X <= now[p] /\ X <= now[p] + delay
      BY <1>2, <1>3, <2>1 DEF Free
    <3> QED BY <1>6, <1>8, <2>1, <3>1 DEF Promised, Free, EventsAfter, After
  <2>2. CASE Busy(p, n, X)
    BY <1>6, <1>8, <2>2 DEF Promised, Busy
  <2> QED BY <1>8, <2>1, <2>2 DEF Promised
<1> QED BY <1>2, <1>4, <1>5, <1>7, <1>8 DEF Keeps

(***************************************************************************)
(* A message is sent to one peer: it is not earlier than what that peer    *)
(* was promised, and what it promises is kept; so is what the other peers  *)
(* were promised.                                                          *)
(***************************************************************************)
Posts(p) ==
  \E n \in Peers(p) : \E m \in Messages :
    /\ channel' = [channel EXCEPT ![p][n] = Append(@, m)]
    /\ Promised(p, n, m.guarantee - BundleDelay[p][n])'
    /\ \A X \in Int : Promised(p, n, X) =>
         /\ X + BundleDelay[p][n] <= m.guarantee
         /\ m.rx # NoPacket => X + BundleDelay[p][n] <= m.rx
    /\ \A k \in Peers(p) \ {n} : \A X \in Int : Promised(p, k, X) => Promised(p, k, X)'

LEMMA MessageOf ==
  ASSUME NEW rx \in Nat, NEW g \in Nat
  PROVE  /\ Message(rx, g) \in Messages
         /\ Message(rx, g).rx = rx /\ Message(rx, g).guarantee = g
  BY DEF Message, Messages

LEMMA PostTypes ==
  ASSUME TypeOK, NEW p \in Tasks, NEW n \in Tasks, NEW m \in Messages
  PROVE  [channel EXCEPT ![p][n] = Append(@, m)] \in [Tasks -> [Tasks -> Seq(Messages)]]
<1>1. channel \in [Tasks -> [Tasks -> Seq(Messages)]]
  BY DEF TypeOK, Messages
<1>2. Append(channel[p][n], m) \in Seq(Messages)
  BY <1>1
<1> QED BY <1>1, <1>2

LEMMA NullMessageKeeps ==
  ASSUME Inv, NEW p \in Tasks, NullMessageEventHandler(p)
  PROVE  TypeOK' /\ Others(p) /\ Clock(p)' /\ Posts(p) /\ guarantee' = guarantee
<1>1. TypeOK /\ Clock(p)
  BY DEF Inv
<1>2. PICK n \in Peers(p) :
        /\ Process(p, nulls[p][n])
        /\ \E next \in Events(p, Peers(p) \ {n}) :
             /\ IsLeast(next, Events(p, Peers(p) \ {n}))
             /\ Post(p, n, Message(NoPacket, Guarantee(p, n, next)))
        /\ nulls' = [nulls EXCEPT ![p][n] = Clip(@ + NullDelay[p][n])]
        /\ phase' = [phase EXCEPT ![p] = "handled"]
        /\ UNCHANGED <<user, done, cancelled, safe, guarantee, work>>
  BY DEF NullMessageEventHandler
<1>3. PICK next \in Events(p, Peers(p) \ {n}) :
        /\ \A e \in Events(p, Peers(p) \ {n}) : next <= e
        /\ Post(p, n, Message(NoPacket, Guarantee(p, n, next)))
  BY <1>2 DEF IsLeast
<1> DEFINE B == Peers(p) \ {n}
<1>0. B \in SUBSET Tasks /\ B \in SUBSET Peers(p)
  BY PeersAreTasks
<1>a. PICK t : t = nulls[p][n]
  OBVIOUS
<1>b. PICK Y : Y = Least(next, safe[p])
  OBVIOUS
<1>c. PICK later : later = Clip(t + NullDelay[p][n])
  OBVIOUS
<1>d. PICK m : m = Message(NoPacket, Guarantee(p, n, next))
  OBVIOUS
<1>4. /\ t \in Nat /\ now[p] <= t /\ t <= safe[p] /\ t <= StopTime
      /\ EventsAfter(p, t, Peers(p))
      /\ now' = [now EXCEPT ![p] = t]
  BY <1>1, <1>2, <1>a, ProcessFacts
<1>5. /\ n \in Tasks /\ NullDelay[p][n] \in Nat /\ BundleDelay[p][n] \in Nat
      /\ safe[p] \in Nat /\ StopTime \in Nat
  BY <1>1, PeerFacts, TypeFacts
<1>6. EventsAfter(p, t, B)
  BY <1>0, <1>1, <1>4, AfterEarlier, PeersAreTasks
<1>7. next \in Nat /\ t <= next
  <2>1. next \in Events(p, B) /\ t \in Int
    BY <1>3, <1>4
  <2> HIDE DEF B
  <2>2. \A e \in Events(p, B) : e \in Nat /\ t <= e
    BY <1>0, <1>1, <1>6, <2>1, AfterFacts
  <2> QED BY <2>1, <2>2
<1>8. EventsAfter(p, next, B)
  <2>1. next \in Int /\ \A e \in Events(p, B) : next <= e
    BY <1>3, <1>7
  <2> HIDE DEF B
  <2> QED BY <1>0, <1>1, <2>1, EventsFacts
<1>9. /\ Y \in Nat /\ Y <= next /\ Y <= safe[p]
      /\ \A X \in Int : X <= next /\ X <= safe[p] => X <= Y
      /\ Guarantee(p, n, next) = Y + BundleDelay[p][n]
  BY <1>5, <1>7, <1>b DEF Least, Guarantee
<1>10. later \in Nat /\ t <= later
  BY <1>4, <1>5, <1>c, ClipFacts
<1>11. m \in Messages /\ m.rx = NoPacket /\ m.guarantee = Y + BundleDelay[p][n]
  <2>1. Y + BundleDelay[p][n] \in Nat /\ NoPacket \in Nat
    BY <1>5, <1>9 DEF NoPacket
  <2> QED BY <1>9, <1>d, <2>1, MessageOf
<1>12. channel' = [channel EXCEPT ![p][n] = Append(@, m)]
  BY <1>3, <1>d DEF Post
<1>13. TypeOK'
  <2>1. channel' \in [Tasks -> [Tasks -> Seq([rx : Nat, guarantee : Nat])]]
    BY <1>1, <1>5, <1>11, <1>12, PostTypes DEF Messages
  <2>2. nulls' \in [Tasks -> [Tasks -> Nat]]
    BY <1>1, <1>2, <1>5, <1>10, <1>a, <1>c DEF TypeOK
  <2> QED BY <1>1, <1>2, <1>4, <2>1, <2>2 DEF TypeOK
<1>14. Others(p)
  BY <1>1, <1>2, <1>4 DEF Others, Same, TypeOK
<1>15. /\ now'[p] = t /\ phase'[p] = "handled" /\ nulls'[p][n] = later
       /\ \A k \in Tasks \ {n} : nulls'[p][k] = nulls[p][k]
       /\ user' = user /\ done' = done /\ cancelled' = cancelled /\ safe' = safe
       /\ guarantee' = guarantee
  BY <1>1, <1>2, <1>4, <1>5, <1>a, <1>c DEF TypeOK
<1>16. \A k \in Peers(p) : k \in Tasks
  BY PeersAreTasks
<1>17. Clock(p)'
  <2>1. \A k \in Peers(p) : nulls[p][k] <= Clip(t + NullDelay[p][k])
    BY <1>1, <1>4, LaterClock
  <2>2. EventsAfter(p, now[p], Peers(p))'
    BY <1>4, <1>10, <1>15, <1>16 DEF EventsAfter, After
  <2>3. \A k \in Peers(p) : nulls'[p][k] <= Clip(t + NullDelay[p][k])
    BY <2>1, <1>10, <1>15, <1>16, <1>c
  <2> QED BY <1>1, <1>4, <1>15, <2>2, <2>3 DEF Clock
<1>18. Promised(p, n, Y)'
  <2>1. EventsAfter(p, Y, B)'
    BY <1>1, <1>7, <1>8, <1>9, <1>15, <1>16, TypeFacts DEF EventsAfter, After
  <2> QED BY <1>9, <1>15, <2>1 DEF Promised, Free
<1>19. ASSUME NEW X \in Int, Promised(p, n, X)
       PROVE  X <= Y
  <2>1. X <= safe[p]
    BY <1>19 DEF Promised
  <2>2. CASE Free(p, n, X)
    BY <1>0, <1>1, <1>3, <1>9, <2>1, <2>2, AfterFacts DEF Free
  <2>3. CASE Busy(p, n, X)
    BY <1>4, <1>7, <1>9, <1>a, <2>1, <2>3 DEF Busy
  <2> QED BY <1>19, <2>2, <2>3 DEF Promised
<1>20. ASSUME NEW k \in Peers(p) \ {n}, NEW X \in Int, Promised(p, k, X)
       PROVE  Promised(p, k, X)'
  <2>1. CASE Free(p, k, X)
    <3>1. X <= later
      BY <1>4, <1>10, <1>20, <1>a, <2>1 DEF Free, EventsAfter, After
    <3>2. EventsAfter(p, X, Peers(p) \ {k})'
      BY <1>15, <1>16, <2>1, <3>1 DEF Free, EventsAfter, After
    <3> QED BY <1>15, <1>20, <3>2 DEF Promised, Free
  <2>2. CASE Busy(p, k, X)
    BY <1>15, <1>16, <1>20, <2>2 DEF Promised, Busy
  <2> QED BY <1>20, <2>1, <2>2 DEF Promised
<1>21. Posts(p)
  <2>1. m.guarantee - BundleDelay[p][n] = Y
    BY <1>5, <1>9, <1>11
  <2>2. \A X \in Int : Promised(p, n, X) => X + BundleDelay[p][n] <= m.guarantee
    BY <1>5, <1>9, <1>11, <1>19
  <2>3. Promised(p, n, m.guarantee - BundleDelay[p][n])'
    BY <1>18, <2>1
  <2> QED BY <1>11, <1>12, <1>20, <2>2, <2>3 DEF Posts
<1> QED BY <1>2, <1>13, <1>14, <1>17, <1>21

LEMMA TransmitKeeps ==
  ASSUME Inv, OneLink, NEW p \in Tasks, NEW n \in Peers(p), NEW c \in Links, NEW tx \in TxTimes,
         Transmit(p, n, c, tx)
  PROVE  TypeOK' /\ Others(p) /\ Clock(p)' /\ Posts(p) /\ guarantee' = guarantee
<1>1. TypeOK /\ Clock(p)
  BY DEF Inv
<1>a. PICK end : end = Clip(now[p] + tx)
  OBVIOUS
<1>2. /\ phase[p] = "handling"
      /\ c \in Channels[p][n]
      /\ done[p][c] = Idle
      /\ done' = [done EXCEPT ![p][c] = end]
      /\ cancelled' = [cancelled EXCEPT ![p] = @ \cup InTime({nulls[p][n]})]
      /\ nulls' = [nulls EXCEPT ![p][n] = Clip(now[p] + NullDelay[p][n])]
      /\ work' = [work EXCEPT ![p] = @ + 1]
      /\ UNCHANGED <<phase, now, user, safe, guarantee>>
  BY <1>a DEF Transmit, Reschedule
<1>3. PICK next \in Events(p, Peers(p)) \cup {end} :
        /\ \A e \in Events(p, Peers(p)) \cup {end} : next <= e
        /\ Post(p, n, Message(now[p] + tx + ChannelDelay[c], Guarantee(p, n, next)))
  BY <1>a DEF Transmit, IsLeast
<1>b. PICK Y : Y = Least(next, safe[p])
  OBVIOUS
<1>c. PICK later : later = Clip(now[p] + NullDelay[p][n])
  OBVIOUS
<1>d. PICK m : m = Message(now[p] + tx + ChannelDelay[c], Guarantee(p, n, next))
  OBVIOUS
<1>4. /\ n \in Tasks /\ NullDelay[p][n] \in Nat /\ BundleDelay[p][n] \in Nat
      /\ ChannelDelay[c] \in Nat /\ BundleDelay[p][n] <= ChannelDelay[c]
      /\ now[p] \in Nat /\ safe[p] \in Nat /\ StopTime \in Nat /\ tx \in Nat
      /\ nulls[p][n] \in Nat
  BY <1>1, <1>2, PeerFacts, TypeFacts, NullAssumption
<1>5. \A k \in Peers(p) : k \in Tasks
  BY PeersAreTasks
<1>6. /\ now[p] <= safe[p] /\ now[p] <= StopTime /\ now[p] <= nulls[p][n]
      /\ EventsAfter(p, now[p], Peers(p))
  BY <1>1 DEF Clock, EventsAfter, After
<1>7. /\ end \in Nat /\ now[p] <= end
      /\ later \in Nat /\ now[p] <= later /\ nulls[p][n] <= later
  <2>1. /\ now[p] + tx \in Nat /\ now[p] <= now[p] + tx
        /\ now[p] + NullDelay[p][n] \in Nat /\ now[p] <= now[p] + NullDelay[p][n]
        /\ now[p] \in Int
    BY <1>4
  <2>2. /\ end \in Nat /\ now[p] <= end
    BY <1>a, <1>6, <2>1, ClipFacts
  <2>3. /\ later \in Nat /\ now[p] <= later
    BY <1>c, <1>6, <2>1, ClipFacts
  <2> QED BY <1>1, <1>c, <2>2, <2>3 DEF Clock
<1>8. next \in Nat /\ now[p] <= next
  <2>1. \A e \in Events(p, Peers(p)) : e \in Nat /\ now[p] <= e
    BY <1>1, <1>4, <1>6, AfterFacts, PeersAreTasks
  <2> QED BY <1>3, <1>7, <2>1
<1>9. next <= end /\ next <= nulls[p][n]
  BY <1>3 DEF Events
<1>10. /\ Y \in Nat /\ Y <= next /\ Y <= safe[p] /\ now[p] <= Y
       /\ Guarantee(p, n, next) = Y + BundleDelay[p][n]
  BY <1>4, <1>6, <1>8, <1>b DEF Least, Guarantee
<1>11. /\ m \in Messages /\ m.rx = now[p] + tx + ChannelDelay[c]
       /\ m.guarantee = Y + BundleDelay[p][n]
  <2>1. Y + BundleDelay[p][n] \in Nat /\ now[p] + tx + ChannelDelay[c] \in Nat
    BY <1>4, <1>10
  <2> QED BY <1>10, <1>d, <2>1, MessageOf
<1>12. channel' = [channel EXCEPT ![p][n] = Append(@, m)]
  BY <1>3, <1>d DEF Post
<1>13. TypeOK'
  <2>1. channel' \in [Tasks -> [Tasks -> Seq([rx : Nat, guarantee : Nat])]]
    BY <1>1, <1>4, <1>11, <1>12, PostTypes DEF Messages
  <2>2. nulls' \in [Tasks -> [Tasks -> Nat]]
    BY <1>1, <1>2, <1>4, <1>7, <1>c DEF TypeOK
  <2>3. done' \in [Tasks -> [Links -> Nat \cup {Idle}]]
    BY <1>1, <1>2, <1>7 DEF TypeOK
  <2>4. cancelled' \in [Tasks -> SUBSET Nat]
    BY <1>1, <1>2, <1>4 DEF TypeOK, InTime
  <2>5. work' \in [Tasks -> Nat]
    BY <1>1, <1>2 DEF TypeOK
  <2> QED BY <1>1, <1>2, <2>1, <2>2, <2>3, <2>4, <2>5 DEF TypeOK
<1>14. Others(p)
  BY <1>1, <1>2 DEF Others, Same, TypeOK
<1>15. /\ now' = now /\ phase' = phase /\ user' = user /\ safe' = safe /\ guarantee' = guarantee
       /\ nulls'[p][n] = later
       /\ \A k \in Tasks \ {n} : nulls'[p][k] = nulls[p][k]
       /\ done'[p][c] = end
       /\ \A e \in Links \ {c} : done'[p][e] = done[p][e]
       /\ \A t \in cancelled'[p] : t \in cancelled[p] \/ t = nulls[p][n]
  <2>1. nulls'[p][n] = later /\ \A k \in Tasks \ {n} : nulls'[p][k] = nulls[p][k]
    BY <1>1, <1>2, <1>4, <1>c DEF TypeOK
  <2>2. done'[p][c] = end /\ \A e \in Links \ {c} : done'[p][e] = done[p][e]
    BY <1>1, <1>2 DEF TypeOK
  <2>3. \A t \in cancelled'[p] : t \in cancelled[p] \/ t = nulls[p][n]
    BY <1>1, <1>2 DEF TypeOK, InTime
  <2> QED BY <1>2, <2>1, <2>2, <2>3
<1>16. ASSUME NEW X \in Int, NEW B \in SUBSET Peers(p), EventsAfter(p, X, B),
              X <= nulls[p][n], X <= now[p]
       PROVE  EventsAfter(p, X, B)'
  <2>1. X <= later /\ X <= end
    BY <1>4, <1>7, <1>16
  <2> QED BY <1>5, <1>15, <1>16, <2>1 DEF EventsAfter, After
<1>17. Clock(p)'
  <2>1. EventsAfter(p, now[p], Peers(p))'
    BY <1>4, <1>6, <1>15, <1>16
  <2>2. \A k \in Peers(p) : nulls'[p][k] <= Clip(now[p] + NullDelay[p][k])
    <3>1. \A k \in Peers(p) \ {n} : nulls'[p][k] <= Clip(now[p] + NullDelay[p][k])
      BY <1>1, <1>5, <1>15 DEF Clock
    <3>2. nulls'[p][n] <= Clip(now[p] + NullDelay[p][n])
      BY <1>7, <1>15, <1>c
    <3> QED BY <3>1, <3>2
  <2> QED BY <1>1, <1>15, <2>1, <2>2 DEF Clock
<1>18. Promised(p, n, Y)'
  <2>1. Busy(p, n, Y)'
    BY <1>2, <1>4, <1>7, <1>9, <1>8, <1>10, <1>15 DEF Busy, Idle
  <2> QED BY <1>10, <1>15, <2>1 DEF Promised
<1>19. ASSUME NEW X \in Int, Promised(p, n, X)
       PROVE  X <= now[p]
  <2>1. ~Busy(p, n, X)
    BY <1>2, <1>4, OneLink DEF Busy, OneLink
  <2> QED BY <1>2, <1>19, <2>1 DEF Promised, Free
<1>20. ASSUME NEW k \in Peers(p) \ {n}, NEW X \in Int, Promised(p, k, X)
       PROVE  Promised(p, k, X)'
  <2>1. CASE Free(p, k, X)
    <3>1. X <= now[p] /\ X <= nulls[p][n]
      BY <1>2, <1>4, <1>6, <2>1 DEF Free
    <3>2. EventsAfter(p, X, Peers(p) \ {k})'
      BY <1>16, <2>1, <3>1 DEF Free
    <3> QED BY <1>15, <1>20, <3>1, <3>2 DEF Promised, Free
  <2>2. CASE Busy(p, k, X)
    <3>1. PICK e \in Channels[p][k] : done[p][e] # Idle /\ X <= done[p][e]
      BY <2>2 DEF Busy
    <3>2. e \in Links \ {c}
      BY <1>2, <3>1, PeerFacts
    <3> QED BY <1>5, <1>15, <1>20, <2>2, <3>1, <3>2 DEF Promised, Busy
  <2> QED BY <1>20, <2>1, <2>2 DEF Promised
<1>21. Posts(p)
  <2>1. m.guarantee - BundleDelay[p][n] = Y
    BY <1>4, <1>10, <1>11
  <2>2. \A X \in Int : Promised(p, n, X) =>
          X + BundleDelay[p][n] <= m.guarantee /\ X + BundleDelay[p][n] <= m.rx
    BY <1>4, <1>10, <1>11, <1>19
  <2>3. Promised(p, n, m.guarantee - BundleDelay[p][n])'
    BY <1>18, <2>1
  <2> QED BY <1>11, <1>12, <1>20, <2>2, <2>3 DEF Posts
<1> QED BY <1>2, <1>13, <1>14, <1>17, <1>21

(***************************************************************************)
(* Messages are taken: what the peers have promised is what they had       *)
(* promised, and nothing that is taken is earlier than the safe time.      *)
(***************************************************************************)
Receives(p) ==
  /\ \A n \in Peers(p) :
       /\ Ordered(guarantee[p][n], channel[n][p])'
       /\ Promise(n, p)' = Promise(n, p)
  /\ \A l, n \in Tasks : n # p => channel'[l][n] = channel[l][n] /\ guarantee'[n][l] = guarantee[n][l]

LEMMA TakeKeeps ==
  ASSUME Inv, NEW p \in Tasks, NEW k \in [Peers(p) -> Nat],
         \A n \in Peers(p) : k[n] <= Len(channel[n][p]),
         TakeMessages(p, k), CalculateSafeTime(p),
         phase' = [phase EXCEPT ![p] = "ready"],
         UNCHANGED <<now, done, nulls, cancelled, work>>
  PROVE  TypeOK' /\ Others(p) /\ Keeps(p) /\ Receives(p)
<1>1. TypeOK /\ Clock(p)
  BY DEF Inv
<1>2. \A n \in Peers(p) :
        /\ n \in Tasks /\ p \in Peers(n)
        /\ guarantee[p][n] \in Nat /\ channel[n][p] \in Seq(Messages)
        /\ Ordered(guarantee[p][n], channel[n][p])
        /\ k[n] \in 0 .. Len(channel[n][p])
  <2>1. TAKE n \in Peers(p)
  <2>2. n \in Tasks /\ p \in Peers(n)
    BY PeerFacts
  <2>3. Ordered(guarantee[p][n], channel[n][p])
    BY <2>2 DEF Inv, Link
  <2>4. guarantee[p][n] \in Nat /\ channel[n][p] \in Seq(Messages)
    BY <1>1, <2>2, TypeFacts
  <2>5. k[n] \in Nat /\ k[n] <= Len(channel[n][p]) /\ Len(channel[n][p]) \in Nat
    BY <2>4
  <2> QED BY <2>2, <2>3, <2>4, <2>5
<1>3. /\ \A n \in Peers(p) : channel'[n][p] = Rest(channel[n][p], k[n])
      /\ \A l, n \in Tasks : ~(n = p /\ l \in Peers(p)) => channel'[l][n] = channel[l][n]
      /\ channel' \in [Tasks -> [Tasks -> Seq(Messages)]]
  <2>1. channel' = [n \in Tasks |-> [m \in Tasks |->
           IF m = p /\ n \in Peers(p) THEN Rest(channel[n][p], k[n]) ELSE channel[n][m]]]
    BY DEF TakeMessages, Rest
  <2>2. \A n \in Peers(p) : Rest(channel[n][p], k[n]) \in Seq(Messages)
    BY <1>2, TakeOrdered
  <2>3. \A l, n \in Tasks : channel[l][n] \in Seq(Messages)
    BY <1>1 DEF TypeOK, Messages
  <2> HIDE DEF Rest
  <2> QED BY <1>2, <2>1, <2>2, <2>3
<1>4. /\ \A n \in Peers(p) : guarantee'[p][n] = Taken(guarantee[p][n], channel[n][p], k[n])
      /\ \A n \in Tasks \ Peers(p) : guarantee'[p][n] = guarantee[p][n]
      /\ \A n \in Tasks : n # p => guarantee'[n] = guarantee[n]
      /\ DOMAIN guarantee' = Tasks
      /\ guarantee'[p] = [n \in Tasks |-> guarantee'[p][n]]
  BY <1>1, <1>2 DEF TakeMessages, Taken, TypeOK
<1>5. \A n \in Peers(p) :
        /\ guarantee'[p][n] \in Nat
        /\ guarantee[p][n] <= guarantee'[p][n]
        /\ Ordered(guarantee'[p][n], channel'[n][p])
        /\ LastGuarantee(guarantee'[p][n], channel'[n][p]) = LastGuarantee(guarantee[p][n], channel[n][p])
        /\ NoneBefore(guarantee[p][n], channel[n][p], k[n])
  <2>1. TAKE n \in Peers(p)
  <2> DEFINE g == guarantee[p][n]
             ch == channel[n][p]
  <2>2. /\ g \in Nat /\ ch \in Seq(Messages) /\ Ordered(g, ch) /\ k[n] \in 0 .. Len(ch)
        /\ channel'[n][p] = Rest(ch, k[n]) /\ guarantee'[p][n] = Taken(g, ch, k[n])
    BY <1>2, <1>3, <1>4
  <2> HIDE DEF g, ch
  <2>3. /\ Taken(g, ch, k[n]) \in Nat
        /\ g <= Taken(g, ch, k[n])
        /\ Ordered(Taken(g, ch, k[n]), Rest(ch, k[n]))
        /\ LastGuarantee(Taken(g, ch, k[n]), Rest(ch, k[n])) = LastGuarantee(g, ch)
        /\ NoneBefore(g, ch, k[n])
    BY <2>2, TakeOrdered
  <2> QED BY <2>2, <2>3 DEF g, ch
<1>6. guarantee' \in [Tasks -> [Tasks -> Nat]]
  <2>1. guarantee'[p] \in [Tasks -> Nat]
    <3>1. \A n \in Tasks : guarantee'[p][n] \in Nat
      <4>1. \A n \in Tasks : guarantee[p][n] \in Nat
        BY <1>1, TypeFacts
      <4>2. TAKE n \in Tasks
      <4>3. CASE n \in Peers(p)
        BY <1>5, <4>3
      <4>4. CASE n \notin Peers(p)
        BY <1>4, <4>1, <4>4
      <4> QED BY <4>3, <4>4
    <3>2. [n \in Tasks |-> guarantee'[p][n]] \in [Tasks -> Nat]
      BY <3>1
    <3> QED BY <1>4, <3>2
  <2>2. guarantee' = [guarantee EXCEPT ![p] = guarantee'[p]]
    BY <1>1 DEF TakeMessages, TypeOK
  <2> QED BY <1>1, <2>1, <2>2 DEF TypeOK
<1>7. PICK s \in GetSafeTime(p, guarantee'[p]) : safe' = [safe EXCEPT ![p] = s]
  BY DEF CalculateSafeTime
<1>8. PICK m \in Peers(p) : s = guarantee'[p][m] /\ \A n \in Peers(p) : s <= guarantee'[p][n]
  BY <1>7 DEF GetSafeTime
<1>9. safe[p] \in Nat /\ now[p] \in Nat /\ s \in Nat /\ safe[p] <= s /\ safe'[p] = s
  <2>1. safe[p] \in Nat /\ now[p] \in Nat
    BY <1>1, TypeFacts
  <2>2. s \in Nat /\ guarantee[p][m] <= s /\ guarantee[p][m] \in Nat /\ safe[p] <= guarantee[p][m]
    BY <1>1, <1>2, <1>5, <1>8 DEF Clock
  <2>3. safe'[p] = s
    BY <1>1, <1>7 DEF TypeOK
  <2> QED BY <2>1, <2>2, <2>3
<1> DEFINE Times(n) == {channel[n][p][i].rx : i \in 1 .. k[n]}
           arrived == (UNION {Times(n) : n \in Peers(p)}) \ {NoPacket}
<1>10. \A t \in arrived : t \in Nat /\ safe[p] <= t
  <2>1. TAKE t \in arrived
  <2> HIDE DEF Times
  <2>2. PICK n \in Peers(p) : t \in Times(n) /\ t # NoPacket
    OBVIOUS
  <2> USE DEF Times
  <2>3. t \in Nat /\ guarantee[p][n] <= t
    <3>1. \A i \in 1 .. k[n] :
            /\ channel[n][p][i].rx \in Nat
            /\ channel[n][p][i].rx # NoPacket => guarantee[p][n] <= channel[n][p][i].rx
      <4>1. NoneBefore(guarantee[p][n], channel[n][p], k[n])
        BY <1>5
      <4> QED BY <4>1 DEF NoneBefore
    <3>2. \E i \in 1 .. k[n] : t = channel[n][p][i].rx
      BY <2>2
    <3> QED BY <2>2, <3>1, <3>2
  <2>4. safe[p] <= guarantee[p][n] /\ guarantee[p][n] \in Nat
    BY <1>1, <1>2 DEF Clock
  <2> QED BY <1>9, <2>3, <2>4
<1>11. user' = [user EXCEPT ![p] = @ \cup InTime(arrived)]
  BY DEF TakeMessages
<1> HIDE DEF arrived
<1>12. user' \in [Tasks -> SUBSET Nat] /\ \A t \in user'[p] : t \in user[p] \/ t \in arrived
  BY <1>1, <1>10, <1>11 DEF TypeOK, InTime
<1>13. TypeOK'
  <2>1. channel' \in [Tasks -> [Tasks -> Seq([rx : Nat, guarantee : Nat])]]
    BY <1>3 DEF Messages
  <2>2. safe' \in [Tasks -> Nat]
    BY <1>1, <1>7, <1>9 DEF TypeOK
  <2>3. phase' \in [Tasks -> {"ready", "handling", "handled", "stopped"}]
    BY <1>1 DEF TypeOK
  <2> QED BY <1>1, <1>6, <1>12, <2>1, <2>2, <2>3 DEF TypeOK
<1>14. Others(p)
  BY <1>1, <1>7, <1>11 DEF Others, Same, TypeOK
<1>15. now' = now /\ done' = done /\ nulls' = nulls /\ cancelled' = cancelled /\ phase'[p] = "ready"
  BY <1>1 DEF TypeOK
<1>16. ASSUME NEW X \in Int, NEW B, X <= safe[p], EventsAfter(p, X, B)
       PROVE  EventsAfter(p, X, B)'
  BY <1>9, <1>10, <1>12, <1>15, <1>16 DEF EventsAfter, After
<1>17. Clock(p)'
  <2>1. EventsAfter(p, now[p], Peers(p))'
    BY <1>1, <1>9, <1>16, <1>15 DEF Clock
  <2> QED BY <1>1, <1>8, <1>9, <1>15, <2>1 DEF Clock
<1>18. ASSUME NEW n \in Peers(p), NEW X \in Int, Promised(p, n, X)
       PROVE  Promised(p, n, X)'
  <2>1. X <= safe[p] /\ X <= safe'[p]
    BY <1>9, <1>18 DEF Promised
  <2>2. CASE Free(p, n, X)
    <3>1. EventsAfter(p, X, Peers(p) \ {n})'
      BY <1>16, <2>1, <2>2 DEF Free
    <3> QED BY <1>15, <2>1, <3>1 DEF Promised, Free
  <2>3. CASE Busy(p, n, X)
    BY <1>15, <2>1, <2>3 DEF Promised, Busy
  <2> QED BY <1>18, <2>2, <2>3 DEF Promised
<1>19. Receives(p)
  <2>1. \A l, n \in Tasks : n # p => channel'[l][n] = channel[l][n] /\ guarantee'[n][l] = guarantee[n][l]
    BY <1>3, <1>4
  <2> QED BY <1>5, <2>1 DEF Receives, Promise
<1> QED BY <1>13, <1>14, <1>17, <1>18, <1>19 DEF Keeps

LEMMA ReceiveKeeps ==
  ASSUME Inv, NEW p \in Tasks,
         HandleArrivingMessagesNonBlocking(p) \/ HandleArrivingMessagesBlocking(p)
  PROVE  TypeOK' /\ Others(p) /\ Keeps(p) /\ Receives(p)
<1>1. TypeOK
  BY DEF Inv
<1>2. CASE HandleArrivingMessagesNonBlocking(p)
  <2>1. PICK k \in [Peers(p) -> 0 .. MessageBound] :
          /\ \A n \in Peers(p) : k[n] <= Len(channel[n][p])
          /\ TakeMessages(p, k)
    BY <1>2 DEF HandleArrivingMessagesNonBlocking
  <2>2. k \in [Peers(p) -> Nat]
    <3>1. \A x \in 0 .. MessageBound : x \in Nat
      OBVIOUS
    <3> QED BY <3>1
  <2> QED BY <1>2, <2>1, <2>2, TakeKeeps DEF HandleArrivingMessagesNonBlocking
<1>3. CASE HandleArrivingMessagesBlocking(p)
  <2>1. PICK n \in Peers(p) :
          /\ channel[n][p] # <<>>
          /\ TakeMessages(p, [m \in Peers(p) |-> IF m = n THEN 1 ELSE 0])
    BY <1>3 DEF HandleArrivingMessagesBlocking
  <2> DEFINE k == [m \in Peers(p) |-> IF m = n THEN 1 ELSE 0]
  <2>2. k \in [Peers(p) -> Nat]
    OBVIOUS
  <2>3. \A m \in Peers(p) : k[m] <= Len(channel[m][p])
    <3>1. \A m \in Peers(p) : channel[m][p] \in Seq(Messages)
      BY <1>1, PeerFacts, TypeFacts
    <3>2. Len(channel[n][p]) \in Nat /\ Len(channel[n][p]) > 0
      BY <2>1, <3>1
    <3> QED BY <3>1, <3>2
  <2>4. phase' = [phase EXCEPT ![p] = "ready"]
    BY <1>1, <1>3 DEF HandleArrivingMessagesBlocking, TypeOK
  <2>5. TakeMessages(p, k) /\ CalculateSafeTime(p) /\ UNCHANGED <<now, done, nulls, cancelled, work>>
    BY <1>3, <2>1 DEF HandleArrivingMessagesBlocking
  <2> HIDE DEF k
  <2> QED BY <2>2, <2>3, <2>4, <2>5, TakeKeeps
<1> QED BY <1>2, <1>3

-----------------------------------------------------------------------------
(***************************************************************************)
(* The invariant holds at the start and every step keeps it.               *)
(***************************************************************************)
LEMMA InvInit == ASSUME Init PROVE Inv
<1>1. \A l, n \in Tasks : NullDelay[l][n] \in Nat /\ BundleDelay[l][n] \in Nat
  BY NullAssumption
<1>2. \A l, n \in Tasks : Clip(NullDelay[l][n]) \in Nat
  BY <1>1, ClipFacts
<1>3. \A l, n \in Tasks : Message(NoPacket, BundleDelay[l][n]) \in Messages
                        /\ Message(NoPacket, BundleDelay[l][n]).rx = NoPacket
                        /\ Message(NoPacket, BundleDelay[l][n]).guarantee = BundleDelay[l][n]
  <2>1. NoPacket \in Nat
    BY DEF NoPacket
  <2> QED BY <1>1, <2>1, MessageOf
<1>4. TypeOK
  <2>1. channel \in [Tasks -> [Tasks -> Seq(Messages)]]
    <3>1. channel = [l \in Tasks |-> [n \in Tasks |->
             IF n \in Peers(l) THEN <<Message(NoPacket, BundleDelay[l][n])>> ELSE <<>>]]
      BY DEF Init
    <3>2. \A l, n \in Tasks : <<Message(NoPacket, BundleDelay[l][n])>> \in Seq(Messages)
      BY <1>3
    <3>3. <<>> \in Seq(Messages)
      OBVIOUS
    <3> QED BY <3>1, <3>2, <3>3
  <2>2. user \in [Tasks -> SUBSET Nat]
    BY NullAssumption DEF Init
  <2>3. nulls \in [Tasks -> [Tasks -> Nat]]
    BY <1>2 DEF Init
  <2> QED BY <2>1, <2>2, <2>3 DEF Init, TypeOK, Idle, Messages
<1>5. \A l \in Tasks :
        /\ now[l] = 0 /\ safe[l] = 0 /\ cancelled[l] = {} /\ phase[l] = "ready"
        /\ \A c \in Links : done[l][c] = Idle
        /\ \A n \in Tasks : nulls[l][n] = Clip(NullDelay[l][n]) /\ guarantee[l][n] = 0
  BY DEF Init
<1>6. \A l \in Tasks : \A B \in SUBSET Tasks : EventsAfter(l, 0, B)
  BY <1>4, <1>5, TypeFacts DEF EventsAfter, After
<1>7. ASSUME NEW l \in Tasks PROVE Clock(l)
  <2>1. \A n \in Peers(l) : nulls[l][n] <= Clip(now[l] + NullDelay[l][n]) /\ safe[l] <= guarantee[l][n]
    BY <1>1, <1>2, <1>5, PeersAreTasks
  <2> QED BY <1>5, <1>6, <2>1, PeersAreTasks DEF Clock
<1>8. ASSUME NEW l \in Tasks, NEW n \in Peers(l) PROVE Link(l, n)
  <2>1. n \in Tasks /\ l \in Tasks
    BY PeersAreTasks
  <2>2. PICK m \in Messages : m = Message(NoPacket, BundleDelay[l][n])
    BY <1>3, <2>1
  <2>3. channel[l][n] = <<m>> /\ guarantee[n][l] = 0
    BY <1>5, <2>1, <2>2 DEF Init
  <2>4. m.rx = NoPacket /\ m.guarantee = BundleDelay[l][n] /\ BundleDelay[l][n] \in Nat
    BY <1>1, <1>3, <2>1, <2>2
  <2>5. Ordered(0, <<m>>)
    <3>1. Len(<<m>>) = 1 /\ \A i \in 1 .. 1 : i = 1 /\ <<m>>[i] = m /\ \A j \in 1 .. i - 1 : FALSE
      OBVIOUS
    <3> QED BY <2>4, <3>1 DEF Ordered
  <2>6. Promise(l, n) - BundleDelay[l][n] = 0
    BY <2>3, <2>4 DEF Promise, LastGuarantee
  <2>7. Promised(l, n, 0)
    BY <1>5, <1>6, PeersAreTasks DEF Promised, Free
  <2> QED BY <2>3, <2>5, <2>6, <2>7 DEF Link
<1> QED BY <1>4, <1>7, <1>8 DEF Inv

LEMMA PromiseIsNat ==
  ASSUME Inv, NEW l \in Tasks, NEW n \in Peers(l)
  PROVE  /\ Promise(l, n) \in Nat /\ BundleDelay[l][n] \in Nat
         /\ Promise(l, n) - BundleDelay[l][n] \in Int
         /\ Promised(l, n, Promise(l, n) - BundleDelay[l][n])
<1>1. TypeOK /\ Link(l, n) /\ n \in Tasks /\ BundleDelay[l][n] \in Nat
  BY PeerFacts DEF Inv
<1>2. Promise(l, n) \in Nat
  BY <1>1, TypeFacts, LastIsLargest DEF Promise, Link
<1> QED BY <1>1, <1>2 DEF Link

LEMMA SameKeeps ==
  ASSUME NEW l \in Tasks, Same(l)
  PROVE  /\ Clock(l) /\ guarantee'[l] = guarantee[l] => Clock(l)'
         /\ \A n \in Peers(l), X \in Int : Promised(l, n, X) => Promised(l, n, X)'
  BY DEF Same, Clock, Promised, Free, Busy, EventsAfter, After

LEMMA LinkStays ==
  ASSUME Inv, NEW l \in Tasks, NEW n \in Peers(l),
         Ordered(guarantee[n][l], channel[l][n])',
         Promise(l, n)' = Promise(l, n),
         \A X \in Int : Promised(l, n, X) => Promised(l, n, X)'
  PROVE  Link(l, n)'
<1> DEFINE X == Promise(l, n) - BundleDelay[l][n]
<1>1. PICK x \in Int : x = Promise(l, n) - BundleDelay[l][n]
  BY PromiseIsNat
<1>2. Promised(l, n, x)'
  BY <1>1, PromiseIsNat
<1>3. (Promise(l, n) - BundleDelay[l][n])' = x
  BY <1>1
<1> QED BY <1>2, <1>3 DEF Link

(***************************************************************************)
(* A step that sends nothing and takes nothing.                            *)
(***************************************************************************)
LEMMA QuietKeeps ==
  ASSUME Inv, NEW p \in Tasks, TypeOK', Others(p), Keeps(p), UNCHANGED <<channel, guarantee>>
  PROVE  Inv'
<1>1. ASSUME NEW l \in Tasks PROVE Clock(l)'
  <2>1. CASE l = p
    BY <2>1 DEF Keeps
  <2>2. CASE l # p
    BY <2>2, SameKeeps DEF Others, Inv
  <2> QED BY <2>1, <2>2
<1>2. ASSUME NEW l \in Tasks, NEW n \in Peers(l) PROVE Link(l, n)'
  <2>1. \A X \in Int : Promised(l, n, X) => Promised(l, n, X)'
    <3>1. CASE l = p
      BY <3>1 DEF Keeps
    <3>2. CASE l # p
      BY <3>2, SameKeeps DEF Others
    <3> QED BY <3>1, <3>2
  <2>2. Ordered(guarantee[n][l], channel[l][n])'
    BY DEF Inv, Link
  <2>3. Promise(l, n)' = Promise(l, n)
    BY DEF Promise
  <2> QED BY <2>1, <2>2, <2>3, LinkStays
<1> QED BY <1>1, <1>2 DEF Inv

LEMMA PostKeeps ==
  ASSUME Inv, NEW p \in Tasks, TypeOK', Others(p), Clock(p)', Posts(p), guarantee' = guarantee
  PROVE  Inv'
<1>1. ASSUME NEW l \in Tasks PROVE Clock(l)'
  <2>1. CASE l # p
    BY <2>1, SameKeeps DEF Others, Inv
  <2> QED BY <2>1
<1>2. PICK n \in Peers(p), m \in Messages :
        /\ channel' = [channel EXCEPT ![p][n] = Append(@, m)]
        /\ Promised(p, n, m.guarantee - BundleDelay[p][n])'
        /\ \A X \in Int : Promised(p, n, X) =>
             /\ X + BundleDelay[p][n] <= m.guarantee
             /\ m.rx # NoPacket => X + BundleDelay[p][n] <= m.rx
        /\ \A k \in Peers(p) \ {n} : \A X \in Int : Promised(p, k, X) => Promised(p, k, X)'
  BY DEF Posts
<1>3. n \in Tasks /\ TypeOK
  BY PeerFacts DEF Inv
<1>4. channel'[p][n] = Append(channel[p][n], m)
      /\ \A l, k \in Tasks : ~(l = p /\ k = n) => channel'[l][k] = channel[l][k]
  BY <1>2, <1>3 DEF TypeOK
<1>5. Link(p, n)'
  <2> DEFINE g == guarantee[n][p]
             ch == channel[p][n]
  <2>1. g \in Nat /\ ch \in Seq(Messages) /\ Ordered(g, ch) /\ Promise(p, n) = LastGuarantee(g, ch)
    BY <1>3, TypeFacts DEF Inv, Link, Promise
  <2>2. /\ LastGuarantee(g, ch) <= m.guarantee
        /\ m.rx # NoPacket => LastGuarantee(g, ch) <= m.rx
    <3>1. PICK x \in Int : x = Promise(p, n) - BundleDelay[p][n] /\ Promised(p, n, x)
      BY PromiseIsNat
    <3>2. x + BundleDelay[p][n] = LastGuarantee(g, ch)
      BY <2>1, <3>1, PromiseIsNat
    <3> QED BY <1>2, <3>1, <3>2
  <2> HIDE DEF g, ch
  <2>3. Ordered(g, Append(ch, m)) /\ LastGuarantee(g, Append(ch, m)) = m.guarantee
    BY <2>1, <2>2, AppendOrdered
  <2>4. guarantee'[n][p] = g /\ channel'[p][n] = Append(ch, m)
    BY <1>4 DEF g, ch
  <2>5. Ordered(guarantee'[n][p], channel'[p][n]) /\ Promise(p, n)' = m.guarantee
    BY <2>3, <2>4 DEF Promise
  <2> QED BY <1>2, <2>5 DEF Link
<1>6. ASSUME NEW l \in Tasks, NEW k \in Peers(l) PROVE Link(l, k)'
  <2>1. CASE l = p /\ k = n
    BY <1>5, <2>1
  <2>2. CASE ~(l = p /\ k = n)
    <3>1. \A X \in Int : Promised(l, k, X) => Promised(l, k, X)'
      <4>1. CASE l = p
        BY <1>2, <2>2, <4>1
      <4>2. CASE l # p
        BY <4>2, SameKeeps DEF Others
      <4> QED BY <4>1, <4>2
    <3>2. channel'[l][k] = channel[l][k] /\ guarantee'[k][l] = guarantee[k][l]
      BY <1>4, <2>2, PeersAreTasks
    <3>3. Ordered(guarantee[k][l], channel[l][k])' /\ Promise(l, k)' = Promise(l, k)
      BY <3>2 DEF Inv, Link, Promise
    <3> QED BY <3>1, <3>3, LinkStays
  <2> QED BY <2>1, <2>2
<1> QED BY <1>1, <1>6 DEF Inv

LEMMA ReceivesKeeps ==
  ASSUME Inv, NEW p \in Tasks, TypeOK', Others(p), Keeps(p), Receives(p)
  PROVE  Inv'
<1>1. ASSUME NEW l \in Tasks PROVE Clock(l)'
  <2>1. CASE l = p
    BY <2>1 DEF Keeps
  <2>2. CASE l # p
    <3>1. \A n \in Peers(l) : guarantee'[l][n] = guarantee[l][n]
      BY <2>2, PeersAreTasks DEF Receives
    <3> QED BY <2>2, <3>1 DEF Others, Inv, Same, Clock, EventsAfter, After
  <2> QED BY <2>1, <2>2
<1>2. ASSUME NEW l \in Tasks, NEW n \in Peers(l) PROVE Link(l, n)'
  <2>1. n \in Tasks /\ l \in Peers(n)
    BY PeerFacts
  <2>2. \A X \in Int : Promised(l, n, X) => Promised(l, n, X)'
    <3>1. CASE l = p
      BY <3>1 DEF Keeps
    <3>2. CASE l # p
      BY <3>2, SameKeeps DEF Others
    <3> QED BY <3>1, <3>2
  <2>3. Ordered(guarantee[n][l], channel[l][n])' /\ Promise(l, n)' = Promise(l, n)
    <3>1. CASE n = p
      BY <2>1, <3>1 DEF Receives
    <3>2. CASE n # p
      <4>1. channel'[l][n] = channel[l][n] /\ guarantee'[n][l] = guarantee[n][l]
        BY <2>1, <3>2 DEF Receives
      <4> QED BY <4>1 DEF Inv, Link, Promise
    <3> QED BY <3>1, <3>2
  <2> QED BY <2>2, <2>3, LinkStays
<1> QED BY <1>1, <1>2 DEF Inv

LEMMA StepKeeps ==
  ASSUME Inv, OneLink, NEW p \in Tasks, Step(p)
  PROVE  Inv'
<1>1. CASE UserEvent(p)
  BY <1>1, UserEventKeeps, QuietKeeps
<1>2. CASE TransmitComplete(p)
  BY <1>2, TransmitCompleteKeeps, QuietKeeps
<1>3. CASE CancelledEvent(p)
  BY <1>3, CancelledEventKeeps, QuietKeeps
<1>4. CASE NullMessageEventHandler(p)
  BY <1>4, NullMessageKeeps, PostKeeps
<1>5. CASE Stop(p)
  BY <1>5, StopKeeps, QuietKeeps
<1>6. CASE \E delay \in TimerDelays : Schedule(p, delay)
  BY <1>6, ScheduleKeeps, QuietKeeps
<1>7. CASE \E n \in Peers(p), c \in Links, tx \in TxTimes : Transmit(p, n, c, tx)
  BY <1>7, TransmitKeeps, PostKeeps
<1>8. CASE HandleArrivingMessagesNonBlocking(p) \/ HandleArrivingMessagesBlocking(p)
  BY <1>8, ReceiveKeeps, ReceivesKeeps
<1> QED BY <1>1, <1>2, <1>3, <1>4, <1>5, <1>6, <1>7, <1>8 DEF Step

LEMMA InvNext ==
  ASSUME Inv, OneLink, [Next]_vars
  PROVE  Inv'
<1>1. CASE Next
  BY <1>1, StepKeeps DEF Next
<1>2. CASE UNCHANGED vars
  <2>1. TypeOK' /\ \A l \in Tasks : Same(l)
    BY <1>2 DEF Inv, vars, TypeOK, Same
  <2>2. ASSUME NEW l \in Tasks PROVE Clock(l)'
    BY <1>2, <2>1, SameKeeps DEF Inv, vars
  <2>3. ASSUME NEW l \in Tasks, NEW n \in Peers(l) PROVE Link(l, n)'
    <3>1. Ordered(guarantee[n][l], channel[l][n])' /\ Promise(l, n)' = Promise(l, n)
      BY <1>2 DEF Inv, Link, Promise, vars
    <3> QED BY <2>1, <3>1, SameKeeps, LinkStays
  <2> QED BY <2>1, <2>2, <2>3 DEF Inv
<1> QED BY <1>1, <1>2

-----------------------------------------------------------------------------
(***************************************************************************)
(* For any tasks, topology, delays and times, and with any number of       *)
(* events and messages: no packet is received before a time its receiver   *)
(* was guaranteed (CalculateGuaranteeTime and what the user of it sends).  *)
(***************************************************************************)
THEOREM PacketsKeepGuarantees ==
  ASSUME OneLink
  PROVE  Spec => []GuaranteeIsKept
<1>1. Init => Inv
  BY InvInit
<1>2. Inv /\ [Next]_vars => Inv'
  BY InvNext
<1>3. Inv => GuaranteeIsKept
  <2> SUFFICES ASSUME Inv, NEW l \in Tasks, NEW n \in Peers(l), NEW i \in DOMAIN channel[l][n],
                      channel[l][n][i].rx # NoPacket
               PROVE  /\ guarantee[n][l] <= channel[l][n][i].rx
                      /\ \A j \in 1 .. i - 1 : channel[l][n][j].guarantee <= channel[l][n][i].rx
    BY DEF GuaranteeIsKept
  <2>1. n \in Tasks /\ TypeOK /\ Ordered(guarantee[n][l], channel[l][n])
    BY PeerFacts DEF Inv, Link
  <2>2. i \in 1 .. Len(channel[l][n])
    BY <2>1, TypeFacts
  <2> QED BY <2>1, <2>2 DEF Ordered
<1> QED BY <1>1, <1>2, <1>3, PTL DEF Spec

(***************************************************************************)
(* Under the same conditions no task is ahead of an event of its own, of a *)
(* message under way to it or of its safe time (ProcessOneEvent,           *)
(* SetGuaranteeTime, CalculateSafeTime).                                   *)
(***************************************************************************)
THEOREM TasksStayCausal ==
  ASSUME OneLink
  PROVE  Spec => []Causality
<1>1. Init => Inv
  BY InvInit
<1>2. Inv /\ [Next]_vars => Inv'
  BY InvNext
<1>3. Inv => Causality
  <2> SUFFICES ASSUME Inv, NEW l \in Tasks
               PROVE  /\ now[l] <= safe[l]
                      /\ \A t \in Events(l, Peers(l)) : now[l] <= t
                      /\ \A n \in Peers(l) : \A i \in DOMAIN channel[n][l] :
                           /\ now[l] <= channel[n][l][i].guarantee
                           /\ channel[n][l][i].rx # NoPacket => now[l] <= channel[n][l][i].rx
    BY DEF Causality
  <2>1. TypeOK /\ Clock(l) /\ now[l] \in Nat /\ safe[l] \in Nat
    BY TypeFacts DEF Inv
  <2>2. \A t \in Events(l, Peers(l)) : now[l] <= t
    BY <2>1, AfterFacts, PeersAreTasks DEF Clock
  <2>3. ASSUME NEW n \in Peers(l), NEW i \in DOMAIN channel[n][l]
        PROVE  /\ now[l] <= channel[n][l][i].guarantee
               /\ channel[n][l][i].rx # NoPacket => now[l] <= channel[n][l][i].rx
    <3>1. n \in Tasks /\ l \in Peers(n)
      BY PeerFacts
    <3>2. /\ channel[n][l] \in Seq(Messages) /\ guarantee[l][n] \in Nat
          /\ Ordered(guarantee[l][n], channel[n][l])
      BY <2>1, <3>1, TypeFacts DEF Inv, Link
    <3>3. /\ i \in 1 .. Len(channel[n][l])
          /\ channel[n][l][i].rx \in Nat /\ channel[n][l][i].guarantee \in Nat
      BY <3>2, MessageFacts
    <3>4. now[l] <= guarantee[l][n]
      BY <2>1, <3>2 DEF Clock
    <3>5. /\ guarantee[l][n] <= channel[n][l][i].guarantee
          /\ channel[n][l][i].rx # NoPacket => guarantee[l][n] <= channel[n][l][i].rx
      BY <3>2, <3>3 DEF Ordered
    <3> QED BY <2>1, <3>2, <3>3, <3>4, <3>5
  <2> QED BY <2>1, <2>2, <2>3 DEF Clock
<1> QED BY <1>1, <1>2, <1>3, PTL DEF Spec

-----------------------------------------------------------------------------
(***************************************************************************)
(* The tasks never all wait for each other.  The invariant: what a task    *)
(* has promised a peer is not behind its next null message to it, the safe *)
(* time of a task is the guarantee of one of its peers, and a task that    *)
(* has stopped did so at the stop time.                                    *)
(***************************************************************************)
Due(l) ==
  /\ \A n \in Peers(l) : nulls[l][n] <= Promise(l, n)
  /\ \E n \in Peers(l) : safe[l] = guarantee[l][n]
  /\ phase[l] = "stopped" => now[l] = StopTime

DueInv == Inv /\ \A l \in Tasks : Due(l)

(***************************************************************************)
(* A task without a peer never hears of a time that is safe.               *)
(***************************************************************************)
EachHasPeer == \A l \in Tasks : Peers(l) # {}

LEMMA QuietDue ==
  ASSUME DueInv, NEW p \in Tasks, Others(p), UNCHANGED <<channel, guarantee, nulls, safe>>,
         phase'[p] = "stopped" => now'[p] = StopTime
  PROVE  \A l \in Tasks : Due(l)'
<1>1. TAKE l \in Tasks
<1>2. \A n \in Peers(l) : Promise(l, n)' = Promise(l, n)
  BY DEF Promise
<1>3. Due(l)
  BY DEF DueInv
<1>4. phase'[l] = "stopped" => now'[l] = StopTime
  BY <1>3 DEF Others, Same, Due
<1> QED BY <1>2, <1>3, <1>4 DEF Due

LEMMA PostDue ==
  ASSUME DueInv, NEW p \in Tasks, Others(p), NEW n \in Peers(p), NEW m \in Messages,
         channel' = [channel EXCEPT ![p][n] = Append(@, m)],
         UNCHANGED <<guarantee, safe>>,
         nulls'[p][n] <= m.guarantee,
         \A k \in Tasks \ {n} : nulls'[p][k] = nulls[p][k],
         phase'[p] # "stopped"
  PROVE  \A l \in Tasks : Due(l)'
<1>1. TypeOK /\ n \in Tasks
  BY PeerFacts DEF DueInv, Inv
<1>2. /\ channel'[p][n] = Append(channel[p][n], m)
      /\ \A l, k \in Tasks : ~(l = p /\ k = n) => channel'[l][k] = channel[l][k]
  BY <1>1 DEF TypeOK
<1>3. Promise(p, n)' = m.guarantee
  <2>1. channel[p][n] \in Seq(Messages)
    BY <1>1, TypeFacts
  <2>2. /\ Len(Append(channel[p][n], m)) = Len(channel[p][n]) + 1
        /\ Len(channel[p][n]) \in Nat
        /\ Append(channel[p][n], m)[Len(channel[p][n]) + 1] = m
    BY <2>1
  <2>3. LastGuarantee(guarantee[n][p], Append(channel[p][n], m)) = m.guarantee
    BY <2>2 DEF LastGuarantee
  <2> QED BY <1>2, <2>3 DEF Promise
<1>4. ASSUME NEW l \in Tasks
      PROVE  Due(l)'
  <2>1. Due(l)
    BY DEF DueInv
  <2>2. ASSUME NEW k \in Peers(l)
        PROVE  nulls'[l][k] <= Promise(l, k)'
    <3>1. k \in Tasks
      BY PeersAreTasks
    <3>2. CASE l = p /\ k = n
      BY <1>3, <3>2
    <3>3. CASE ~(l = p /\ k = n)
      <4>1. nulls'[l][k] = nulls[l][k]
        BY <3>1, <3>3 DEF Others, Same
      <4>2. Promise(l, k)' = Promise(l, k)
        BY <1>2, <3>1, <3>3 DEF Promise
      <4> QED BY <2>1, <4>1, <4>2 DEF Due
    <3> QED BY <3>2, <3>3
  <2>3. phase'[l] = "stopped" => now'[l] = StopTime
    BY <2>1 DEF Others, Same, Due
  <2> QED BY <2>1, <2>2, <2>3 DEF Due
<1> QED BY <1>4

LEMMA NullMessageDue ==
  ASSUME DueInv, NEW p \in Tasks, NullMessageEventHandler(p), Others(p)
  PROVE  \A l \in Tasks : Due(l)'
<1>1. TypeOK /\ Clock(p)
  BY DEF DueInv, Inv
<1>2. PICK n \in Peers(p) :
        /\ Process(p, nulls[p][n])
        /\ \E next \in Events(p, Peers(p) \ {n}) :
             Post(p, n, Message(NoPacket, Guarantee(p, n, next)))
        /\ nulls' = [nulls EXCEPT ![p][n] = Clip(@ + NullDelay[p][n])]
        /\ phase' = [phase EXCEPT ![p] = "handled"]
        /\ UNCHANGED <<safe, guarantee>>
  BY DEF NullMessageEventHandler
<1>3. PICK next \in Events(p, Peers(p) \ {n}) :
        Post(p, n, Message(NoPacket, Guarantee(p, n, next)))
  BY <1>2
<1>a. PICK t : t = nulls[p][n]
  OBVIOUS
<1>4. /\ t \in Nat /\ t <= safe[p] /\ t <= StopTime
      /\ EventsAfter(p, t, Peers(p))
  BY <1>1, <1>2, <1>a, ProcessFacts
<1>5. /\ n \in Tasks /\ NullDelay[p][n] \in Nat /\ BundleDelay[p][n] \in Nat
      /\ NullDelay[p][n] <= BundleDelay[p][n] /\ safe[p] \in Nat /\ StopTime \in Nat
  BY <1>1, PeerFacts, TypeFacts, NullAssumption
<1>6. next \in Nat /\ t <= next
  <2>1. Peers(p) \ {n} \in SUBSET Peers(p) /\ Peers(p) \in SUBSET Tasks
    BY PeersAreTasks
  <2>2. EventsAfter(p, t, Peers(p) \ {n})
    BY <1>4 DEF EventsAfter, After
  <2>3. Peers(p) \ {n} \in SUBSET Tasks
    BY <2>1
  <2> QED BY <1>1, <1>3, <1>4, <2>2, <2>3, AfterFacts
<1>7. Guarantee(p, n, next) \in Nat /\ t + NullDelay[p][n] <= Guarantee(p, n, next)
  BY <1>4, <1>5, <1>6 DEF Guarantee, Least
<1>8. PICK m \in Messages : m = Message(NoPacket, Guarantee(p, n, next))
                            /\ m.guarantee = Guarantee(p, n, next)
  <2>1. NoPacket \in Nat
    BY DEF NoPacket
  <2> QED BY <1>7, <2>1, MessageOf
<1>9. /\ nulls'[p][n] = Clip(t + NullDelay[p][n])
      /\ \A k \in Tasks \ {n} : nulls'[p][k] = nulls[p][k]
      /\ phase'[p] = "handled"
  BY <1>1, <1>2, <1>5, <1>a DEF TypeOK
<1>10. nulls'[p][n] <= m.guarantee
  <2>1. Clip(t + NullDelay[p][n]) <= t + NullDelay[p][n]
    BY <1>4, <1>5 DEF Clip
  <2>2. t + NullDelay[p][n] \in Nat /\ Clip(t + NullDelay[p][n]) \in Nat
    BY <1>4, <1>5, ClipFacts
  <2> QED BY <1>7, <1>8, <1>9, <2>1, <2>2
<1>11. channel' = [channel EXCEPT ![p][n] = Append(@, m)]
  BY <1>3, <1>8 DEF Post
<1>12. phase'[p] # "stopped" /\ UNCHANGED <<guarantee, safe>>
  BY <1>2, <1>9
<1> QED BY <1>9, <1>10, <1>11, <1>12, PostDue

LEMMA TransmitDue ==
  ASSUME DueInv, NEW p \in Tasks, NEW n \in Peers(p), NEW c \in Links, NEW tx \in TxTimes,
         Transmit(p, n, c, tx), Others(p)
  PROVE  \A l \in Tasks : Due(l)'
<1>1. TypeOK /\ Clock(p)
  BY DEF DueInv, Inv
<1>2. /\ phase[p] = "handling"
      /\ c \in Channels[p][n]
      /\ nulls' = [nulls EXCEPT ![p][n] = Clip(now[p] + NullDelay[p][n])]
      /\ UNCHANGED <<phase, safe, guarantee>>
  BY DEF Transmit, Reschedule
<1>3. PICK next \in Events(p, Peers(p)) \cup {Clip(now[p] + tx)} :
        Post(p, n, Message(now[p] + tx + ChannelDelay[c], Guarantee(p, n, next)))
  BY DEF Transmit
<1>4. /\ n \in Tasks /\ NullDelay[p][n] \in Nat /\ BundleDelay[p][n] \in Nat
      /\ NullDelay[p][n] <= BundleDelay[p][n]
      /\ ChannelDelay[c] \in Nat
      /\ now[p] \in Nat /\ safe[p] \in Nat /\ StopTime \in Nat /\ tx \in Nat
  BY <1>1, <1>2, PeerFacts, TypeFacts, NullAssumption
<1>5. now[p] <= safe[p] /\ now[p] <= StopTime /\ EventsAfter(p, now[p], Peers(p))
  BY <1>1 DEF Clock, EventsAfter, After
<1>6. next \in Nat /\ now[p] <= next
  <2>1. \A e \in Events(p, Peers(p)) : e \in Nat /\ now[p] <= e
    BY <1>1, <1>4, <1>5, AfterFacts, PeersAreTasks
  <2>2. Clip(now[p] + tx) \in Nat /\ now[p] <= Clip(now[p] + tx)
    BY <1>4, <1>5, ClipFacts
  <2> QED BY <1>3, <2>1, <2>2
<1>7. /\ Guarantee(p, n, next) \in Nat
      /\ now[p] + NullDelay[p][n] <= Guarantee(p, n, next)
  BY <1>4, <1>5, <1>6 DEF Guarantee, Least
<1>8. PICK m \in Messages :
        /\ m = Message(now[p] + tx + ChannelDelay[c], Guarantee(p, n, next))
        /\ m.guarantee = Guarantee(p, n, next)
  <2>1. now[p] + tx + ChannelDelay[c] \in Nat
    BY <1>4
  <2> QED BY <1>7, <2>1, MessageOf
<1>9. /\ nulls'[p][n] = Clip(now[p] + NullDelay[p][n])
      /\ \A k \in Tasks \ {n} : nulls'[p][k] = nulls[p][k]
  BY <1>1, <1>2, <1>4 DEF TypeOK
<1>10. nulls'[p][n] <= m.guarantee
  <2>1. Clip(now[p] + NullDelay[p][n]) <= now[p] + NullDelay[p][n]
    BY <1>4 DEF Clip
  <2>2. now[p] + NullDelay[p][n] \in Nat /\ Clip(now[p] + NullDelay[p][n]) \in Nat
    BY <1>4, ClipFacts
  <2> QED BY <1>7, <1>8, <1>9, <2>1, <2>2
<1>11. channel' = [channel EXCEPT ![p][n] = Append(@, m)]
  BY <1>3, <1>8 DEF Post
<1>12. phase'[p] # "stopped" /\ UNCHANGED <<guarantee, safe>>
  BY <1>2
<1> QED BY <1>9, <1>10, <1>11, <1>12, PostDue

LEMMA ReceiveDue ==
  ASSUME DueInv, NEW p \in Tasks, Others(p), Receives(p), TypeOK',
         HandleArrivingMessagesNonBlocking(p) \/ HandleArrivingMessagesBlocking(p)
  PROVE  \A l \in Tasks : Due(l)'
<1>1. TypeOK
  BY DEF DueInv, Inv
<1>2. /\ CalculateSafeTime(p)
      /\ nulls' = nulls
      /\ phase'[p] = "ready"
  BY <1>1 DEF HandleArrivingMessagesNonBlocking, HandleArrivingMessagesBlocking, TypeOK
<1>3. \E n \in Peers(p) : safe'[p] = guarantee'[p][n]
  BY <1>1, <1>2 DEF CalculateSafeTime, GetSafeTime, TypeOK
<1>4. ASSUME NEW l \in Tasks
      PROVE  Due(l)'
  <2>1. Due(l)
    BY DEF DueInv
  <2>2. ASSUME NEW k \in Peers(l)
        PROVE  nulls'[l][k] <= Promise(l, k)'
    <3>1. k \in Tasks /\ l \in Peers(k)
      BY PeerFacts
    <3>2. Promise(l, k)' = Promise(l, k)
      <4>1. CASE k = p
        BY <3>1, <4>1 DEF Receives
      <4>2. CASE k # p
        BY <3>1, <4>2 DEF Receives, Promise
      <4> QED BY <4>1, <4>2
    <3> QED BY <1>2, <2>1, <3>2 DEF Due
  <2>3. \E k \in Peers(l) : safe'[l] = guarantee'[l][k]
    <3>1. CASE l = p
      BY <1>3, <3>1
    <3>2. CASE l # p
      <4>1. safe'[l] = safe[l] /\ \A k \in Peers(l) : guarantee'[l][k] = guarantee[l][k]
        BY <3>2, PeersAreTasks DEF Others, Same, Receives
      <4> QED BY <2>1, <4>1 DEF Due
    <3> QED BY <3>1, <3>2
  <2>4. phase'[l] = "stopped" => now'[l] = StopTime
    BY <1>2, <2>1 DEF Others, Same, Due
  <2> QED BY <2>2, <2>3, <2>4 DEF Due
<1> QED BY <1>4

LEMMA DueInit ==
  ASSUME Init, EachHasPeer
  PROVE  DueInv
<1>1. Inv
  BY InvInit
<1>2. ASSUME NEW l \in Tasks
      PROVE  Due(l)
  <2>1. ASSUME NEW n \in Peers(l)
        PROVE  nulls[l][n] <= Promise(l, n)
    <3>1. /\ n \in Tasks /\ BundleDelay[l][n] \in Nat /\ NullDelay[l][n] \in Nat
          /\ NullDelay[l][n] <= BundleDelay[l][n]
      BY PeerFacts, NullAssumption
    <3>2. channel[l][n] = <<Message(NoPacket, BundleDelay[l][n])>>
      BY <3>1 DEF Init
    <3>3. NoPacket \in Nat
      BY DEF NoPacket
    <3>4. Promise(l, n) = BundleDelay[l][n]
      BY <3>1, <3>2, <3>3, MessageOf DEF Promise, LastGuarantee
    <3>5. nulls[l][n] = Clip(NullDelay[l][n])
      BY <3>1 DEF Init
    <3>6. Clip(NullDelay[l][n]) \in Nat /\ Clip(NullDelay[l][n]) <= NullDelay[l][n]
      BY <3>1, ClipFacts, NullAssumption DEF Clip
    <3> QED BY <3>1, <3>4, <3>5, <3>6
  <2>2. \E n \in Peers(l) : safe[l] = guarantee[l][n]
    BY PeersAreTasks DEF Init, EachHasPeer
  <2>3. phase[l] # "stopped"
    BY DEF Init
  <2> QED BY <2>1, <2>2, <2>3 DEF Due
<1> QED BY <1>1, <1>2 DEF DueInv

LEMMA DueStep ==
  ASSUME DueInv, OneLink, NEW p \in Tasks, Step(p)
  PROVE  DueInv'
<1>1. Inv /\ Inv' /\ TypeOK
  BY StepKeeps DEF DueInv, Inv
<1>2. CASE UserEvent(p)
  <2>1. Others(p) /\ UNCHANGED <<channel, guarantee, nulls, safe>> /\ phase'[p] = "handling"
    BY <1>1, <1>2, UserEventKeeps DEF UserEvent, TypeOK
  <2> QED BY <1>1, <2>1, QuietDue DEF DueInv
<1>3. CASE TransmitComplete(p)
  <2>1. Others(p) /\ UNCHANGED <<channel, guarantee, nulls, safe>> /\ phase'[p] = "handling"
    BY <1>1, <1>3, TransmitCompleteKeeps DEF TransmitComplete, TypeOK
  <2> QED BY <1>1, <2>1, QuietDue DEF DueInv
<1>4. CASE CancelledEvent(p)
  <2>1. Others(p) /\ UNCHANGED <<channel, guarantee, nulls, safe>> /\ phase'[p] = "handled"
    BY <1>1, <1>4, CancelledEventKeeps DEF CancelledEvent, TypeOK
  <2> QED BY <1>1, <2>1, QuietDue DEF DueInv
<1>5. CASE NullMessageEventHandler(p)
  <2>1. Others(p)
    BY <1>1, <1>5, NullMessageKeeps
  <2> QED BY <1>1, <1>5, <2>1, NullMessageDue DEF DueInv
<1>6. CASE Stop(p)
  <2>1. Others(p) /\ UNCHANGED <<channel, guarantee, nulls, safe>> /\ now'[p] = StopTime
    BY <1>1, <1>6, StopKeeps DEF Stop, Process, TypeOK
  <2> QED BY <1>1, <2>1, QuietDue DEF DueInv
<1>7. CASE \E delay \in TimerDelays : Schedule(p, delay)
  <2>1. Others(p) /\ UNCHANGED <<channel, guarantee, nulls, safe>> /\ phase'[p] = "handling"
    BY <1>1, <1>7, ScheduleKeeps DEF Schedule
  <2> QED BY <1>1, <2>1, QuietDue DEF DueInv
<1>8. CASE \E n \in Peers(p), c \in Links, tx \in TxTimes : Transmit(p, n, c, tx)
  <2>1. PICK n \in Peers(p), c \in Links, tx \in TxTimes : Transmit(p, n, c, tx)
    BY <1>8
  <2>2. Others(p)
    BY <1>1, <2>1, TransmitKeeps
  <2> QED BY <1>1, <2>1, <2>2, TransmitDue DEF DueInv
<1>9. CASE HandleArrivingMessagesNonBlocking(p) \/ HandleArrivingMessagesBlocking(p)
  <2>1. Others(p) /\ Receives(p) /\ TypeOK'
    BY <1>1, <1>9, ReceiveKeeps
  <2> QED BY <1>1, <1>9, <2>1, ReceiveDue DEF DueInv
<1> QED BY <1>2, <1>3, <1>4, <1>5, <1>6, <1>7, <1>8, <1>9 DEF Step

(***************************************************************************)
(* If all the running tasks waited, the one with the least safe time would *)
(* wait for a peer whose promise is that safe time.  A running peer's next *)
(* null message is due no later, yet is not safe for that peer: its safe   *)
(* time is less still.  And a peer that has stopped has promised the stop  *)
(* time, so that the task can stop too.                                    *)
(***************************************************************************)
LEMMA LeastRunning ==
  ASSUME TypeOK, Running # {}
  PROVE  \E l \in Running : \A n \in Running : safe[l] <= safe[n]
<1> DEFINE S == {safe[l] : l \in Running}
<1>1. S # {} /\ S \in SUBSET Nat
  BY DEF TypeOK, Running
<1>2. PICK s \in S : \A r \in S : s <= r
  <2>1. \A T \in SUBSET Nat : T # {} => \E x \in T : \A y \in T : <<y, x>> \notin OpToRel(<, Nat)
    BY NatLessThanWellFounded, WFMin
  <2>2. PICK x \in S : \A y \in S : <<y, x>> \notin OpToRel(<, Nat)
    BY <1>1, <2>1
  <2>3. \A y \in S : ~(y < x)
    BY <1>1, <2>2 DEF OpToRel
  <2>4. \A y \in S : x <= y
    BY <1>1, <2>3
  <2> QED BY <2>4
<1> QED BY <1>2

LEMMA DueFreesSomeTask ==
  ASSUME DueInv
  PROVE  NoDeadlock
<1> SUFFICES ASSUME Running # {}, \A l \in Running : Waits(l)
             PROVE  FALSE
  BY DEF NoDeadlock
<1>1. TypeOK /\ Inv
  BY DEF DueInv, Inv
<1>2. PICK l \in Running : \A n \in Running : safe[l] <= safe[n]
  BY <1>1, LeastRunning
<1>3. l \in Tasks /\ Waits(l) /\ Due(l)
  BY DEF Running, DueInv
<1>4. PICK n \in Peers(l) : safe[l] = guarantee[l][n]
  BY <1>3 DEF Due
<1>5. n \in Tasks /\ l \in Peers(n) /\ l \in Tasks
  BY <1>3, PeerFacts
<1>6. /\ safe[l] \in Nat /\ safe[n] \in Nat /\ nulls[n][l] \in Nat /\ StopTime \in Nat
  BY <1>1, <1>3, <1>5, TypeFacts
<1>7. Promise(n, l) = safe[l]
  BY <1>3, <1>4 DEF Waits, Promise, LastGuarantee
<1>8. nulls[n][l] <= safe[l]
  BY <1>5, <1>7 DEF DueInv, Due
<1>9. CASE n \in Running
  <2>1. nulls[n][l] > safe[n]
    BY <1>5, <1>9 DEF Waits, Events
  <2> QED BY <1>2, <1>6, <1>8, <1>9, <2>1
<1>10. CASE n \notin Running
  <2>1. now[n] = StopTime
    BY <1>5, <1>10 DEF DueInv, Due, Running
  <2>2. StopTime <= nulls[n][l]
    BY <1>1, <1>5, <2>1 DEF Inv, Clock, EventsAfter, After
  <2>3. StopTime > safe[l]
    BY <1>3 DEF Waits, Events
  <2> QED BY <1>6, <1>8, <2>2, <2>3
<1> QED BY <1>9, <1>10

(***************************************************************************)
(* For any tasks that have a peer each, with one link at most between two  *)
(* of them, and for any delays and times: as long as a task has not        *)
(* stopped, one that has not can go on, with an event that is safe or a    *)
(* message that has been sent to it.  The tasks do not deadlock, however   *)
(* late the messages arrive (HandleArrivingMessagesBlocking).              *)
(***************************************************************************)
THEOREM TasksDoNotDeadlock ==
  ASSUME OneLink, EachHasPeer
  PROVE  Spec => []NoDeadlock
<1>1. Init => DueInv
  BY DueInit
<1>2. DueInv /\ [Next]_vars => DueInv'
  <2>1. CASE Next
    BY <2>1, DueStep DEF Next
  <2>2. ASSUME DueInv, UNCHANGED vars
        PROVE  DueInv'
    <3>1. Inv'
      BY <2>2, InvNext DEF DueInv
    <3> QED BY <2>2, <3>1 DEF DueInv, Due, Promise, vars
  <2> QED BY <2>1, <2>2
<1>3. DueInv => NoDeadlock
  BY DueFreesSomeTask
<1> QED BY <1>1, <1>2, <1>3, PTL DEF Spec

=============================================================================
