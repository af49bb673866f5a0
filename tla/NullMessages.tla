---------------------------- MODULE NullMessages ----------------------------
(***************************************************************************)
(* The parallel simulator with null messages (mpi/model:                   *)
(* null-message-simulator-impl.cc, null-message-mpi-interface.cc,          *)
(* remote-channel-bundle*.cc).  Each logical process (an MPI task) runs    *)
(* its own event loop and may only process events up to its safe time, the *)
(* least of the times its neighbours guarantee not to send anything for;   *)
(* every message carries a guarantee, and null messages nothing else.      *)
(*                                                                         *)
(* A task is a process of its own: the steps of one event are steps of the *)
(* model, so that the others run in between.  Messages of a pair of tasks  *)
(* stay in order (MPI), when they arrive is open.                          *)
(***************************************************************************)
EXTENDS Integers, Sequences

CONSTANTS Tasks,        \* MPI ranks
          Channels,     \* the point to point links between two tasks, per pair
          ChannelDelay, \* the delay of a link
          BundleDelay,  \* RemoteChannelBundle::GetDelay, per pair
          NullDelay,    \* m_schedulerTune * BundleDelay
          TxTimes,      \* how long a packet may take to transmit
          TimerDelays,  \* the delays the program schedules events with
          FirstEvents,  \* the times of what is scheduled before Run, per task
          WorkBound,    \* bound: events the handlers of a task schedule and packets they send
          MessageBound, \* bound: messages of one peer taken at once
          StopTime      \* Simulator::Stop (StopTime), the same in every task

Links == UNION {Channels[l][n] : l, n \in Tasks}
Peers(l) == {n \in Tasks : Channels[l][n] # {}}

(***************************************************************************)
(* A bundle's delay is the least of its links'; m_schedulerTune is at most *)
(* 1 (the attribute's checker), and no delay is rounded to 0.              *)
(***************************************************************************)
ASSUME NullAssumption ==
  /\ StopTime \in Nat
  /\ TxTimes \subseteq Nat
  /\ TimerDelays \subseteq Nat
  /\ \A l \in Tasks : FirstEvents[l] \subseteq Nat
  /\ \A l, n \in Tasks : Channels[l][n] = Channels[n][l]
  /\ \A l \in Tasks : Channels[l][l] = {}
  /\ ChannelDelay \in [Links -> Nat]
  /\ BundleDelay \in [Tasks -> [Tasks -> Nat]]
  /\ NullDelay \in [Tasks -> [Tasks -> Nat]]
  /\ \A l \in Tasks : \A n \in Peers(l) :
       /\ NullDelay[l][n] \in 1 .. BundleDelay[l][n]
       /\ \A c \in Channels[l][n] : BundleDelay[l][n] <= ChannelDelay[c]

VARIABLES
  phase,     \* where Run is: "ready" at the top of its loop, "handling" an event of
             \* the program, has "handled" one, "stopped"
  now,       \* m_currentTs
  user,      \* the times of events of the program: timers, packets received
  done,      \* the time a device finishes to transmit, Idle if it does not
  nulls,     \* the time of the null message event of each bundle
  cancelled, \* the times of cancelled events, which stay in the list
  safe,      \* m_safeTime
  guarantee, \* m_guaranteeTime of each bundle
  channel,   \* messages under way, from -> to
  work       \* events scheduled and packets sent

vars == <<phase, now, user, done, nulls, cancelled, safe, guarantee, channel, work>>

-----------------------------------------------------------------------------
Idle == -1

(***************************************************************************)
(* Nothing happens after the stop: all later times are one, and an event   *)
(* that is never looked at again need not be kept.                         *)
(***************************************************************************)
Clip(t) == IF t <= StopTime THEN t ELSE StopTime + 1

InTime(S) == {t \in S : t <= StopTime}

Least(x, y) == IF x <= y THEN x ELSE y
IsLeast(x, S) == x \in S /\ \A y \in S : x <= y

(***************************************************************************)
(* A packet has the time it is received at, a null message NoPacket (0).   *)
(***************************************************************************)
NoPacket == 0
Message(rx, g) == [rx |-> rx, guarantee |-> g]

(***************************************************************************)
(* The event list of a task, the null message events of the bundles in B   *)
(* and the event that stops it included.                                   *)
(***************************************************************************)
TransmitTimes(l) == {done[l][c] : c \in {c \in Links : done[l][c] # Idle}}

Events(l, B) ==
  user[l] \cup cancelled[l] \cup TransmitTimes(l) \cup {nulls[l][n] : n \in B} \cup {StopTime}

IsNext(l, t) == IsLeast(t, Events(l, Peers(l)))

Init ==
  /\ phase = [l \in Tasks |-> "ready"]
  /\ now = [l \in Tasks |-> 0]
  /\ user = [l \in Tasks |-> FirstEvents[l]]
  /\ done = [l \in Tasks |-> [c \in Links |-> Idle]]
  /\ nulls = [l \in Tasks |-> [n \in Tasks |-> Clip(NullDelay[l][n])]]
  /\ cancelled = [l \in Tasks |-> {}]
  /\ safe = [l \in Tasks |-> 0]
  /\ work = [l \in Tasks |-> 0]
  /\ guarantee = [l \in Tasks |-> [n \in Tasks |-> 0]]
  /\ channel = [l \in Tasks |-> [n \in Tasks |->
       IF n \in Peers(l) THEN <<Message(NoPacket, BundleDelay[l][n])>> ELSE <<>>]]

(***************************************************************************)
(* CalculateGuaranteeTime: what is sent from now on leaves with the next   *)
(* event, or with one a message causes that is still to come.              *)
(***************************************************************************)
WrongGuarantee(l, n, next) ==  \* mutant: messages that may still come are forgotten
  next + BundleDelay[l][n]

Guarantee(l, n, next) == Least(next, safe[l]) + BundleDelay[l][n]

Post(l, n, m) == channel' = [channel EXCEPT ![l][n] = Append(@, m)]

-----------------------------------------------------------------------------
(***************************************************************************)
(* ProcessOneEvent, for each kind of event.                                *)
(***************************************************************************)
Process(l, t) ==
  /\ phase[l] = "ready"
  /\ IsNext(l, t)
  /\ t <= safe[l]
  /\ now' = [now EXCEPT ![l] = t]

UserEvent(l) ==
  \E t \in user[l] :
    /\ Process(l, t)
    /\ user' = [user EXCEPT ![l] = @ \ {t}]
    /\ phase' = [phase EXCEPT ![l] = "handling"]
    /\ UNCHANGED <<done, nulls, cancelled, safe, guarantee, channel, work>>

TransmitComplete(l) ==
  \E c \in Links :
    /\ done[l][c] # Idle
    /\ Process(l, done[l][c])
    /\ done' = [done EXCEPT ![l][c] = Idle]
    /\ phase' = [phase EXCEPT ![l] = "handling"]
    /\ UNCHANGED <<user, nulls, cancelled, safe, guarantee, channel, work>>

CancelledEvent(l) ==
  \E t \in cancelled[l] :
    /\ Process(l, t)
    /\ cancelled' = [cancelled EXCEPT ![l] = @ \ {t}]
    /\ phase' = [phase EXCEPT ![l] = "handled"]
    /\ UNCHANGED <<user, done, nulls, safe, guarantee, channel, work>>

NullMessageEventHandler(l) ==
  \E n \in Peers(l) :
    /\ Process(l, nulls[l][n])
    /\ \E next \in Events(l, Peers(l) \ {n}) :
         /\ IsLeast(next, Events(l, Peers(l) \ {n}))
         /\ Post(l, n, Message(NoPacket, Guarantee(l, n, next)))
    /\ nulls' = [nulls EXCEPT ![l][n] = Clip(@ + NullDelay[l][n])]
    /\ phase' = [phase EXCEPT ![l] = "handled"]
    /\ UNCHANGED <<user, done, cancelled, safe, guarantee, work>>

Stop(l) ==
  /\ Process(l, StopTime)
  /\ phase' = [phase EXCEPT ![l] = "stopped"]
  /\ UNCHANGED <<user, done, nulls, cancelled, safe, guarantee, channel, work>>

-----------------------------------------------------------------------------
(***************************************************************************)
(* What the handler of an event does: it schedules events and starts to    *)
(* transmit on devices that are idle.  TransmitStart of the device         *)
(* schedules its end first; SendPacket then sends the packet with a        *)
(* guarantee, which stands for the null message that was due.              *)
(***************************************************************************)
Schedule(l, delay) ==
  /\ phase[l] = "handling"
  /\ work[l] < WorkBound[l]
  /\ user' = [user EXCEPT ![l] = @ \cup InTime({now[l] + delay})]
  /\ work' = [work EXCEPT ![l] = @ + 1]
  /\ UNCHANGED <<phase, now, done, nulls, cancelled, safe, guarantee, channel>>

WrongReschedule(l, n) ==  \* mutant: the event is cancelled and not scheduled again
  /\ cancelled' = [cancelled EXCEPT ![l] = @ \cup InTime({nulls[l][n]})]
  /\ nulls' = [nulls EXCEPT ![l][n] = StopTime + 1]

Reschedule(l, n) ==
  /\ cancelled' = [cancelled EXCEPT ![l] = @ \cup InTime({nulls[l][n]})]
  /\ nulls' = [nulls EXCEPT ![l][n] = Clip(now[l] + NullDelay[l][n])]

Transmit(l, n, c, tx) ==
  LET end == Clip(now[l] + tx)
      events == Events(l, Peers(l)) \cup {end}
  IN /\ phase[l] = "handling"
     /\ c \in Channels[l][n]
     /\ done[l][c] = Idle
     /\ work[l] < WorkBound[l]
     /\ done' = [done EXCEPT ![l][c] = end]
     /\ \E next \in events :
          /\ IsLeast(next, events)
          /\ Post(l, n, Message(now[l] + tx + ChannelDelay[c], Guarantee(l, n, next)))
     /\ Reschedule(l, n)
     /\ work' = [work EXCEPT ![l] = @ + 1]
     /\ UNCHANGED <<phase, now, user, safe, guarantee>>

-----------------------------------------------------------------------------
(***************************************************************************)
(* ReceiveMessages: the first k[n] messages of each peer n are taken.  A   *)
(* packet becomes an event, and the last guarantee is that of the bundle.  *)
(***************************************************************************)
TakeMessages(l, k) ==
  /\ channel' = [n \in Tasks |-> [m \in Tasks |->
       IF m = l /\ n \in Peers(l)
       THEN SubSeq(channel[n][l], k[n] + 1, Len(channel[n][l]))
       ELSE channel[n][m]]]
  /\ user' = [user EXCEPT ![l] = @ \cup
       InTime((UNION {{channel[n][l][i].rx : i \in 1 .. k[n]} : n \in Peers(l)}) \ {NoPacket})]
  /\ guarantee' = [guarantee EXCEPT ![l] = [n \in Tasks |->
       IF n \in Peers(l) /\ k[n] > 0 THEN channel[n][l][k[n]].guarantee ELSE @[n]]]

WrongGetSafeTime(l, g) ==  \* mutant: the greatest of the guarantees
  {s \in {g[n] : n \in Peers(l)} : \A n \in Peers(l) : g[n] <= s}

GetSafeTime(l, g) ==
  {s \in {g[n] : n \in Peers(l)} : \A n \in Peers(l) : s <= g[n]}

CalculateSafeTime(l) == \E s \in GetSafeTime(l, guarantee'[l]) : safe' = [safe EXCEPT ![l] = s]

(***************************************************************************)
(* After an event: whatever has arrived, as many messages of each peer.    *)
(***************************************************************************)
HandleArrivingMessagesNonBlocking(l) ==
  /\ phase[l] \in {"handling", "handled"}
  /\ \E k \in [Peers(l) -> 0 .. MessageBound] :
       /\ \A n \in Peers(l) : k[n] <= Len(channel[n][l])
       /\ TakeMessages(l, k)
  /\ CalculateSafeTime(l)
  /\ phase' = [phase EXCEPT ![l] = "ready"]
  /\ UNCHANGED <<now, done, nulls, cancelled, work>>

(***************************************************************************)
(* Without an event that is safe: one message, whichever comes first.      *)
(***************************************************************************)
HandleArrivingMessagesBlocking(l) ==
  /\ phase[l] = "ready"
  /\ \A t \in Events(l, Peers(l)) : t > safe[l]
  /\ \E n \in Peers(l) :
       /\ channel[n][l] # <<>>
       /\ TakeMessages(l, [m \in Peers(l) |-> IF m = n THEN 1 ELSE 0])
  /\ CalculateSafeTime(l)
  /\ UNCHANGED <<phase, now, done, nulls, cancelled, work>>

-----------------------------------------------------------------------------
Step(l) ==
  \/ UserEvent(l) \/ TransmitComplete(l) \/ CancelledEvent(l)
  \/ NullMessageEventHandler(l) \/ Stop(l)
  \/ \E delay \in TimerDelays : Schedule(l, delay)
  \/ \E n \in Peers(l), c \in Links, tx \in TxTimes : Transmit(l, n, c, tx)
  \/ HandleArrivingMessagesNonBlocking(l) \/ HandleArrivingMessagesBlocking(l)

Next == \E l \in Tasks : Step(l)

Spec == Init /\ [][Next]_vars

(***************************************************************************)
(* As long as a task can run, or a message it waits for can be delivered,  *)
(* some task does.                                                         *)
(***************************************************************************)
FairSpec == Spec /\ WF_vars(Next)

-----------------------------------------------------------------------------
(***************************************************************************)
(* Types.                                                                  *)
(***************************************************************************)
TypeOK ==
  /\ phase \in [Tasks -> {"ready", "handling", "handled", "stopped"}]
  /\ now \in [Tasks -> Nat]
  /\ user \in [Tasks -> SUBSET Nat]
  /\ done \in [Tasks -> [Links -> Nat \cup {Idle}]]
  /\ nulls \in [Tasks -> [Tasks -> Nat]]
  /\ cancelled \in [Tasks -> SUBSET Nat]
  /\ safe \in [Tasks -> Nat]
  /\ guarantee \in [Tasks -> [Tasks -> Nat]]
  /\ work \in [Tasks -> Nat]
  /\ channel \in [Tasks -> [Tasks -> Seq([rx : Nat, guarantee : Nat])]]

(***************************************************************************)
(* "No message should arrive from task nodeSysId with a receive time less  *)
(* than the guarantee time" (null-message-simulator-impl.h): no packet     *)
(* under way is earlier than what its receiver has been guaranteed, or     *)
(* will have been when the packet is taken.                                *)
(***************************************************************************)
GuaranteeIsKept ==
  \A l \in Tasks : \A n \in Peers(l) : \A i \in DOMAIN channel[l][n] :
    channel[l][n][i].rx # NoPacket =>
      /\ guarantee[n][l] <= channel[l][n][i].rx
      /\ \A j \in 1 .. i - 1 : channel[l][n][j].guarantee <= channel[l][n][i].rx

(***************************************************************************)
(* No task is ahead of what may still reach it: its clock is behind its    *)
(* safe time (the assertion of CalculateSafeTime), behind every guarantee  *)
(* it will be given (that of SetGuaranteeTime), and behind every event it  *)
(* has (that of ProcessOneEvent) or is sent (that of ScheduleWithContext). *)
(***************************************************************************)
Causality ==
  \A l \in Tasks : phase[l] # "stopped" =>
    /\ now[l] <= safe[l]
    /\ \A t \in Events(l, Peers(l)) : now[l] <= t
    /\ \A n \in Peers(l) : \A i \in DOMAIN channel[n][l] :
         /\ now[l] <= channel[n][l][i].guarantee
         /\ channel[n][l][i].rx # NoPacket => now[l] <= channel[n][l][i].rx

(***************************************************************************)
(* No task waits for ever for a message: all of them reach the stop.       *)
(***************************************************************************)
AllStop == <>(\A l \in Tasks : phase[l] = "stopped")

(***************************************************************************)
(* The safety in AllStop: the tasks never all wait for each other.  One    *)
(* waits in ReceiveMessagesBlocking when none of its events is safe and    *)
(* nothing is under way to it; as long as a task has not stopped, some     *)
(* task that has not does not wait.                                        *)
(***************************************************************************)
Waits(l) ==
  /\ phase[l] = "ready"
  /\ \A t \in Events(l, Peers(l)) : t > safe[l]
  /\ \A n \in Peers(l) : channel[n][l] = <<>>

Running == {l \in Tasks : phase[l] # "stopped"}

NoDeadlock == Running # {} => \E l \in Running : ~Waits(l)
=============================================================================
