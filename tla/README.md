# FBM: a verification project for the hybrid-buffer switch

The repository is a fork of the ns-3 network simulator with a switch whose packet
buffer is made of two memories: a small fast one on the chip (SRAM) and a large slow
one beside it (a DRAM/HBM behind a write cache). A memory management unit (MMU)
decides per packet which memory it goes to; FBM is the algorithm the repository is
about. This directory holds TLA+ models of that switch, what TLC checks about them on
small instances, and what TLAPS proves about them for every value of the constants.

Paths below are relative to `src/ns-3-dev-hybrid-buffer/src/`.

## 1. Inventory

The life of a packet through the switch, and the parts it meets:

```
 arrival                                                     departure
    |                                                            ^
    v                                                            |
 TrafficControlLayer::Send --Enqueue--> QueueDisc --Send--> ReorderNetDevice
    | CheckIngressAdmission, Store     (DRR, ...)  ^           |  ^
    v                                     ^  wake  | stop      |  | HandleRequest
 SwitchMmu <------------------------------|--------|--Fetch----+  |
    | Write, Read                                                  |
    v                                                              |
 OffChipBuffer: write cache -> HBM engine -> DRAM --FetchComplete--+
                         ^ WRR arbiter
```

The simulator is single-threaded: one event runs to its end before the next. All
concurrency in the switch is that of *events*: a handler leaves work in the simulator's
queue, and whatever else is due comes in between. Beneath it is the one really concurrent
program of the repository, the parallel simulator: several MPI tasks that each run a part
of the topology and exchange packets, and null messages, to keep their clocks apart no
further than the delays of the links between them allow.

| component | source | state | operations | what makes it correct |
|---|---|---|---|---|
| off-chip buffer and HBM engine | `network/model/off-chip-buffer.{cc,h}` | request vectors, write cache and DRAM counters, engine state, its pending event, the packet being written, a stop flag | Write, Read (from the cache, from DRAM, or of a packet being written), arrival of a request, start of a cycle, one atomic operation, end of a cycle, CancelWrite | one chain of events; an interrupted write stops once and returns its bytes once; a packet is in one place; DRAM is not overfilled; what is asked for is fetched |
| WRR arbiter | same files | scan position, count, round | DoReadWriteClassicalWrr, DoReadWriteInterleavedWrr | neither direction starves; the share is that of the weights |
| switch MMU | `network/model/switch-mmu.{cc,h}` | remaining SRAM, bytes per queue, priority and port in each memory, congestion status, FBM's direction per queue | FindBufferLocation (six algorithms), Store, Fetch, FetchComplete, Read/WriteWcacheComplete, Read/WriteDramComplete | an admitted packet fits, unless the code does not look at the room; the counters it decides by are exact |
| packet | `network/model/packet.{cc,h}` | location, bytes stored in DRAM, fetch status | setters used by the others | the status says where the packet is |
| traffic control layer | `traffic-control/model/traffic-control-layer.cc` | none of its own | Send: admission, store, enqueue, run | a packet stored is also queued |
| queue disc | `traffic-control/model/queue-disc.cc` | children, running flag, quota | Run, Restart, DequeuePacket, Transmit | no packet stays behind while the device has room |
| DRR disc | `traffic-control/model/drr-queue-disc.{cc,h}` | deficit of each class, class served last | DoEnqueue, DoDequeue | no class starves; bandwidth follows the weights; the loop ends |
| device queue | `network/utils/net-device-queue-interface.{cc,h}`, `queue.{cc,h}` | stopped by the device | Stop, Wake, PacketEnqueued, PacketDequeued, PacketDiscarded | stop and wake lose nothing |
| reorder device | `point-to-point/model/point-to-point-reorder-net-device.cc` | queue, packet being sent, link | Send, AttemptTransmission, TransmitComplete, HandleRequest callback, LinkDown | sends in order, only what is fetched, and does not stall |
| HTBF disc | `traffic-control/model/htbf-queue-disc.{cc,h}` | tokens of two buckets and a checkpoint per shaper, a timer each, class served last, packets looked at | DoEnqueue, DoDequeue of the root and of its children, wake-up of the root | rates are kept; a disc with packets is woken; each class is served |
| null message simulator | `mpi/model/null-message-simulator-impl.cc`, `null-message-mpi-interface.cc`, `remote-channel-bundle*.cc` | clock, event list and safe time of a task, guarantee and null message event of each bundle | Run, ProcessOneEvent, NullMessageEventHandler, RescheduleNullMessageEvent, CalculateGuaranteeTime, SendPacket, ReceiveMessages, CalculateSafeTime | no packet breaks a guarantee; no task runs ahead of what may reach it; nobody waits for ever |
| the rest of ns-3, BRITE, openflow, examples | | | | upstream, third-party, or drivers of experiments: left aside |

What is hard in this code:

* **Interleaving of events.** A read may come between any two atomic operations of
  the write of the same packet, between an engine's decision and the event that acts on
  it, or while the packet's write request is still in the channel.
* **State kept across events.** The stop flag, `m_writingPacket`, the remembered wait
  event, the arbiter's counters, the congestion status and FBM's direction are all
  written in one event and read in a later one.
* **Order.** Fetches of one device complete out of order; the device must not.
* **Sleep and wakeup.** The engine goes IDLE, the disc stops running, the device
  queue is stopped: each needs somebody to start it again.
* **Time.** Buckets count rounded bytes and rounded nanoseconds; a timer set for one packet
  may have to serve another. Tasks of the parallel simulator have clocks of their own.
* **Messages.** A guarantee given in the middle of an event speaks for everything the task
  may still send, whatever is still on its way to it.
* **Accounting.** A dozen unsigned byte counters are raised in one place and lowered in
  several.

`PROJECT.json` lists these as hazards, each at the line where it bites, with the
properties that would catch it.

## 2. Modules

| module | models | abstracts |
|---|---|---|
| `WrrArbiter` | the two scans as pure operators: a decision and the counters after it | the loop: the result of the scan is given in closed form |
| `WrrRounds` | the arbiter asked again and again under any backlog | |
| `WrrLoops` | the code's loops, iteration by iteration: the calls as recursive functions of the number of iterations, the reference for `WrrArbiter` | |
| `OffChipBuffer` | the buffer: one action per handler, see below | times |
| `SwitchMmu` | EXTENDS `OffChipBuffer`: admission and every counter | FBM's clock and utilities |
| `PacketBuffer` | the abstract specification of the MMU: hold, ask, fetch once, charge the queue until then | which memory |
| `SwitchPort` | EXTENDS `PacketBuffer`: traffic control, queue disc, device queue, device | order of service of the disc, times |
| `DrrQueueDisc` | the DRR disc, its dequeue loop visit by visit | what is in a packet but its size |
| `HtbfQueueDisc` | a root shaper over one shaper per class, with timers and a clock that ticks | what is in a packet but its size; older checkpoints than a full bucket |
| `HybridSwitch` | EXTENDS `SwitchMmu`, with `SwitchPort` instantiated over it: the whole switch with one port | what either leaves out |
| `NullMessages` | the tasks of the parallel simulator and the messages between them | what an event does but schedule and send |
| `MC*` | the small instances TLC checks | |
| `*_proofs` | theorems and their proofs, those of the MMU and of the composed switch together in `HybridSwitch_proofs` | |
| `CollectionLemmas` | lemmas about sums over finite sets and about sequences, which the proofs share | |

How they compose: `SwitchMmu` is the off-chip buffer plus the MMU's own counters, and
implements `PacketBuffer` under a refinement mapping (`IsPacketBuffer`); `SwitchPort` is
built on `PacketBuffer`, so what it shows about the port holds for either memory and
every algorithm, without the engine's states multiplied into the port's. `HybridSwitch`
puts the two together again: it instantiates `SwitchPort` with the status and the charges of
the MMU itself (`Port == INSTANCE SwitchPort WITH status <- ..., charged <- qUsed`), and each
of its steps is a step of both sides or of one. `DrrQueueDisc` and `HtbfQueueDisc` stand for
themselves; the port leaves the disc's order of service open. `NullMessages` is the layer
below and knows nothing of switches.

### From the code to the state

`OffChipBuffer`: `location`, `stored` are the packet's members; `writeVec`, `readVec`
the request vectors; `wcacheUsed`, `dramUsed`, `nWcachePackets`, `nDramPackets`,
`state`, `writingPacket`, `writingStopFlag` the members of the same names; `wrr` the
arbiter's three counters. `events` is what the engine has in the simulator's queue,
`channel` the requests under way (a FIFO: the delay is one constant), `stage` what the
callers have done with the packet. The actions:

| action | code |
|---|---|
| `Write` | `Write`, `SendWriteRequestStart` and, without a delay, `SendWriteRequestComplete` |
| `RequestArrives` | `SendWriteRequestComplete`, `SendReadRequestComplete`, with the kick of an idle engine |
| `ReadFromWcache`, `ReadInterruptsWrite`, `ReadFromDram` | `Read` and `SendReadRequestStart` for the three places, `CancelWrite` included |
| `StartWriteCycle(i)`, `StartReadCycle` | `ScheduleCycleStart` and the first atomic operation; `i` is the request the random choice takes |
| `NextAtomic` | `ScheduleCycleAtomic`; with the last operation, or a stop, `ScheduleCycleComplete` and the next decision |
| `Depart` | the packet object is gone, the name stands for a new packet |

`SwitchMmu` adds `Decide`, `Store`, `Fetch` and the four `...Complete` callbacks to these
steps: a step of the buffer and the counters it changes are one action, as one event is
in the code. `SwitchPort`: `Arrive` (`TrafficControlLayer::Send`), `Restart` (one
iteration of `QueueDisc::Run`), `RunEnd`, `WakeRun` (the scheduled `Run`),
`FetchCompletes`, `TransmitComplete`, `LinkDown`. `DrrQueueDisc`: `DoEnqueue`,
`DoDequeue` (the call begins), and the four ways a visit of the loop goes.

`HybridSwitch`: `ArriveAtSwitch` (admission, Store and enqueue in one event, or a refusal),
`RunQueueDisc` (one iteration of the disc's run, with the device's Fetch), `EngineStep` (an
event of the engine; the end of a read calls the device), `TransmissionEnds`, `DiscStep` (the
run ends, or the one scheduled by a wake begins).

`HtbfQueueDisc`: `Send`, `Block` and `GiveNothing` are the three ways a call of the root's
`DoDequeue` ends: a packet leaves, the first packet found is held back by the root, no
child gives one. `peeked` is the packet of a child that the root has looked at
(`QueueDisc::Peek` makes the child dequeue, so that packet has paid its child's tokens).
`Enqueue`, `DeviceWakes` and `TimerFires` are the callers of `Run`; `Tick` is a nanosecond in
which nothing is due. `age` is how long ago a shaper's checkpoint is; `credit` belongs to
`RateIsKept` and not to the code.

`NullMessages`: `UserEvent`, `TransmitComplete`, `CancelledEvent`, `NullMessageEventHandler`
and `Stop` process the next event, by its kind; in the first two the task is then
`"handling"` and does what a program may: `Schedule` an event, `Transmit` a packet on an idle
device (the end of transmission first, then `SendPacket` with its guarantee, then the null
message event is put off). `HandleArrivingMessagesNonBlocking` ends every event and takes any
number of the messages under way, since MPI delivers when it likes but in order;
`HandleArrivingMessagesBlocking` takes one, when no event is safe. Packets travel as the time
they are received at.

Operators named `Wrong...` are mutants: plausible bugs of the definition that follows
them. They take no part in a specification; each property is shown to fail when one of
them replaces the definition.

### What is assumed of the configuration

* Weights of the arbiter and quantums of DRR are at least 1. With a weight of 0 (the
  attribute allows it) and requests in that queue only, the scan of
  `off-chip-buffer.cc:408` never ends; with all quantums 0 neither does DRR's.
* `m_thresholdOfReadRequest` is 0 and never set: the shortcut it guards is dead code.
* Packets are IPv4: `Size` includes the correction of 22 bytes the MMU applies.
* `HbmBusFrequency` is positive. With 0, which the attribute accepts, no write request is sent
  (`off-chip-buffer.cc:1011`) and reads would divide by it (line 866).
* Nothing is assumed of HW's thresholds: see the run `mmu` and section 3.
* A device queue limited in bytes takes any one packet (`SwitchAssumption`): a packet larger
  than the limit would be refused by the device after the disc had let it go.
* One transmission queue per device, so that `m_requeued` is never used; a run's quota
  covers what the device queue takes (the default is 64), since a run that uses it up is
  not rescheduled (`queue-disc.cc:964` says so).
* A wake scheduled for "now" runs before the clock moves on.
* HTBF: bursts, and the MTU of a shaper with a peak rate, hold the largest packet (the
  buckets do not grow, so a larger one would wait for ever); every child wakes the root
  (`SetRootQdisc`); rates are positive and whole bytes per second. (Tokens are gained at
  `GetBitRate () / 8`, an integer, `htbf-queue-disc.cc:243, 253`; the delay is computed from the
  exact bit rate. A rate that is no multiple of 8 b/s gains up to 7 b/s less than it says.)
* `HybridSwitch`: the link stays up and the disc drops nothing, fetch statuses start unset
  (the runs `port` and `port_unfetched` have the contrary), and a transmission outlasts the
  HBM channel, so that no request is under way for a packet that is gone.
* Parallel simulator: `m_schedulerTune` is at most 1 (the attribute's checker) and the delay
  of a bundle is not rounded to 0; all tasks stop at the same time, which is set before Run;
  events of a task at one time are one event.

## 3. Runs

| run | instance | asks |
|---|---|---|
| `wrr` | weights 5:8, both algorithms, any backlog | does the closed form decide what the loops decide (`DecisionIsTheLoops`); does neither queue lose more decisions in a row than the other's weight (`WaitIsBounded`); is the share that of the weights, from whatever position (`ShareFollowsWeights`) |
| `buffer` | three packets of 5 bytes, cache 10, DRAM 12, bursts of 2, two bursts per event, delayed channel | one engine (`OneEventChain`), the stop flag (`StopFlagDiscipline`, `CancelledWriteStops`), the packet's place (`OnePlace`), both memories' bytes (`MemoriesAccounted`), `DramNeverOverflows`, and every fetch ends, also with an engine that sleeps on a full DRAM (`AskedIsFetched`) |
| `mmu` | HW, FBM, BASELINE, DEEPHIR; the interleaved arbiter; four packets of two priorities, delayed channel; write cache 7, HW's `wcacheFullTh` 56 for one priority (far above the cache, like the shipped values) and 6 for the other | an admission misses its room only where the code does not look (`OnlyBlindAdmissionsMisfit`), counters are exact (`QueuesAccounted`, `MemoriesCounted`), the MMU is a packet buffer (`IsPacketBuffer`) |
| `switch` | FBM; four packets of 5, 3, 2, 2 bytes, SRAM 7, DRAM 5, a device queue of two packets | across MMU, engine, disc and device: no byte leaks (`NoLeak`), packets of a queue leave in the order they came though the memories give them back out of order (`QueueOrder`), every packet admitted is sent (`AdmittedIsSent`) |
| `port` | four packets of two sizes, two queues, device queue in bytes, a disc that drops, a link that fails | wakeups (`NoLostWakeup`), stalls (`NoStall`), order (`KeepsOrder`), `SentIsFetched`, the accounting of packets that are lost (`PacketsAccounted`), nothing refused (`SentIsConsumed`), everything sent (`StoredIsSent`) |
| `drr` | three classes with weights 2, 1, 1 and packets of 1, 3, 1 bytes: smaller than, larger than and equal to a credit; a counter of -17 .. 16; one child may hold back | deficits are bounded (`DeficitIsBounded`), waits too (`WaitIsBounded`), shares drift from the weights by what small packets have saved and no more (`ShareFollowsWeights`), the loop returns (`DequeueReturns`) |
| `htbf` | a root with two buckets over two classes with different bursts, together faster than the root; rates of 2 and 3 bytes in two ticks | every rate is kept up to what rounding may add (`RateIsKept`), a blocked disc is woken (`WakeupPending`), each class is served (`EveryClassIsServed`) |
| `null_messages` | three tasks in a row, links of delay 3, stop at 6 | packets keep guarantees (`GuaranteeIsKept`), tasks stay behind what may reach them (`Causality`), all reach the stop (`AllStop`) |

The instances are small but chosen so that each case happens: a packet takes more than one event
to write and ends in a part-full burst, so that a read can interrupt it with some, none or
almost all of it in DRAM; three packets are enough for one being written, one waiting and one
read; memories hold two or three packets, so that they fill. Packet names are reused after
departure, so runs have no end. `Wrap` is the modulus of the unsigned room and packet count of
DRAM, above its size in each instance as 2^32 is above that of every memory. `QueueBound` bounds
the FIFO of a DRR or HTBF child. In `htbf` the root gets its tokens in halves of a byte, so that
every packet is rounded; `MaxAge` is the time that fills every bucket. In `null_messages` two
link delays pass before the stop, so that a packet can make its receiver send one on, and the
middle task hears of both neighbours; `WorkBound` bounds what the tasks' handlers do,
`MessageBound` what is taken at once. Units of the buffer are bytes, those of the other two are
nanoseconds, each scaled down.

`CHECK_DEADLOCK FALSE` only for `port`, where a link failure may lose every packet and leave
the port with nothing to do, and for `null_messages`, where all tasks stop.

### Where code and documentation disagree

Four runs exist to show a disagreement; TLC finds the counterexample in each.

* `dram_overflow`: `ScheduleCycleStart` writes a request picked at random
  (`off-chip-buffer.cc:680`), the room in DRAM was compared with the first one. With
  packets of different sizes DRAM is overfilled and its remaining size wraps.
* `fbm_admission`: when FBM's period starts over, a mixed queue is admitted to the memory
  it uses with no look at the room there (`switch-mmu.cc:1145`), against the assertions of
  Store and SendWriteRequestStart.
* `port_unfetched`: no constructor initializes `m_mmuFetchStatus`; the device may find
  it set and send a packet that is still in DRAM.
* `htbf_wakeup`: the delay a blocked shaper waits is rounded to whole nanoseconds. At a rate
  above 2 bytes a nanosecond (16 Gb/s) the delay for one missing byte is 0: the root is woken
  at the same moment, finds the same tokens, and again sets a timer of 0
  (`htbf-queue-disc.cc:320`, against the comment at 290). Simulated time stands still; the run
  uses 24 Gb/s.

Others met on the way, described here and not run:

* HW with its default thresholds: `wcacheFullTh` is 350 KB for one priority and 200 KB for the
  other (`switch-mmu.cc:270`), the default write cache holds 50 KB (`off-chip-buffer.h:432`). HW
  compares the bytes cached with the threshold and never with the packet, so it admits to a cache
  that is full, and the assertion of `SendWriteRequestStart` (`off-chip-buffer.cc:991-994`) fails.
  The run `mmu` has such a threshold for one of its priorities: `OnlyBlindAdmissionsMisfit` names
  this case, with that of `fbm_admission`, as one where the code does not look at the room, and
  says there is no other.
* DRR: a class with a positive deficit sends *one* packet per visit, and its credit is
  `m_quantum * 500`: 512,000 bytes for the default quantum of 1024, so that every packet is a small
  one. (The test of the disc, with quantums of 500 to 1500, expects shares by weight.) What a
  packet falls short of the credit stays in the deficit. The run `drr` and the theorems have such
  packets: two classes with small packets send alike whatever their weights, and
  `ShareFollowsWeights` says how far that takes the shares from the weights: by what both classes
  have saved, and by no more. The deficit is 32 bits wide and signed. A class with the default
  quantum fills it with some 4190 packets in one backlog; then its sign may turn and the class
  waits until some 4000 visits have turned it back. `InRange` is where that cannot have happened,
  and the bounds hold there.
* Parallel simulator with two links between the same two tasks: `CalculateGuaranteeTime` takes
  the next event for the earliest moment at which anything may be sent, also while an event is
  still being handled. If that event sends on one link and then on the other, the second packet
  may be earlier than the guarantee sent with the first, which
  `null-message-simulator-impl.h:168-170` says cannot happen. With one link the device is busy
  until an event that counts. The proofs need that one link (`OneLink`), and the run has it.
* `CancelWrite` decides again only when it erased the *last* write request. An engine
  that sleeps because the first request does not fit into DRAM stays asleep when that
  one is cancelled and the next one fits (`off-chip-buffer.cc:1213`, against
  `off-chip-buffer.h:326-328`); a later request or read wakes it, so `AskedIsFetched` holds.
* `m_nDramPackets` is lowered for every packet read from DRAM, but raised only for packets
  written completely: reading an interrupted write takes the unsigned count below zero
  (`off-chip-buffer.cc:906`). Nothing decides by it.
* A packet dropped after it was stored (link down, or by a child disc) stays in the MMU
  for good and keeps its bytes (`point-to-point-reorder-net-device.cc:142`,
  `traffic-control-layer.cc:472`). `PacketsAccounted` states exactly which packets do.
* A device queue limited in bytes is stopped when an MTU does not fit, and the packet
  enqueued is the MTU plus the PPP header (`net-device-queue-interface.h:366`); the model's
  `Mtu` is the largest packet with its header, so `SentIsConsumed` is shown for a queue
  that keeps that much room.
* DRR's comment says that a class whose child gives nothing is skipped
  (`drr-queue-disc.cc:175`); the code ends the call, so the classes behind it wait.

## 4. Fairness

The simulator runs every event that is scheduled, so the engine's events and the arrival
of a request are weakly fair; nobody has to store or ask for a packet. A running dequeue
loop goes on (`WF(Visit)`). In `SwitchPort` fairness of `Restart(q)`,
`FetchCompletes` and `TransmitComplete` is strong: a run of the disc is *one* event of the
simulator, taken apart into iterations in the model, and disables the scheduled ones while
it lasts, again and again; after each run they are due as before. For `Restart(q)` it says
that the disc serves each of its queues in the end, which DRR does (`WaitIsBounded` of
`DrrQueueDisc`) and a strict priority disc does not: `StoredIsSent` is about the former. That
the MMU fetches in the end is what `SwitchMmu` is shown to implement.

`HybridSwitch` needs less: one weak fairness condition for everything that is scheduled
(`WF(Scheduled)`), since each such event brings some packet of the instance nearer to its end
and arrivals cannot take its place for ever. HTBF: what is due runs, the device that stopped
its queue wakes it, and time goes on when nothing is due. `NullMessages` has `WF(Next)` and no
more: as long as some task can run, one does. No task is promised its turn, so `AllStop` says
that the simulation ends however MPI and the operating system schedule it.

## 5. Proofs

TLAPS checks these for all values of the constants that meet the named assumptions. A
hypothesis beyond those assumptions is part of the theorem and named here.

| theorem | module | says |
|---|---|---|
| `ArbiterTypes`, `ArbiterFairness` | `WrrRounds_proofs` | the counters stay in their rounds; waits are bounded by the weights, for both algorithms |
| `ArbiterShare` | `WrrRounds_proofs` | while both vectors hold requests the share is that of the weights to within a round, from wherever the scan stood |
| `ArbiterIsTheLoops` | `WrrRounds_proofs` | in every state the arbiter reaches its closed form decides what the code's loops decide and leaves the same counters; the loops end within `3 * Rounds + 4` iterations |
| `BufferTypes`, `EngineIsOneChain` | `OffChipBuffer_proofs` | types; one chain of events, IDLE exactly without one, no cycle without a request, no sleep on a read |
| `PacketsInOnePlace` | `OffChipBuffer_proofs` | a packet and its requests are in one place, the one its location names |
| `StopFlagStopsItsWrite`, `CancelledWritesStop` | `OffChipBuffer_proofs` | the stop flag is up exactly while the write it is meant for is under way; no byte of a packet asked for is written |
| `MemoriesAreAccounted` | `OffChipBuffer_proofs` | write cache and DRAM are charged for exactly the bytes there |
| `DramHasRoom` | `OffChipBuffer_proofs` | DRAM is not overfilled, *if all packets are of one size* |
| `MmuTypes`, `MemoriesAreCounted`, `QueuesAreAccounted` | `HybridSwitch_proofs` | every counter of the MMU, by queue, priority and port, is the sum it stands for; none goes below zero |
| `AdmissionAlwaysFits` | `HybridSwitch_proofs` | BASELINE and DEEPHIR admit to a memory only what fits |
| `MisfitsAreBlind` | `HybridSwitch_proofs` | with every algorithm an admission misses its room only where the code does not look at it: FBM for a mixed queue when a period starts over, HW with a threshold that leaves no room, YSL and the fallback; *no hypothesis on thresholds* |
| `MmuIsPacketBuffer` | `HybridSwitch_proofs` | the MMU with its buffer implements the safety part of `PacketBuffer` |
| `BufferSoundInMmu` | `HybridSwitch_proofs` | with the MMU's traffic, on chip and off, the buffer keeps what it promises alone: one chain of events, one place, the stop flag, both memories, no byte of a packet asked for |
| `DramHasRoomInMmu` | `HybridSwitch_proofs` | whatever the algorithms admit DRAM is not overfilled, *if all packets are of one size* |
| `SwitchIsMmu`, `SwitchIsPort` | `HybridSwitch_proofs` | each behaviour of the composed switch is one of `SwitchMmu`, and one of `SwitchPort` |
| `SwitchIsPacketBuffer` | `HybridSwitch_proofs` | end to end: the composed switch implements the safety part of `PacketBuffer`, with buffer and counters sound in it |
| `SwitchNeverHangs` | `HybridSwitch_proofs` | while a packet is in the switch an event of the switch is due, *for a device queue limited in packets and a quota above its limit* |
| `SwitchLeaksNothing` | `HybridSwitch_proofs` | across MMU, engine, disc and device no packet and no byte is left behind |
| `SwitchDoesNotStall`, `SwitchKeepsOrder`, `SwitchLosesNoWakeup` | `HybridSwitch_proofs` | what is proved of the port, for the whole; the last *for a device queue limited in packets and a quota above its limit* |
| `PortKeepsItsTypes` | `SwitchPort_proofs` | types; no charge and no quota goes below zero |
| `DeviceDoesNotStall` | `SwitchPort_proofs` | an idle device has no fetched packet at the head of its queue, whatever the order of fetches and the initial statuses |
| `OnlyFetchedIsSent` | `SwitchPort_proofs` | nothing is sent before it is fetched, *if statuses start unset* |
| `PacketsAreAccounted` | `SwitchPort_proofs` | a packet the MMU keeps is in one place or was lost, *if statuses start unset* |
| `QueuesKeepTheirOrder` | `SwitchPort_proofs` | nothing overtakes within a queue, also with discs that drop and links that fail |
| `DeviceRefusesNothing` | `SwitchPort_proofs` | the device takes what the disc lets go, *if packets are within the MTU and the queue's limit is no less* (`MtuFits`) |
| `WakeupsReachTheDisc` | `SwitchPort_proofs` | packets wait in the disc only while the device queue is full or a run is due, *for a queue limited in packets, a quota above its limit and a link that is up* |
| `HtbfTypes`, `HtbfRate`, `HtbfWakeup` | `HtbfQueueDisc_proofs` | no bucket is overdrawn or overfilled; rates are kept; blocked discs have a timer: for any number of classes, rates, bursts, packets |
| `PacketsKeepGuarantees`, `TasksStayCausal` | `NullMessages_proofs` | guarantees are kept and no task is ahead of what may reach it: for any tasks, topology, delays and traffic *with at most one link between two tasks* |
| `TasksDoNotDeadlock` | `NullMessages_proofs` | while a task is short of the stop, some task has an event to run or a message to take, *if each task has a peer, and one link at most to it* |
| `DrrTypes` | `DrrQueueDisc_proofs` | types with the range of the signed counter |
| `DrrDeficit`, `DrrWait`, `DrrShare` | `DrrQueueDisc_proofs` | deficits are bounded by a packet below and what was saved above; waits are bounded; shares follow the weights to within a round, a packet and what was saved: *for any packets, as long as the counters concerned cannot have overflowed* |
| `DrrCallEnds` | `DrrQueueDisc_proofs` | the loop of `DoDequeue` counts down to its end: at most `NClasses * VisitsToPay(j)` visits, for each class j with packets *whose counter cannot have overflowed* |

*Arbiter.* `WaitIsBounded` alone is not inductive: whether the bound holds after a
decision depends on where the scan stands. `RoundsInv` ties the waits to the position: in
the write turn of the classical scan the reads have lost at most `count` decisions, in the
read turn the writes have. The interleaved scan has the same with its round. For the share,
the position of the scan is read as the writes and reads done since its round began; their
lead, less the one that was counted, stays in a fixed span as wide as a round (`ShareInv`),
because a decision moves both alike and a round that ends gives each direction its weight.
The scans themselves are reduced, once and for all, to the cases of `ClassicalCases` and
`InterleavedCases` (`WrrRounds_proofs`).

*The loops.* A call is a function from the number of iterations to where the scan is, defined by
recursion; that there is such a function, and one only, is proved by induction on the natural
numbers, the library's theorem on well-founded relations taken with a set where a predicate would
stand. What is left are facts without induction or by one on the position: a classical call
returns within five iterations; an interleaved call that finds nobody to serve in a round moves on
to the next one, three positions later, and in the round after the last one it is back where
every queue may be served, since weights are positive.

*Engine.* `EngineInv` says that `events` is empty or one event, which of the two follows
from `state`, and that the event's request exists. The step to look at is `CancelRequest`:
it erases the last write request while the event that would serve it is pending, and must
withdraw that event before it decides again. To show types it carries
`stored[p] <= Size[p]`, which keeps what an interrupted write gives back from being
negative.

*Memories of the buffer.* `PlacesInv` follows each packet and its requests: a request is in
the channel, in a vector or in the engine, once, and the packet's location and stage say
which it may be. A write event is for `writingPacket`, and has just enough operations left
for the bytes not stored (`JustEnough`), so the one that stops is the one the flag was raised
for and the last one ends with the packet in DRAM. `MemoryInv` makes both memories sums over
packets; it needs the places, since a byte leaves a counter where a packet changes place.
`DramRoom` keeps the room the arbiter saw for one waiting write until the event it led to
ends. That this is room for the request picked at random is where packets of equal size are
needed; the run `dram_overflow` has packets of two sizes.

*MMU.* Each counter is shown to count a function of packets under a key (`Counts`: bytes in
SRAM by queue, by priority, by port and priority, and so on). A step of the buffer touches one
packet, and one lemma says what adding to one packet does to every counter. What the buffer
says of that packet (`PlacesInv`) and what Store, Fetch and the four callbacks do must then
agree; the step where they could not is the read of a packet being written, where the bytes
stored leave DRAM and those not stored the write cache. `AdmissionHolds` needs the
counters only for their types: each algorithm is followed through its branches to the
comparison that lets the packet in, or to the branch that has none (`IgnoresRoom`).
`AdmissionAlwaysFits` and `MisfitsAreBlind` are read off it.

*The buffer in the MMU.* What is proved of `OffChipBuffer` is proved of callers that use nothing
else. In the MMU there are also steps that store and fetch on chip: they change the location of a
packet the buffer does not hold and leave its memories, requests and engine alone
(`StepIsOffChipOrOn`). `MmuInv` contains the buffer's invariants and they survive these steps too.

*Refinement of `PacketBuffer`.* A step of the MMU is `Keep`, `AskHit`, `AskMiss`, `Complete`,
`Release` or none of them, under the mapping that reads a packet's status from its stage and
location. Which one depends on the place the packet is in; that a packet completes once, and
only after it was asked for, is what `PlacesInv` gives.

*The composed switch.* Every step of `HybridSwitch` is shown to be one of `MmuNext` and one of
`SwitchPort`'s `Next`, or to leave that side alone. For the port this is the same mapping as
before, with `charged <- qUsed`; the traffic control layer, the disc and the device call the
MMU at the moments `SwitchPort` expects, and the end of a read calls the device. The theorems
of `SwitchPort_proofs` are then instantiated (`Proved`) instead of proved again. `NoLeak` puts
the two sides together: the port says that a packet the MMU keeps waits somewhere or was lost,
that none is lost here follows from a disc that drops nothing, a link that is up and
`SwitchAssumption`; and when no packet waits, the sums of `MemoryInv` and `SramInv` are sums of
zeros.

*Sums.* `CollectionLemmas` proves what a sum over a finite set is when an element is added,
changed or removed. The induction over finite sets is the library's theorem about well-founded
relations in its first-order form, applied to the subset relation: the ones with an operator
for a parameter cannot be instantiated by the provers at hand.

*DRR.* `saved` is no part of the code: it adds up what a class's packets fell short of its
credits since its deficit was last taken away. `DeficitInv` says that the deficit is not above
it, nor below a packet, while the class is `InRange`: there one more credit and packet fit into
the counter, so that the sum the code makes is the number (`SignedRange`). A packet that is sent
raises what is saved by as much as it may raise the deficit. For the waits, `WaitInv` bounds the
waits had, with the steps of the scan to the class and the rounds its debt still takes; out of
range nothing is claimed, and `waits` starts over. It is kept for two places, where the scan
is and where the call began: a child that holds its packet back ends the call and the next one
begins where this one did. For the shares (`ShareInv`), `Ahead` is what one class leads another
by, less a round if it was visited last of the two, corrected by the deficits of both: a visit
that sends changes lead and deficit alike, and the round moves from one to the other. What is
left of the correction is between a packet owed and what was saved, which is the drift the
property allows.

*HTBF.* `RateIsKept` speaks of `credit`, an exact account in units of 1/(2 Den) bytes, and is
not inductive: a shaper lets a packet pass because its rounded bucket says so. `Covered` ties
the two: what the bucket holds, with what its rate has given since the checkpoint and up to a
burst, is never more than the account. Where a packet moves the checkpoint, rounding may add
half a byte to the bucket, and the account is given that half byte. The products of rates and
ticks stay opaque to the provers; what is used of them is how they change with a tick and the
bounds of a rounded quotient (`Quotient`, `GainedFacts`).

*Port.* `DeviceInv`: what the device holds is in its queue once, has been asked for, is marked
fetched when it is, and an idle device has an unmarked packet first. `SentInv` adds that no
packet is marked before it is fetched, which the initial statuses decide. `SignalInv`: the
device queue is stopped exactly while it is full, packets left behind by a run find it stopped
or a run scheduled, and each unit of quota used in a run is a packet in the device, so that a
quota above the limit is not used up before the queue is full. `ChargeInv` makes a charge the
sum of the sizes of the packets owed. `DiscInv` and `HeldInv` are the two directions of "in one
place": what a child holds is kept and not lost, and what is kept or asked for is held by
somebody. With these, order is a matter of queues that only lose their head. `RoomInv`: a
device queue that is not stopped takes one more MTU.

*Null messages.* The invariant has two parts per task. `Clock`: the task is behind its safe time
and its events, the safe time behind its guarantees, and each null message event is due within
its delay. `Link`: the messages under way are ordered (no guarantee taken back, no packet before
one), and the last guarantee sent, less the delay of the link, is a time X before which the task
cannot send: either it has no event before X but the null message event for that very peer,
which sends no packet (`Free`), or the device is busy until X or later (`Busy`). `Busy` is why
more than one link would not do: events between now and X may still be scheduled then, and
another device is idle. When an event is sent or processed, X only grows, because no message
that is yet to be taken is earlier than the safe time, and X is not later than that.

*What keeps the parts going.* Liveness is out of reach, but each liveness property of a run
rests on a safety property: that something is due as long as there is work. These are proved.
`SwitchNeverHangs` goes round the circle of those that wait: packets wait in the disc because
the device queue is full (`NoLostWakeup`), the device waits because its first packet is not
fetched (`NoStall`), and a read asked of the engine is in the channel, in a vector or in an
event, where an engine with something to read is not IDLE, however full DRAM is (`EngineInv`,
`PlacesInv`). `TasksDoNotDeadlock` takes the running task with the least safe time, were all of
them waiting. That time is the guarantee of a peer. If the peer is running, its next null
message to the task is due no later (`Due`), is not safe for the peer, and so the peer's safe
time is less still; if it has stopped, it has promised the stop time, and the task can stop
too. `DrrCallEnds` gives the number of visits a call has left for each class with packets, in
rounds still owed and steps of the scan, and shows that a visit which does not end the call
takes one off each. `NeverHangs`, `NoDeadlock` and `CallIsBounded` are stated for these proofs
and no run lists them: that nothing hangs on the instances is part of `AdmittedIsSent`,
`AllStop` and `DequeueReturns`, which the runs check.

Only model-checked: liveness itself (`AskedIsFetched`, `AdmittedIsSent`, `StoredIsSent`,
`EveryClassIsServed`, `AllStop`, `DequeueReturns`, the liveness part of `IsPacketBuffer`), since
TLAPS reasons about neither fairness nor ENABLED. The invariants and action properties of the
runs that pass are all proved, some under the hypotheses the table names.

## 6. Not modelled

* Simulated time in the switch: a pending event fires at any moment, so what depends on the
  rates of links and memories (throughput, delay, FBM's utilities and its clock) is left open.
  Time is part of `HtbfQueueDisc` and `NullMessages` only.
* Statistics and traces: `m_enqTime`, bandwidth samplers, trace counters other than
  `m_nDramPackets`.
* Payload, tags and headers beyond the size; reception; hosts, whose path has no MMU.
* Byte queue limits, which this program does not install; packet filters.
* The parallel simulator's set-up of MPI, its buffers for sends, teardown (which may cancel
  receives) and Remove; the other one, with granted time windows.
* Upstream ns-3, BRITE, openflow, the earlier MMU sources that are not built, the drivers
  in `examples/hybrid-buffer`. The repository is the whole of ns-3 with a few files changed, some
  860,000 lines of which most are protocol models the switch does not touch (LTE, Wi-Fi, TCP,
  routing). This project is about what the fork adds, the discs it drives, and the parallel
  simulator, the one upstream part with concurrency of its own; a share of the whole counted in
  lines stays small.

## 7. Plan

Done: arbiter, buffer, MMU with its refinement, port, the composed switch, DRR, HTBF, the null
message simulator, and the theorems of section 5, which state the invariants and action properties
of every passing run. What is left, in this order:

1. DRAM with packets of different sizes. The first write that does not fit overfills it by less
   than the difference of the largest and the smallest packet. From then on the room wraps to
   nearly 2^32, so that the engine and admission see room for anything, and no bound short of all
   packets held is left until enough bytes come back: what that does to admission is open.
2. YSL and the fallback compare with nothing and promise nothing; what SRAM and the write cache
   must provide for them is a property of the traffic.
3. Links that fail and discs that drop in `HybridSwitch`, to see what the bytes lost on the way
   do to admission.
4. Several ports on one MMU in `HybridSwitch`: the proofs of the MMU hold for any number, the
   composition has one.
5. DRR beyond the range of its counter: how long a class waits once its deficit has wrapped.
6. A run quota below the limit of the device queue, and a queue limited in bytes that keeps room
   for an MTU without its header: what the port promises then.

Checking: `tlc -config X.cfg M` for the runs of `PROJECT.json`, `tlapm M.tla` for the
modules with proofs.
