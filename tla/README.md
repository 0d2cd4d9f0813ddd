# TLA+ models of arduino-all-projects

The repository is an Arduino sketchbook: some thirty-five sketches (relays driven over
Bluetooth, the web or SMS; a weather station; LED strips; LoRa nodes) and the
libraries they were built with. This directory holds TLA+ models of the parts
whose logic is hard to test, the TLC runs that check small instances of them, and
theorems about them that TLAPS checks for every instance.

Paths below are relative to `src/Arduino/`; `RH/` stands for
`libraries/RadioHead-master/`.

## The system

| Part | State it keeps | Operations | Interacts with |
|---|---|---|---|
| `RHGenericDriver`, `RH_RF95` (`RH/`) | mode, one received frame and its headers, the headers of the next transmission | `send`, `available`, `recv`, `waitAvailableTimeout`, interrupt handler | the radio; the datagram classes poll it |
| `RHDatagram` | own address | `sendto`, `recvfrom`, header accessors | driver |
| `RHReliableDatagram` | last sequence number, last id seen per sender, retry limit, timeout | `sendtoWait`, `recvfromAck`, `recvfromAckTimeout`, `acknowledge` | driver below, its peers over the air |
| `RHRouter` | routing table of 10 rows, hop limit, a static message buffer | table operations, `sendtoWait`, `recvfromAck` (forwards) | `RHReliableDatagram` |
| `RHMesh` | (the router's) | route discovery, application messages, route failures | `RHRouter` |
| `SimpleTimer` | start, interval | `isReady`, `setInterval`, `reset` | `millis()` |
| `final/final.ino` | relay status and pin, timer, two connection flags, texts | Bluetooth callbacks, `loop()` | Bluetooth task and Arduino task share globals |
| `circular_queue`, `circular_queue_mp` (`libraries/EspSoftwareSerial/`) | ring buffer, two positions | `push`, `push_n`, `pushpeek`, `pop`, `pop_n`, `for_each`, `for_each_rev_requeue`, `flush`, `pop_requeue`, `for_each_requeue` | interrupt or other threads push, the loop pops |
| `ManagedSerialDevice`, `AsyncDuplex` (the same code) | command queue, input buffer, hooks | `execute`, `executeChain`, `abort`, `wait`, `loop` | a modem, callbacks of the application |
| SMS sketches | flags of the last commands, a heating mode | `loop()` | a modem |
| web and LoRa sketches, displays, sensors, network and crypto libraries | | | see `PROJECT.json` |

What is hard about them: frames lost, repeated and crossing each other; ids and
counters one byte wide; a driver that remembers one frame; nodes that lose
everything at a restart; a fixed table whose rows are reused; two tasks writing
the same globals in several assignments; a clock that wraps. `PROJECT.json` lists
every such place with its line, and every component with what is done about it.

What makes each part correct:

* **reliable datagrams**: what the sender is told arrived did arrive; nothing
  arrives twice or out of order; every call returns; broadcasts are not answered.
* **routing table**: one route per destination, found by `getRouteTo` wherever the
  row is; a bounded map; the oldest route makes room.
* **timer**: ready when the interval is over, not before.
* **relay**: status and pin agree, off means off, a timer ends if its deadline lies before the wrap
  of the clock, a client can always connect and is told the truth in the end.
* **mesh**: a request carries the way it took; the way back is known while no hop fails and
  no table overflows;
  nothing is handed over twice however often a hop is repeated; hop limits end circles.
* **radio driver**: what is read is one frame that came in whole, once and in order, whatever an
  interrupt does between two steps of a call; driver and radio agree on the mode; a transmission ends.
* **ring**: producer and consumer never touch the same slot; what is popped was pushed,
  once and in order.
* **modem queue**: commands are sent in the order in which they are due, an answer runs the
  callback of its own command, the queue drains though the modem is silent.

How they fit together: `RF95Driver` implements `RadioMailbox` (within limits given below),
which is the receiving end that `ReliableDatagram` has in its `rxBuf`; `ReliableDatagram`
implements `ReliableDelivery`, which is what `Mesh` has for one hop; `RoutingTable`
implements `RouteMap`, which is what `Mesh` has for a table. `SimpleTimer` runs inside
`RelayController`, `CircularQueue` inside the software serial port a modem hangs on.

## Modules

| Module | Models | Refines / extends |
|---|---|---|
| `ReliableDelivery` | the promise of `RHReliableDatagram`, without frames or ids | |
| `ReliableDatagram` | `RH/RHReliableDatagram.cpp` over a lossy medium | implements `ReliableDelivery` |
| `ReliableDatagramReboot` | the same with restarts | extends `ReliableDatagram` |
| `RouteMap` | a bounded map | |
| `RoutingTable` | the table of `RH/RHRouter.cpp` | implements `RouteMap` |
| `RoutingTableAge` | the table with the order of its routes | extends `RoutingTable` |
| `RadioMailbox` | a box for one received frame | |
| `RF95Driver` | `RH/RH_RF95.cpp` and its interrupt | implements `RadioMailbox` |
| `Mesh` | `RH/RHMesh.cpp`, `RH/RHRouter.cpp`, on a network of nodes | stands on `ReliableDelivery`, `RouteMap` |
| `FifoQueue` | a bounded queue, operation by operation | |
| `CircularQueue` | `circular_queue.h`, `circular_queue_mp.h` | implements `FifoQueue` |
| `ManagedSerialDevice` | the command queue of `ManagedSerialDevice.cpp` | |
| `SimpleTimer` | `libraries/SimpleTimer` | |
| `RelayController` | `final/final.ino` | |
| `MC...` | instances for TLC | extend the module they name |
| `...Proofs` | theorems and their proofs | extend the module they name |

Definitions marked `Fault:` are variants of the definition after them with a mistake
one could make in that code. No specification uses them; putting one in the place
of the definition it precedes shows that a property notices.

### ReliableDatagram

One thread per node. `call[n]` is where that thread is in `sendtoWait`: outside
(`idle`), at the head of the retry loop (`send`), or waiting for the acknowledgement
(`wait`), with the locals `address` and `retries`. `lastSeq` and `seenIds` are the
members `_lastSequenceNumber` and `_seenIds`; `rxBuf` is the frame the driver holds.

| Action | Code |
|---|---|
| `SendtoWait` | entry, 51-52 |
| `Transmit` | one turn of the retry loop: headers, `sendto`, broadcast return, 53-62 |
| `TakeAck`, `ReAcknowledge`, `Discard` | the three branches on a frame that comes in while waiting, 85-99 |
| `Timeout`, `GiveUp` | 77, 105-109 |
| `DropLateAck`, `RecvDuplicate`, `RecvNew` | `recvfromAck`, 120-144 |

A step is everything the thread does between two points where other nodes can make
a difference: a transmission, or the reading of a frame. The receiver's "acknowledge,
then remember and return" (128-140) is one step because the node does nothing else
in between; a restart in between is an action of its own in
`ReliableDatagramReboot`.

The medium: when a frame goes on the air, any subset of its addressees hears it.
One that hears it loses a frame it had not read. This covers a driver that goes idle
with a frame in its buffer and misses the new one (the node is then not in the
subset) and drivers that share one buffer for both directions (the frame lost by a
transmission is one that was never heard). It assumes what the datagram classes
assume: that the driver hands up frames for this node and broadcasts only, one at a
time, with the headers they came with. `RadioMailbox` writes that down, and `RF95Driver`
shows how far `RH_RF95` keeps it.

Abstracted: the payload; the length of the timeout (a wait may end whenever the buffer
is empty, so the random spread is covered); `_retransmissions`, which only counts;
`waitPacketSent`. `sendto` used directly by the application is outside the model.

`sent`, `delivered`, `acked` and the `serial` in a frame are history: no guard reads
them. A serial tells two messages with the same id apart, which is what the properties
are about.

`IdWindow` is the assumption under which one byte of id is enough: no request in a
buffer is `ByteMod` or more ahead of what its reader last took from that sender, and no
acknowledgement that far behind. The code does nothing to keep it. `WindowSpec` is the
protocol while it holds. Without it the 257th message may meet its own id in `_seenIds`
and be acknowledged and dropped; the same happens after a restart of the sender, whose ids
begin again, even if they never wrap.

### ReliableDatagramReboot

A node may restart at any point (`Reboot`) or between acknowledging a message and
returning it (`RebootAfterAck`). Nothing is stored: the constructor runs again. No window is
assumed here. `OncePerBoot` is what is left of the promise: a boot of a receiver hands a
message over at most once, and none after a newer one.

### RoutingTable

`routes` is the array `_routes`. `Add`, `DeleteRouteTo`, `RetireOldestRoute` and
`ClearRoutingTable` are the public operations; `AddRouteTo` and `DeleteRoute` are the
private algorithms as operators on tables. The constructor sets only the states, so
`Init` lets destinations and next hops be anything. `deleteRoute` copies overlapping
rows with `memcpy`; the model copies forward, as the C libraries of the supported
boards do. Because clearing and shifting leave stale destinations in invalid rows, and
`addRouteTo` reuses those first, the invariant that makes the table a map is
`OneRoutePerDest`: a row in use is the *first* that names its destination, valid or
not. The refinement maps the table to what `getRouteTo` returns.

`RoutingTableAge` adds which routes are older than each (`elders`) and whether the table
has an orderly past (`past`): zeroed memory, valid routes only, never cleared. That is what
`RHMesh` and the examples do. `RowsByAge` says that the rows in use are then the first ones, in
order of age, and `EvictsOldest` that the route which makes room is the oldest.

### RF95Driver and RadioMailbox

The radio (`op`, `dio`, `flags`, `fifo`), the interrupt handler and one thread. The thread's
steps are single writes and reads of what the handler or the radio can see too, in the order
of the code; an interrupt is served between two of them whenever the pin is high.

| Action | Code (`RH/RH_RF95.cpp`) |
|---|---|
| `HearFrame`, `TxOver` | the chip: a frame or a transmission is over |
| `HandleRx`, `HandleTx`, `HandleOther` | `handleInterrupt`, with `validateRxBuf` |
| `Call`, `RxOp`, `RxDio`, `RxMode`, `Test` | `available` with `setModeRx` |
| `Copy`, `ClearRxBuf`, `HeaderFrom`, `HeaderId` | `recv` inside `RHDatagram::recvfrom`, which then reads the headers one by one |
| `Send`, `IdleOp`, `IdleMode`, `TxOp`, `TxDio`, `TxMode` | `send` with `setModeIdle` and `setModeTx` |

`available()` turns the receiver on even when an unread frame is in the buffer, so a second
frame can come in on it; `overrun` records that this made a difference, or that a frame came
in while another was half read. Until then the driver is a `RadioMailbox` (`ActsAsBox`).
Afterwards `recv` may return a frame for another node, or headers of one frame with the payload of
another; `driverforeign` shows the first. `PayloadsInOrder` and `ModesAgree` hold in all cases.

Broken frames are those with a checksum error, which the handler drops, and those shorter than
their headers. A short one that comes in on an unread frame leaves that frame's valid flag with a
`_bufLen` below 4; `recv` then computes a length of 252 or more in 8 bits and copies as much. The
model keeps of that length whether it is the frame's (`whole`). `HandedWhole` says that what is
handed over is in all cases the payload of a frame that was not broken, and that the length is
right until a frame was overrun; the box, which never overruns, only knows whole ones.

That `TxDone` comes after `_mode` is set to `RHModeTx` is an assumption about time, in the
guard of `TxOver`: a transmission lasts longer than one assignment. Interrupts are off in the
blocks `recv` marks; on platforms for which `RadioHead.h` defines those marks as empty, ESP32
among them, the copy itself can be torn, which the model leaves out.

### Mesh

A step is what a node does from taking a message, or a call of the application, until it polls
again, with the hops it waits for in between: those touch its own table and the inboxes of
others only, and nobody can hand a waiting node a message. (A waiting node does acknowledge
repetitions; they were delivered before.) A hop is what `ReliableDelivery` says of one: an
acknowledged message was delivered, an unacknowledged one may have been. `Hop` has all three
ends. A broadcast is heard by any subset of the neighbours that are free.

| Action | Code |
|---|---|
| `SendtoWait`, `SendtoAll`, `StartArp` | `RHMesh::sendtoWait`, `RH/RHMesh.cpp` 31-48; the request of `doArp`, 51-61 |
| `ArpResponse`, `ArpTimeout` | the wait of `doArp`, 69-88 |
| `Forward`, `Drop` | `RHRouter::recvfromAck`, and what falls through `RHMesh::recvfromAck` |
| `RecvApplication`, `AnswerRequest`, `PassRequest` | `RHMesh::recvfromAck`, 155-224 |
| `Route`, `RouteFailed`, `Peek` | `RHRouter::route`, `RHMesh::route`, `peekAtMessage` |

`peekAtMessage` learns routes from a response it forwards: to the nodes after the *next* one on
the path, and to whatever address lies in the buffer one octet behind it, since its loop skips a
node and runs one too far. `Stale` is the set of octets that may lie there. Messages keep in
`call` which call they belong to; nothing reads it but the history `delivered`.

A table holds `TableSize` routes. `AddRoutes` stands for several calls of `addRouteTo` in a row:
as `RouteMap` has it, any routes may make room but the one added last (which they are depends on
ages, the subject of `RoutingTableAge`), and `kept` says whether one has. So a request that came
further than the table has rows may leave its receiver without a route to its source, although
`RH/RHMesh.cpp:208` says "We are certain to have a route there": the source, if it is new, is added
first and evicted first. `broken` records that, as it does a failed hop. In `TypeOK` a table also has a place for
address 0, since that is what a zeroed buffer makes a node learn.

### CircularQueue and FifoQueue

One producer and one consumer at any point of their calls; each load or store the other
end can see is a step. The producers of a `circular_queue_mp` hold a lock during a push, so one
stands for all of them. `push_n` writes two blocks, whose sizes `FirstBlock` and `SecondBlock`
compute as the code does, with the room that may come out negative and is then a huge
`size_t`. `for_each_rev_requeue` moves the elements it keeps from the youngest back
(`StartSift`, `SiftOne`, `EndSift`), `for_each_requeue` and `pop_requeue` push as well as pop.

`FifoQueue` has the same operations as single steps on a sequence. `Sift` names no callback: it
says that the elements which stay and those which leave are the ones that were there, shared
between the two, the first in their order and the second in reverse. The refinement mapping
(`Items`) reads the slots between the positions; while elements are being sifted it puts
those seen so far between the others, and while one is being requeued it is in two slots and
counts once.

The code puts an element back without looking for room. In a full ring, or one that a producer
fills in between, the ring then looks empty and loses all. `RoomSpec` is the queue while
that does not happen; the contract of `for_each_requeue` does not mention it.

### ManagedSerialDevice

One thread; `at` says where `loop()` is, since the application and the callbacks may queue
commands in between. `Put` and `PutNext` are `execute` behind the queue and in front of it,
`ShiftLeft` and `ShiftRight` copy in the order of the code, which makes every slot the same one as
soon as more than two commands are there. So `care` records what clients did: `shallow` while the
queue held at most two commands and none was put before another, `patient` while none was put
before the one whose answer is awaited, `final` while failed commands were not executed again.
The properties say what holds under which care. `expired` and `late` stand for the comparisons
of deadlines with `millis()`; `Match` for an input that meets the expectation.

### SimpleTimer

`clock` is `millis()` modulo `ClockMod`; `elapsed` is the true time since the last
reset. `isReady` is the state function `IsReady`. The deadline is 64 bits wide and the clock 32, so
an interval that spans the wrap is never over; `ReadyBeforeWrap` says until when the timer works.

### RelayController

`ble` is the Bluetooth task inside a callback, `loop` the Arduino task in its pass; a
step of either is one access to something shared. The two assignments to the relay are
two steps, in the order of the code: status then pin, but for `b` the pin first. A
report captures the status in one step and sends it in another, since reading the DHT
sensor lies in between, and may fail. Clients connect, disconnect and write at any
moment the Bluetooth task is free. The number a client writes is a number of ticks;
any text but a number is 0 to `atoll`, including `a` and `b`.

The characteristic has one value for both directions: `Write` sets it, `ReadValue` is the
`getValue()` of `onWrite`, and a report of `loop()` in between takes its place (`LoopReports`). The
report then is what `onWrite` parses, a temperature, which as a number is too small to arm; the
command is lost. Strings torn by two tasks at once are left out.

The timer is that of `SimpleTimer` with its clock: `start` is `_start`, which the constructor sets
at the start of the program and only an expiry sets again, so a number counts from there and not from
its writing. `clock` wraps at `ClockMod` and the deadline does not. `TimerEnds` therefore has a
precondition, `InTime`: a deadline with a pass of `loop()` left before the wrap. Such a number does not
stay armed, whatever is written meanwhile. One whose deadline lies behind the wrap is never
over, and holds the relay on until a client writes; the run reaches both kinds. `PassTime` bounds
the ticks between two tests of the timer: the delays in a pass add up to seconds, those of the clock
to 49 days. What a task will not read again of its locals is reset, to save states.

Left out: the matrix, the buzzer, serial output, the dead branch on `timeStatus`
(never assigned: `timeStatus == 1;` is a comparison), and negative numbers, which
arm nothing. `disturbed` and `off` are history.

## Runs

| Run | Question | Result |
|---|---|---|
| `window` | two nodes, both sending, ids modulo 3, three messages each, in the window: the whole promise | holds |
| `reboot` | restarts anywhere, ids in no window: once per boot, in order; every call returns | holds |
| `table` | 3 rows, 4 destinations, any operations: a bounded map, operation by operation; if never cleared, rows stand in order of age and the oldest route is evicted | holds |
| `timer` | two turns of the clock: never early, in time until it wraps | holds |
| `relay` | two tasks and a clock that wraps: status and pin, off stays off; a number in time ends; advertising, reports | holds |
| `relayrace` | status and pin always agree when both tasks are done | **violated** |
| `queue` | producer and consumer anywhere in any two calls: slots apart, a queue | holds |
| `modem` | any modem and any clients: order while at most two commands wait and none is put before another (`shallow`), the own callback while none is put before the one awaited (`patient`), draining while failed commands are not executed again (`final`) | holds |
| `driver` | interrupts between any two steps: order, nothing broken, modes, the box until an overrun, transmissions end | holds |
| `driverforeign` | only frames for this node are handed over | **violated** |
| `mesh` | a line of four nodes, hops lost at will: paths, routes back, at most once, silence | holds |
| `meshreply` | two ways around: the routes of a reply lead to the requester while no hop fails | **violated** |

The violated runs are findings; `PROJECT.json` quotes the sentence of the sources each
contradicts. Bluetooth and `loop()` can leave the relay's status and pin apart. The LoRa driver can
hand up a frame for another node that overran an unread one. Copies of a route request that
arrive late can turn routes into a circle, in which the reply runs until its hops are used up.

Some limits of the code are built into a property or a specification, which says
up to where the code works:

* ids that repeat within the life of a frame, or begin again after a restart of the sender, make
  a message be acknowledged and dropped (`IdWindow`, `OncePerBoot`);
* `setRetries(255)` never gives up: `EveryCallReturns` holds for smaller limits, and the
  retry counter of the model has the width of the code's;
* clearing the routing table breaks the order of eviction (`past` in `RowsByAge`, `EvictsOldest`);
* a timer that spans the wrap of `millis()` never fires (`ReadyBeforeWrap`, `TimerEnds`);
* a short frame on an unread one makes the length wrap (`HandedWhole`, `ActsAsBox`);
* requeueing into a full ring loses its elements (`RoomSpec`);
* more than two modem commands, or one put before another, are overwritten (`care`).

### Bounds, and why they are enough

* *Nodes.* Two nodes give every interaction of a pair, in both directions at once. What a
  third adds (frames for others, the re-acknowledgement of one node while waiting for another)
  is covered by the theorems, which hold for any set of nodes.
* *Ids.* `ByteMod` 3 with three messages per sender repeats the id 0, which `_seenIds`
  starts with. Larger moduli behave like this one between wraps, and the theorems hold
  for all.
* *Retries* 1 has a first transmission, a repetition and giving up.
* *Restarts.* One, of either node, among three messages: the properties compare what is before
  and after one. The theorem holds for any number.
* *Table.* Three rows and four destinations are the least with a full table, a row
  before, between and after, and an eviction.
* *Clock* of 8 values, watched for 17 ticks: two wraps, an interval longer than a turn.
* *Relay.* A number that arms the timer and one that does not; two connections; two
  writes, so that a command can be overtaken and undone. A clock of three values has deadlines in
  time, at its last value, and behind the wrap; a pass takes one tick at most.
* *Driver.* Four frames: one unread, one on it, one half read, one after; for this node or another,
  short, or with a wrong checksum.
* *Ring.* Three elements in four slots, pushed and popped up to three at a time, with five pushed in
  all: both blocks of a push, every position of the wrap, a full and an empty ring.
* *Modem.* Three slots and three commands, one of them chained or retried: the queue is full, and
  has the third command that its shifting does not stand.
* *Mesh.* The line 1-2-3-4 is the first `RH_TEST_NETWORK` of `RHRouter`; its ends are three hops
  apart, and with a limit of two hops messages die as well as arrive. Two calls meet each other's
  discoveries. A table of two rows is too small for a request that came three hops, so routes make
  room in discovery. The second network has two ways around and a node behind them, and ten rows.
* Symmetry is declared over nodes in `window` and over addresses in `table`, which have no
  liveness properties.
* Deadlock is not checked where the system really may stop: datagrams and meshes with all
  messages sent, and a ring that has accepted its last element and is empty. It is checked
  everywhere else.

### Fairness

* `ReliableDatagramReboot`: a call in progress takes steps (its thread is in a loop that never
  blocks), and its deadline passes (`timeLeft` shrinks with `millis()` however many
  frames come in): weak fairness of the call, strong fairness of `Timeout`. Nothing is
  assumed of the application that should poll, nor of the medium.
* `RelayController`: both tasks are scheduled (FreeRTOS, two cores), time passes (`Tick` waits for a
  pass of `loop()` that has taken `PassTime`), and a
  sensor that is read for ever is not read in vain for ever. Clients may stop at any
  moment: connections and writes have no fairness.
* `ManagedSerialDevice`: `loop()` is called for ever and time passes. The modem may be silent.
* `RF95Driver`: a call in progress takes its steps, a raised interrupt is served, a transmission
  is over in the end. Nobody need call, and no frame need come.
* `Mesh`: every node polls, and a discovery ends after its four seconds. Hops may always fail.

## Proofs

TLAPS checks every theorem for all values of the constants that satisfy the named
assumptions: any set of nodes, addresses, clients and frames, any links between nodes, any
width of ids and clock, any capacity, limit and number of calls. Each proof module extends the
module it is about.

| Module | Theorems |
|---|---|
| `ReliableDatagramProofs` | `TypeCorrect`, `DeliveredInOrderOnce`, `AcknowledgedIsDelivered`, `BroadcastsStaySilent`, `PromiseKept`; `OncePerBootHolds` |
| `RoutingTableProofs` | `RowsKeepType`, `RouteIsUnique`, `TableIsMap`, `OperationsKeepTheirWord`, `RowsStandByAge`, `OldestIsGivenUp` |
| `MeshProofs` | `MeshTypes`, `RequestsWalk`, `RepliesFindAWay`, `HandedOverOnce` |
| `RF95DriverProofs` | `DriverTypes`, `OneMode`, `PayloadsAscend`, `OnlyWholeHanded`, `DriverIsBox` |
| `CircularQueueProofs` | `RingTypes`, `LockFree`, `RingIsFifo`, `PlainRingIsFifo` |
| `ManagedSerialDeviceProofs` | `ModemTypes`, `AnswerIsOwn`, `ShallowQueueKeeps` |
| `SimpleTimerProofs` | `TimerTypes`, `ReadyIsNeverEarly`, `ReadyUntilWrap` |
| `RelayControllerProofs` | `RelayTypes`, `ApartOnlyByOverlap`, `OffIsObeyed` |

**Datagrams.** `InOrderOnce` is not inductive. Its strengthening ties every copy of an
id to the message it came from: ids are serials modulo `ByteMod`; a request in a buffer
carries an id and serial of its sender, not newer than its last call; and as nodes send
one message at a time over a medium that never delays (a frame is in a buffer or
nowhere), a request in `m`'s buffer is at least as new as everything `m` was handed from
that sender. So a repetition has the id last seen, and a request with another id is newer.
No window is needed. For `AckedImpliesDelivered` the invariant (`WindowInv`) adds that an
acknowledgement in a buffer, or being waited for, belongs to a message that was handed
over; here two serials with one id must be the same serial, which is what `IdWindow` gives with
`SameResidue`. `PromiseKept` shows each step of `WindowSpec` to be a step of
`ReliableDelivery` or to leave its variables alone.

**Restarts.** Ids mean less here: a restarted sender begins them again. `BootInv` keeps what
survives: the serials of a node's calls grow across its restarts, a request in a buffer is not older
than what its reader's boot was handed, and one just as old has the id that boot has seen. So once
per boot needs neither a window nor a bound on restarts.

**Table.** `OneRoutePerDest` with the type is inductive. The work is in the lemmas on the
algorithms: searching from the front finds the least index (`FirstIsLeast`), deleting a
row keeps the order of the others (`DeleteRouteFirst`), retiring from a full table
frees exactly the last row (`RetireFreesLast`), and so an added route is the first with
its destination (`AddRouteToFirst`). For the refinement each operation is compared with that of
the map, and a full array is shown to hold as many destinations as rows.

For the order of eviction `RowsByAge` is inductive together with `OneRoutePerDest` and the types
(`AgeInv`). All invalid rows name one destination: either it has a route in front of them, which an
addition then updates in place, or the first of them is the row an addition takes, named or not.
`DeleteByAge` and `WriteByAge` show that deleting and writing keep the order; since retiring takes
the first row in use, that is the oldest route.

**Mesh.** The first lemmas reduce a step of a node to its effect (`Step`): its own table, the
message it sent into the inboxes of some neighbours (one, when it was routed), and the news of
a failure into one more. `MeshInv` says three things of every message in flight: it came over a
link; if it is a request its path is a walk without repetitions; unless a hop has failed or a route made room, the
nodes on its path know a way back (`Honest`). And for application messages (`Once`): they belong to
calls whose message is out, they have not been handed over where they are, and one for a single
node is in a single inbox. That last part is what makes forwarding safe although an unacknowledged
hop may have been delivered: the sender then drops its copy.

**Driver.** An interrupt is served between any two steps, so the invariant says for each place of
the thread what mode, operation and interrupt source may be. A broken frame sets its event flag as it
comes in and the handler looks at it, so none gets into `_buf` (`WholeInv`), and until an overrun
`_bufLen` goes with the frame that is marked valid. `DriverIsBox` maps the buffer and its
valid flag to the box, as long as nothing was overrun.

**Ring.** Between two accesses of the other end a position only frees more: the producer's idea of
the room is never too large, that of the consumer never too small (`LockFree`). `RingTypes`
shows the sizes of both blocks in range where the room comes out negative.

For the refinement the invariant (`QueueInv`) adds what each end has done so far: the slots a push
has filled hold the numbers it will publish (`Filled`); what a pop has read is what the slots hold,
and what `for_each_rev_requeue` has kept and given up is a sifting of what it has seen (`Emptied`).
A step of one end leaves both alone, as it writes only slots the other does not look at (`FilledKept`,
`EmptiedKept`). Everything else is about reading slots between two positions (`View`): a way of
two parts is read as two parts (`ViewSplit`), so publishing appends, moving `m_outPos` drops from the
front, putting an element back rotates, and an element that `SiftOne` moves up is in front of those
moved before. The two lemmas `SiftedKeep` and `SiftedDrop` extend a sifting by one element in front;
they are why `Sift` can be proved without an induction: each step of the consumer is one.
`RingIsFifo` has the proviso of `RoomSpec`. `PlainRingIsFifo` needs none: only `for_each_requeue`
puts elements back while producers are let in, and a `circular_queue` has no such operation.

**Modem queue.** An awaited answer means that the queue is not empty (`Busy`): `abort` and both
ends of a command stop the waiting when the queue shrinks. While the use is shallow, slots and
open commands agree one by one and differ from each other (`InOrder`), so the command that leaves is the
first open one and what is left is the tail. A command executed again by its failure callback stands
in front of a queue that may be full, and ends the shallow use.

**Timer.** The clock is never further from `_start` than the true time, and exactly as far
until it wraps.

**Relay.** Two writers inside their pairs of assignments at once have marked the relay
disturbed; when it is not, a writer finds after its first assignment what it put there.
The command `b` sets `f2` to 0 before it touches the relay, so no pass of `loop()` that
begins to hold the relay on afterwards exists until the next command.

Only model-checked: liveness, since fairness and ENABLED are outside the prover. Every invariant,
action property and refinement a passing run checks is also the statement of a theorem.

## Not modelled

`PROJECT.json` lists every component with its status and the reason.

*Most of the repository.* Of its million lines nearly all are third-party libraries and their
examples, kept as they were downloaded: display drivers with fonts and bitmaps as headers
(`TFT_eSPI`, `U8g2`), FastLED, BearSSL, ArduinoJson, network stacks, and drivers of single chips.
They are data, register sequences, drawing, parsing and cryptography without a protocol of
their own, or a shell around a system (lwIP, FreeRTOS, an SPI chip) that is not here. So the
models cover under one per cent of all lines, though they cover the better part of each class
named under "Modules". A model of a table of glyphs would say nothing.

*Hazards left out of the list*, each a line that is what it is and has no sequence of steps behind it:

* `RH/RHReliableDatagram.cpp:74`: `_timeout` above 32767 overflows the `uint16_t` timeout; setters
  called while a message is in flight;
* `RH/RHRouter.cpp:100`: `memcpy` over overlapping rows, undefined in C;
* `RH/RHRouter.cpp:16`, `RH/RHMesh.cpp`: static message buffers, shared by all routers of a program
  (there is one);
* `final.ino:142`: `sarray` (a `String`) and the DHT driver are used by both tasks without a lock;
* `RH/RHMesh.cpp:65`: the length of a message as received, not checked against the path in it;
* `ManagedSerialDevice.cpp:274`: the deadline is compared after `millis()` has wrapped;
  an `abort()` from the failure callback, which the library's own callbacks never call.

*Within the models:* concurrent use of one `RHReliableDatagram` by several threads (the class is
documented as not threaded), radio timing and power, clear-channel assessment, sleep, and the
contents of messages, pages and reports.

## Plan

Done: datagrams and restarts, table, driver, mesh, ring, modem queue, timer, relay controller,
with the theorems above. Left, in this order:

1. the SMS relay sketch with its heating mode, once its modem is more than a stream of text;
2. theorems on the compositions: that a hop of `Mesh` is a call of `ReliableDelivery`, and the table of
   a node a `RouteMap`.
