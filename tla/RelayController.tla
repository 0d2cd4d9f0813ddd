-------------------------- MODULE RelayController --------------------------
(***************************************************************************)
(* The sketch final.ino: a relay driven over Bluetooth, by a timer and by a*)
(* motion sensor.                                                          *)
(*                                                                         *)
(* Two tasks share its globals without a lock: the Bluetooth task runs the *)
(* callbacks (onConnect, onDisconnect, onWrite), the Arduino task runs     *)
(* loop(). A step here is one access to something shared; what a task does *)
(* between two accesses is folded into the step. The relay is on when its  *)
(* pin is LOW.                                                             *)
(*                                                                         *)
(* The clock is millis(), in ticks, and begins again at 0 after ClockMod of*)
(* them, as in module SimpleTimer; the timer's deadline is wider and does  *)
(* not wrap.                                                               *)
(***************************************************************************)
EXTENDS Integers

CONSTANTS Numbers,     \* the numbers a client writes, in ticks; 0 for any other text
          Threshold,   \* 1000 ms: a number up to this arms nothing
          ClockMod,    \* number of values of millis(): 2^32
          PassTime,    \* bound: ticks between two passes' tests of the timer
          MaxLinks,    \* bound on simultaneous connections
          MaxWrites    \* bound on the writes of all clients

ASSUME NumbersAssumption == Numbers \subseteq Nat /\ 0 \in Numbers
ASSUME BoundsAssumption == /\ Threshold \in Nat /\ ClockMod \in Nat \ {0}
                           /\ PassTime \in Nat
                           /\ MaxLinks \in Nat /\ MaxWrites \in Nat

VARIABLES
  relay,     \* status: releStatus, pin: the level of the relay pin
  timer,     \* f2; interval and start: the SimpleTimer; clock: millis();
             \* waited: ticks since loop() last tested the timer
  link,      \* up: connections, conn, old: (old)deviceConnected, adv: advertising
  ble,       \* the Bluetooth task: pc, the command, the status captured; until
             \* onWrite has read it, the command is the characteristic's value
  loop,      \* the Arduino task: pc, the status captured
  reported,  \* the status in the last notification
  writes,    \* writes so far
  disturbed, \* history: the tasks' last writes to the relay overlapped
  off        \* history: "b" was the last command, and nothing overlapped it

vars == <<relay, timer, link, ble, loop, reported, writes, disturbed, off>>

Command == [kind : {"on", "off", "empty"}, value : {0}]
           \cup [kind : {"number"}, value : Numbers]

\* A report as a command: "23.00,40.00,1" reads as a number too small to arm.
Report == [kind |-> "number", value |-> 0]

Empty == [kind |-> "empty", value |-> 0]

BleWriting  == ble.pc \in {"on1", "on2", "off1", "off2"}
LoopWriting == loop.pc \in {"timer1", "timer2", "expire1", "expire2", "motion1", "motion2"}

\* setup() has run; callbacks may already have come in before loop() starts.
Init ==
  /\ relay = [status |-> FALSE, pin |-> "HIGH"]
  /\ timer = [f2 |-> 0, interval |-> 0, start |-> 0, clock |-> 0, waited |-> 0]
  /\ link = [up |-> 0, conn |-> FALSE, old |-> FALSE, adv |-> TRUE]
  /\ ble = [pc |-> "idle", cmd |-> Empty, seen |-> FALSE]
  /\ loop = [pc |-> "disconnected", seen |-> FALSE]
  /\ reported = FALSE
  /\ writes = 0
  /\ disturbed = FALSE
  /\ off = FALSE

-----------------------------------------------------------------------------
(* Steps shared by the tasks.  What a task will not read again is reset.   *)

SetStatus(s) == relay' = [relay EXCEPT !.status = s]
SetPin(l)    == relay' = [relay EXCEPT !.pin = l]

\* dht11 reads the sensor; when that fails it notifies nobody.
Notify(seen) == reported' \in {reported, seen}

\* From loop() the report may take the place of a value just written that
\* onWrite has not read yet: the characteristic has but one.
LoopReports(seen) ==
  /\ reported' = seen
  /\ ble' = IF ble.pc = "read" THEN [ble EXCEPT !.cmd = Report] ELSE ble

LoopNotifies(seen) == LoopReports(seen) \/ UNCHANGED <<reported, ble>>

BleAt(pc)   == ble.pc = pc
BleTo(pc)   == ble' = [ble EXCEPT !.pc = pc]
BleEnds(pc) == ble' = [ble EXCEPT !.pc = pc, !.seen = FALSE]
LoopAt(pc)  == loop.pc = pc
LoopTo(pc)  == loop' = [loop EXCEPT !.pc = pc]
LoopEnds(pc) == loop' = [pc |-> pc, seen |-> FALSE]

Enter(otherWriting) == disturbed' = otherWriting

-----------------------------------------------------------------------------
(* The Bluetooth task                                                      *)

\* Fault: onConnect leaves advertising to loop().
ConnectSilently ==
  /\ BleAt("idle")
  /\ link.adv /\ link.up < MaxLinks
  /\ link' = [link EXCEPT !.up = @ + 1, !.conn = TRUE, !.adv = FALSE]
  /\ UNCHANGED <<relay, timer, ble, loop, reported, writes, disturbed, off>>

\* A client connects, which stops advertising; onConnect sets the flag ...
Connect ==
  /\ BleAt("idle")
  /\ link.adv /\ link.up < MaxLinks
  /\ link' = [link EXCEPT !.up = @ + 1, !.conn = TRUE, !.adv = FALSE]
  /\ BleTo("advertise")
  /\ UNCHANGED <<relay, timer, loop, reported, writes, disturbed, off>>

\* ... and advertises again, for the next client.
OnConnectAdvertise ==
  /\ BleAt("advertise")
  /\ link' = [link EXCEPT !.adv = TRUE]
  /\ BleTo("idle")
  /\ UNCHANGED <<relay, timer, loop, reported, writes, disturbed, off>>

OnDisconnect ==
  /\ BleAt("idle")
  /\ link.up > 0
  /\ link' = [link EXCEPT !.up = @ - 1, !.conn = FALSE]
  /\ UNCHANGED <<relay, timer, ble, loop, reported, writes, disturbed, off>>

\* A client writes the characteristic, and onWrite is called ...
Write(c) ==
  /\ BleAt("idle")
  /\ link.up > 0
  /\ writes < MaxWrites
  /\ writes' = writes + 1
  /\ ble' = [ble EXCEPT !.pc = "read", !.cmd = c]
  /\ off' = (off /\ c.kind = "empty")
  /\ UNCHANGED <<relay, timer, link, loop, reported, disturbed>>

\* ... which reads the value; an empty one only makes it notify.
ReadValue ==
  /\ BleAt("read")
  /\ BleTo(IF ble.cmd.kind = "empty" THEN "capture2" ELSE "parse")
  /\ UNCHANGED <<relay, timer, link, loop, reported, writes, disturbed, off>>

\* Where onWrite goes on after the assignment to f2.
AfterParse == CASE ble.cmd.kind = "on"  -> "on1"
                [] ble.cmd.kind = "off" -> "off1"
                [] OTHER                -> "capture1"

\* Fault: short values are not parsed (as in the sketch esp32_multitasking).
ParseLongOnly ==
  /\ BleAt("parse")
  /\ timer' = IF ble.cmd.kind = "number" THEN [timer EXCEPT !.f2 = ble.cmd.value] ELSE timer
  /\ BleTo(AfterParse)
  /\ IF ble.cmd.kind = "number" THEN UNCHANGED disturbed ELSE Enter(LoopWriting)
  /\ UNCHANGED <<relay, link, loop, reported, writes, off>>

\* f2 = atoll(value): every text but a number disarms the timer.
Parse ==
  /\ BleAt("parse")
  /\ timer' = [timer EXCEPT !.f2 = ble.cmd.value]
  /\ ble' = [ble EXCEPT !.pc = AfterParse, !.cmd = Empty]
  /\ IF ble.cmd.kind = "number" THEN UNCHANGED disturbed ELSE Enter(LoopWriting)
  /\ UNCHANGED <<relay, link, loop, reported, writes, off>>

\* "a": the status first, then the pin.
On == /\ \/ BleAt("on1") /\ SetStatus(TRUE) /\ BleTo("on2")
         \/ BleAt("on2") /\ SetPin("LOW") /\ BleTo("capture1")
      /\ UNCHANGED <<timer, link, loop, reported, writes, disturbed, off>>

\* Fault: "b" leaves the status to loop().
OffPinOnly ==
  /\ \/ BleAt("off1") /\ SetPin("HIGH") /\ BleTo("off2") /\ UNCHANGED off
     \/ BleAt("off2") /\ BleTo("capture1") /\ off' = ~disturbed /\ UNCHANGED relay
  /\ UNCHANGED <<timer, link, loop, reported, writes, disturbed>>

\* "b": the pin first, then the status.
Off == /\ \/ BleAt("off1") /\ SetPin("HIGH") /\ BleTo("off2") /\ UNCHANGED off
          \/ BleAt("off2") /\ SetStatus(FALSE) /\ BleTo("capture1") /\ off' = ~disturbed
       /\ UNCHANGED <<timer, link, loop, reported, writes, disturbed>>

\* dht11(releStatus), twice: the argument is read long before it is sent.
BleNotify ==
  /\ \/ /\ BleAt("capture1")
        /\ ble' = [ble EXCEPT !.pc = "report1", !.seen = relay.status]
        /\ UNCHANGED reported
     \/ BleAt("report1") /\ Notify(ble.seen) /\ BleEnds("capture2")
     \/ /\ BleAt("capture2")
        /\ ble' = [ble EXCEPT !.pc = "report2", !.seen = relay.status]
        /\ UNCHANGED reported
     \/ BleAt("report2") /\ Notify(ble.seen) /\ BleEnds("idle")
  /\ UNCHANGED <<relay, timer, link, loop, writes, disturbed, off>>

-----------------------------------------------------------------------------
(* The Arduino task: one pass through loop()                               *)

\* A client went away: after a delay, advertise and copy the flag.
Disconnected ==
  /\ \/ LoopAt("disconnected") /\ UNCHANGED link
        /\ LoopTo(IF ~link.conn /\ link.old THEN "advertise" ELSE "connecting")
     \/ LoopAt("advertise") /\ link' = [link EXCEPT !.adv = TRUE] /\ LoopTo("forget")
     \/ LoopAt("forget") /\ link' = [link EXCEPT !.old = link.conn] /\ LoopTo("connecting")
  /\ UNCHANGED <<relay, timer, ble, reported, writes, disturbed, off>>

\* A client came: copy the flag and tell it the status.
Connecting ==
  /\ \/ LoopAt("connecting") /\ UNCHANGED <<link, reported, ble>>
        /\ LoopTo(IF link.conn /\ ~link.old THEN "greet1" ELSE "interval")
     \/ LoopAt("greet1") /\ UNCHANGED <<reported, ble>>
        /\ link' = [link EXCEPT !.old = link.conn] /\ LoopTo("greet2")
     \/ LoopAt("greet2") /\ UNCHANGED <<link, reported, ble>>
        /\ loop' = [pc |-> "greet3", seen |-> relay.status]
     \/ LoopAt("greet3") /\ UNCHANGED link /\ LoopNotifies(loop.seen) /\ LoopEnds("interval")
  /\ UNCHANGED <<relay, timer, writes, disturbed, off>>

\* Fault: setting the interval also restarts the timer.
SetIntervalRestarts ==
  /\ LoopAt("interval")
  /\ timer' = [timer EXCEPT !.interval = timer.f2, !.start = timer.clock]
  /\ LoopTo("armed")
  /\ UNCHANGED <<relay, link, ble, reported, writes, disturbed, off>>

SetInterval ==
  /\ LoopAt("interval")
  /\ timer' = [timer EXCEPT !.interval = timer.f2]
  /\ LoopTo("armed")
  /\ UNCHANGED <<relay, link, ble, reported, writes, disturbed, off>>

\* if (f2 > 1000): the relay is switched on, in every pass.
Armed ==
  /\ LoopAt("armed")
  /\ \/ /\ timer.f2 > Threshold
        /\ LoopTo("timer1") /\ Enter(BleWriting) /\ UNCHANGED timer
     \/ /\ timer.f2 <= Threshold
        /\ LoopTo("motion") /\ UNCHANGED disturbed
        /\ timer' = [timer EXCEPT !.waited = 0]
  /\ UNCHANGED <<relay, link, ble, reported, writes, off>>

HoldOn ==
  /\ \/ LoopAt("timer1") /\ SetStatus(TRUE) /\ LoopTo("timer2")
     \/ LoopAt("timer2") /\ SetPin("LOW") /\ LoopTo("ready")
  /\ UNCHANGED <<timer, link, ble, reported, writes, disturbed, off>>

\* Timer.isReady(), which compares a wide deadline with the narrow clock.
IsReady == timer.start + timer.interval <= timer.clock

Ready ==
  /\ LoopAt("ready")
  /\ \/ IsReady  /\ LoopTo("expire1") /\ Enter(BleWriting)
     \/ ~IsReady /\ LoopTo("motion") /\ UNCHANGED disturbed
  /\ timer' = [timer EXCEPT !.waited = 0]
  /\ UNCHANGED <<relay, link, ble, reported, writes, off>>

\* Fault: the time gone by is subtracted instead.
ExpireSubtracts ==
  /\ \/ LoopAt("expire1") /\ SetStatus(FALSE) /\ LoopTo("expire2") /\ UNCHANGED timer
     \/ LoopAt("expire2") /\ SetPin("HIGH") /\ LoopTo("disarm") /\ UNCHANGED timer
     \/ LoopAt("disarm") /\ LoopTo("motion") /\ UNCHANGED relay
        /\ timer' = [timer EXCEPT !.start = timer.clock,
                                  !.f2 = @ - (timer.clock - timer.start)]
  /\ UNCHANGED <<link, ble, reported, writes, disturbed, off>>

\* Time is up: off, Timer.reset(), f2 = 0.
Expire ==
  /\ \/ LoopAt("expire1") /\ SetStatus(FALSE) /\ LoopTo("expire2") /\ UNCHANGED timer
     \/ LoopAt("expire2") /\ SetPin("HIGH") /\ LoopTo("disarm") /\ UNCHANGED timer
     \/ LoopAt("disarm") /\ LoopTo("motion") /\ UNCHANGED relay
        /\ timer' = [timer EXCEPT !.start = timer.clock, !.f2 = 0]
  /\ UNCHANGED <<link, ble, reported, writes, disturbed, off>>

\* The motion sensor reads anything; motion switches the relay off.
Motion ==
  /\ \/ LoopAt("motion") /\ LoopTo("motion1") /\ Enter(BleWriting) /\ UNCHANGED relay
     \/ LoopAt("motion") /\ LoopTo("capture") /\ UNCHANGED <<relay, disturbed>>
     \/ LoopAt("motion1") /\ SetStatus(FALSE) /\ LoopTo("motion2") /\ UNCHANGED disturbed
     \/ LoopAt("motion2") /\ SetPin("HIGH") /\ LoopTo("capture") /\ UNCHANGED disturbed
  /\ UNCHANGED <<timer, link, ble, reported, writes, off>>

\* Fault: the pass ends with the notification of the status it started with.
LoopNotifyStale ==
  /\ \/ LoopAt("capture") /\ LoopTo("report") /\ UNCHANGED <<reported, ble>>
     \/ LoopAt("report") /\ LoopNotifies(loop.seen) /\ LoopEnds("disconnected")
  /\ UNCHANGED <<relay, timer, link, writes, disturbed, off>>

LoopNotify ==
  /\ \/ /\ LoopAt("capture")
        /\ loop' = [pc |-> "report", seen |-> relay.status]
        /\ UNCHANGED <<reported, ble>>
     \/ LoopAt("report") /\ LoopNotifies(loop.seen) /\ LoopEnds("disconnected")
  /\ UNCHANGED <<relay, timer, link, writes, disturbed, off>>

\* Time passes; a pass of loop() is over before PassTime is.
Tick ==
  /\ timer.waited < PassTime
  /\ timer' = [timer EXCEPT !.clock = (@ + 1) % ClockMod, !.waited = @ + 1]
  /\ UNCHANGED <<relay, link, ble, loop, reported, writes, disturbed, off>>

-----------------------------------------------------------------------------
Client == Connect \/ OnDisconnect \/ \E c \in Command : Write(c)

Callback == OnConnectAdvertise \/ ReadValue \/ Parse \/ On \/ Off \/ BleNotify

LoopPass == \/ Disconnected \/ Connecting \/ SetInterval \/ Armed \/ HoldOn
            \/ Ready \/ Expire \/ Motion \/ LoopNotify

Next == Client \/ Callback \/ LoopPass \/ Tick

Spec == Init /\ [][Next]_vars

\* Both tasks run on, time passes, and a sensor that is read for ever is read
\* with success for ever.  Clients may stop at any moment.
SensorRead == LoopAt("report") /\ LoopNotify /\ LoopReports(loop.seen)

Fairness == /\ WF_vars(Callback)
            /\ WF_vars(LoopPass)
            /\ WF_vars(Tick)
            /\ SF_vars(SensorRead)

FairSpec == Spec /\ Fairness

-----------------------------------------------------------------------------
(* Properties                                                              *)

BlePc  == {"idle", "advertise", "read", "parse", "on1", "on2", "off1", "off2",
           "capture1", "report1", "capture2", "report2"}
LoopPc == {"disconnected", "advertise", "forget", "connecting", "greet1", "greet2",
           "greet3", "interval", "armed", "timer1", "timer2", "ready", "expire1",
           "expire2", "disarm", "motion", "motion1", "motion2", "capture", "report"}

RelayType == [status : BOOLEAN, pin : {"LOW", "HIGH"}]
Times     == 0..(ClockMod - 1)
TimerType == [f2 : Numbers, interval : Numbers, start : Times, clock : Times,
              waited : 0..PassTime]
LinkType  == [up : 0..MaxLinks, conn : BOOLEAN, old : BOOLEAN, adv : BOOLEAN]
BleType   == [pc : BlePc, cmd : Command, seen : BOOLEAN]
LoopType  == [pc : LoopPc, seen : BOOLEAN]

\* Every variable keeps the type of what it stands for.
TypeOK == /\ relay \in RelayType
          /\ timer \in TimerType
          /\ link \in LinkType
          /\ ble \in BleType
          /\ loop \in LoopType
          /\ writes \in 0..MaxWrites
          /\ {reported, disturbed, off} \subseteq BOOLEAN

Settled == ~BleWriting /\ ~LoopWriting

Agree == relay.status <=> relay.pin = "LOW"

\* The comment at the declaration of releStatus: true is LOW is on, false is
\* HIGH is off, whenever neither task is between its two assignments.
StatusIsPin == Settled => Agree

\* What is left of it: status and pin part only when the tasks' writes overlap,
\* and the next change that nothing overlaps brings them together again.
ApartOnlyAfterOverlap == Settled /\ ~disturbed => Agree

\* An "off" command that no write of loop() overlaps is obeyed until the next
\* command, whatever the timer was doing: writing "b" also disarms it.
OffStaysOff == off => relay = [status |-> FALSE, pin |-> "HIGH"]

\* The deadline of a number is counted from the last reset of the timer, not from
\* its writing. In time is one that leaves a pass of loop() before the clock wraps:
\* the timer is tested after it in every turn of the clock.
InTime(n) == n > Threshold /\ timer.start + n + PassTime <= ClockMod

\* Such a number does not stay armed for ever, whatever clients write while it
\* expires. (A later deadline may fall between two tests, and one behind the wrap is
\* never reached: such a number holds the relay on until a client writes.)
TimerEnds == \A n \in Numbers : (timer.f2 = n /\ InTime(n)) ~> (timer.f2 # n)

\* When the last client is gone the sketch advertises, however the connection
\* and its end fall between the two tests of deviceConnected in loop().
Reachable == (link.up = 0) ~> (link.adv \/ link.up > 0)

\* Notifications may be late and out of order, but when the clients are done
\* writing they come to tell the status of the relay, again and again.
ReportsCatchUp == []<>(reported = relay.status)
=============================================================================
