----------------------- MODULE RelayControllerProofs -----------------------
(***************************************************************************)
(* RelayController for all numbers, thresholds and bounds.                 *)
(*                                                                         *)
(* The argument: two writers of the relay that are inside their pair of    *)
(* assignments together have marked the relay disturbed (Overlap).  While  *)
(* it is not, each writer finds after its first assignment what it put     *)
(* there (HalfWritten), so its second one makes status and pin agree.  The *)
(* command "b" has disarmed the timer before its first assignment          *)
(* (Disarmed), so loop() can only switch the relay off until the next one. *)
(***************************************************************************)
EXTENDS RelayController, TLAPS

Overlap == BleWriting /\ LoopWriting => disturbed

HalfWritten ==
  ~disturbed =>
    /\ ble.pc = "on2" \/ loop.pc = "timer2" => relay.status
    /\ ble.pc = "off2" => relay.pin = "HIGH"
    /\ loop.pc \in {"expire2", "motion2"} => ~relay.status

Disarmed ==
  /\ ble.pc = "parse" => ble.cmd.kind # "empty"
  /\ ble.pc \in {"off1", "off2"} => timer.f2 = 0
  /\ off => /\ timer.f2 = 0
            /\ ble.pc \notin {"on1", "on2", "off1", "off2"}
            /\ ble.pc \in {"read", "parse"} => ble.cmd \in {Empty, Report}
            /\ loop.pc \notin {"timer1", "timer2"}

LEMMA TypeInit == Init => TypeOK
<1> SUFFICES ASSUME Init PROVE TypeOK
    OBVIOUS
<1>1. Empty \in Command
      BY DEF Command, Empty
<1>2. /\ 0 \in Numbers /\ 0 \in Times /\ 0 \in 0..PassTime
      /\ 0 \in 0..MaxLinks /\ 0 \in 0..MaxWrites
      BY NumbersAssumption, BoundsAssumption DEF Times
<1> QED  BY <1>1, <1>2 DEF Init, TypeOK, RelayType, TimerType, LinkType, BleType, LoopType,
                             BlePc, LoopPc

LEMMA WritingType == BleWriting \in BOOLEAN /\ LoopWriting \in BOOLEAN
BY DEF BleWriting, LoopWriting

LEMMA CommandType == Empty \in Command /\ Report \in Command
BY NumbersAssumption DEF Command, Empty, Report

\* A tick keeps the clock in its width.
LEMMA ClockType == ASSUME NEW c \in Times PROVE (c + 1) % ClockMod \in Times
<1>1. (c + 1) % ClockMod = IF c + 1 = ClockMod THEN 0 ELSE c + 1
      BY BoundsAssumption DEF Times
<1> QED  BY <1>1, BoundsAssumption DEF Times

LEMMA LoopRecord == ASSUME NEW p \in LoopPc, NEW b \in BOOLEAN
                    PROVE  [pc |-> p, seen |-> b] \in LoopType
BY DEF LoopType

\* What a report of loop() changes of the Bluetooth task: a value not yet read.
LEMMA ReportKeeps ==
  ASSUME TypeOK, NEW s \in BOOLEAN, LoopNotifies(s)
  PROVE  /\ ble' \in BleType /\ reported' \in BOOLEAN
         /\ ble'.pc = ble.pc /\ ble'.cmd \in {ble.cmd, Report}
         /\ ble.pc # "read" => ble' = ble
BY CommandType DEF TypeOK, BleType, LoopNotifies, LoopReports

LEMMA TypeStep == TypeOK /\ [Next]_vars => TypeOK'
<1> SUFFICES ASSUME TypeOK, [Next]_vars PROVE TypeOK'
    OBVIOUS
<1>1. CASE Connect
  <2>1. link' \in LinkType
    <3>1. link' = [up |-> link.up + 1, conn |-> TRUE, old |-> link.old, adv |-> FALSE]
          BY <1>1 DEF TypeOK, Connect, LinkType
    <3>2. link.up + 1 \in 0..MaxLinks /\ link.old \in BOOLEAN
          BY <1>1, BoundsAssumption DEF TypeOK, Connect, LinkType
    <3> QED  BY <3>1, <3>2 DEF LinkType
  <2>2. ble' \in BleType
        BY <1>1 DEF TypeOK, Connect, BleType, BlePc, BleAt, BleTo
  <2>3. UNCHANGED <<relay, timer, loop, reported, writes, disturbed, off>>
        BY <1>1 DEF Connect
  <2> QED  BY <2>1, <2>2, <2>3 DEF TypeOK
<1>2. CASE OnDisconnect
  <2>1. link' \in LinkType
    <3>1. link' = [up |-> link.up - 1, conn |-> FALSE, old |-> link.old, adv |-> link.adv]
          BY <1>2 DEF TypeOK, OnDisconnect, LinkType
    <3>2. link.up - 1 \in 0..MaxLinks /\ link.old \in BOOLEAN /\ link.adv \in BOOLEAN
          BY <1>2, BoundsAssumption DEF TypeOK, OnDisconnect, LinkType
    <3> QED  BY <3>1, <3>2 DEF LinkType
  <2>2. UNCHANGED <<relay, timer, ble, loop, reported, writes, disturbed, off>>
        BY <1>2 DEF OnDisconnect
  <2> QED  BY <2>1, <2>2 DEF TypeOK
<1>3. ASSUME NEW c \in Command, Write(c) PROVE TypeOK'
  <2>1. ble' \in BleType
        BY <1>3 DEF TypeOK, Write, BleType, BlePc, BleAt
  <2>2. writes' \in 0..MaxWrites
        BY <1>3, NumbersAssumption, BoundsAssumption DEF TypeOK, Write, BleAt
  <2>3. off' \in BOOLEAN
        BY <1>3 DEF TypeOK, Write, BleAt
  <2>4. UNCHANGED <<relay, timer, link, loop, reported, disturbed>>
        BY <1>3 DEF Write
  <2> QED  BY <2>1, <2>2, <2>3, <2>4 DEF TypeOK
<1>4. CASE OnConnectAdvertise
  <2>1. link' \in LinkType
        BY <1>4 DEF TypeOK, OnConnectAdvertise, LinkType, BleAt, BleTo
  <2>2. ble' \in BleType
        BY <1>4 DEF TypeOK, OnConnectAdvertise, BleType, BlePc, BleAt, BleTo
  <2>3. UNCHANGED <<relay, timer, loop, reported, writes, disturbed, off>>
        BY <1>4 DEF OnConnectAdvertise
  <2> QED  BY <2>1, <2>2, <2>3 DEF TypeOK
<1>5. CASE Parse
  <2>1. timer' \in TimerType
        BY <1>5, NumbersAssumption, BoundsAssumption DEF TypeOK, Parse, TimerType, BleType, Command, AfterParse, BleAt, BleTo, Enter
  <2>2. ble' \in BleType
        BY <1>5, CommandType DEF TypeOK, Parse, BleType, BlePc, AfterParse, BleAt, Enter
  <2>3. disturbed' \in BOOLEAN
        BY <1>5, WritingType DEF TypeOK, Parse, AfterParse, BleAt, BleTo, Enter
  <2>4. UNCHANGED <<relay, link, loop, reported, writes, off>>
        BY <1>5 DEF Parse
  <2> QED  BY <2>1, <2>2, <2>3, <2>4 DEF TypeOK
<1>6. CASE On
  <2>1. relay' \in RelayType
        BY <1>6 DEF TypeOK, On, RelayType, BleAt, BleTo, SetStatus, SetPin
  <2>2. ble' \in BleType
        BY <1>6 DEF TypeOK, On, BleType, BlePc, BleAt, BleTo, SetStatus, SetPin
  <2>3. UNCHANGED <<timer, link, loop, reported, writes, disturbed, off>>
        BY <1>6 DEF On
  <2> QED  BY <2>1, <2>2, <2>3 DEF TypeOK
<1>7. CASE Off
  <2>1. relay' \in RelayType
        BY <1>7 DEF TypeOK, Off, RelayType, BleAt, BleTo, SetStatus, SetPin
  <2>2. ble' \in BleType
        BY <1>7 DEF TypeOK, Off, BleType, BlePc, BleAt, BleTo, SetStatus, SetPin
  <2>3. off' \in BOOLEAN
        BY <1>7 DEF TypeOK, Off, BleAt, BleTo, SetStatus, SetPin
  <2>4. UNCHANGED <<timer, link, loop, reported, writes, disturbed>>
        BY <1>7 DEF Off
  <2> QED  BY <2>1, <2>2, <2>3, <2>4 DEF TypeOK
<1>8. CASE BleNotify
  <2>1. ble' \in BleType
        BY <1>8 DEF TypeOK, BleNotify, BleType, BlePc, RelayType, BleAt, BleEnds, Notify
  <2>2. reported' \in BOOLEAN
        BY <1>8 DEF TypeOK, BleNotify, BleType, BleAt, BleEnds, Notify
  <2>3. UNCHANGED <<relay, timer, link, loop, writes, disturbed, off>>
        BY <1>8 DEF BleNotify
  <2> QED  BY <2>1, <2>2, <2>3 DEF TypeOK
<1>9. CASE Disconnected
  <2>1. link' \in LinkType
        BY <1>9 DEF TypeOK, Disconnected, LinkType, LoopAt, LoopTo
  <2>2. loop' \in LoopType
        BY <1>9 DEF TypeOK, Disconnected, LoopType, LoopPc, LoopAt, LoopTo
  <2>3. UNCHANGED <<relay, timer, ble, reported, writes, disturbed, off>>
        BY <1>9 DEF Disconnected
  <2> QED  BY <2>1, <2>2, <2>3 DEF TypeOK
<1>10. CASE Connecting
  <2>1. link' \in LinkType
        BY <1>10 DEF TypeOK, Connecting, LinkType, LoopAt, LoopTo
  <2>2. reported' \in BOOLEAN /\ ble' \in BleType
        BY <1>10, ReportKeeps DEF TypeOK, Connecting, LoopType, LoopAt, LoopTo
  <2>3. loop' \in LoopType
    <3>1. relay.status \in BOOLEAN  BY DEF TypeOK, RelayType
    <3>2. {"greet1", "greet2", "greet3", "interval"} \subseteq LoopPc  BY DEF LoopPc
    <3>3. \/ LoopTo("greet1") \/ LoopTo("interval") \/ LoopTo("greet2")
          \/ loop' = [pc |-> "greet3", seen |-> relay.status]
          \/ loop' = [pc |-> "interval", seen |-> FALSE]
          BY <1>10 DEF Connecting, LoopEnds
    <3>4. ASSUME NEW p \in LoopPc, LoopTo(p) PROVE loop' \in LoopType
          BY <3>4 DEF TypeOK, LoopType, LoopTo
    <3>5. /\ [pc |-> "greet3", seen |-> relay.status] \in LoopType
          /\ [pc |-> "interval", seen |-> FALSE] \in LoopType
          BY <3>1, <3>2, LoopRecord
    <3> QED  BY <3>2, <3>3, <3>4, <3>5
  <2>4. UNCHANGED <<relay, timer, writes, disturbed, off>>
        BY <1>10 DEF Connecting
  <2> QED  BY <2>1, <2>2, <2>3, <2>4 DEF TypeOK
<1>11. CASE SetInterval
  <2>1. timer' \in TimerType
        BY <1>11, NumbersAssumption, BoundsAssumption DEF TypeOK, SetInterval, TimerType, LoopAt, LoopTo
  <2>2. loop' \in LoopType
        BY <1>11 DEF TypeOK, SetInterval, LoopType, LoopPc, LoopAt, LoopTo
  <2>3. UNCHANGED <<relay, link, ble, reported, writes, disturbed, off>>
        BY <1>11 DEF SetInterval
  <2> QED  BY <2>1, <2>2, <2>3 DEF TypeOK
<1>12. CASE Armed
  <2>1. loop' \in LoopType
        BY <1>12 DEF TypeOK, Armed, LoopType, LoopPc, LoopAt, LoopTo, Enter
  <2>2. disturbed' \in BOOLEAN
        BY <1>12, WritingType DEF TypeOK, Armed, LoopAt, LoopTo, Enter
  <2>3. timer' \in TimerType
        BY <1>12, BoundsAssumption DEF TypeOK, Armed, TimerType
  <2>4. UNCHANGED <<relay, link, ble, reported, writes, off>>
        BY <1>12 DEF Armed
  <2> QED  BY <2>1, <2>2, <2>3, <2>4 DEF TypeOK
<1>13. CASE HoldOn
  <2>1. relay' \in RelayType
        BY <1>13 DEF TypeOK, HoldOn, RelayType, LoopAt, LoopTo, SetStatus, SetPin
  <2>2. loop' \in LoopType
        BY <1>13 DEF TypeOK, HoldOn, LoopType, LoopPc, LoopAt, LoopTo, SetStatus, SetPin
  <2>3. UNCHANGED <<timer, link, ble, reported, writes, disturbed, off>>
        BY <1>13 DEF HoldOn
  <2> QED  BY <2>1, <2>2, <2>3 DEF TypeOK
<1>14. CASE Ready
  <2>1. loop' \in LoopType
        BY <1>14 DEF TypeOK, Ready, LoopType, LoopPc, LoopAt, LoopTo, Enter
  <2>2. disturbed' \in BOOLEAN
        BY <1>14, WritingType DEF TypeOK, Ready, LoopAt, LoopTo, Enter
  <2>3. timer' \in TimerType
        BY <1>14, BoundsAssumption DEF TypeOK, Ready, TimerType
  <2>4. UNCHANGED <<relay, link, ble, reported, writes, off>>
        BY <1>14 DEF Ready
  <2> QED  BY <2>1, <2>2, <2>3, <2>4 DEF TypeOK
<1>15. CASE Expire
  <2>1. relay' \in RelayType
        BY <1>15 DEF TypeOK, Expire, RelayType, LoopAt, LoopTo, SetStatus, SetPin
  <2>2. timer' \in TimerType
        BY <1>15, NumbersAssumption, BoundsAssumption DEF TypeOK, Expire, TimerType, LoopAt, LoopTo, SetStatus, SetPin
  <2>3. loop' \in LoopType
        BY <1>15 DEF TypeOK, Expire, LoopType, LoopPc, LoopAt, LoopTo, SetStatus, SetPin
  <2>4. UNCHANGED <<link, ble, reported, writes, disturbed, off>>
        BY <1>15 DEF Expire
  <2> QED  BY <2>1, <2>2, <2>3, <2>4 DEF TypeOK
<1>16. CASE Motion
  <2>1. relay' \in RelayType
        BY <1>16 DEF TypeOK, Motion, RelayType, LoopAt, LoopTo, SetStatus, SetPin, Enter
  <2>2. loop' \in LoopType
        BY <1>16 DEF TypeOK, Motion, LoopType, LoopPc, LoopAt, LoopTo, SetStatus, SetPin, Enter
  <2>3. disturbed' \in BOOLEAN
        BY <1>16, WritingType DEF TypeOK, Motion, LoopAt, LoopTo, SetStatus, SetPin, Enter
  <2>4. UNCHANGED <<timer, link, ble, reported, writes, off>>
        BY <1>16 DEF Motion
  <2> QED  BY <2>1, <2>2, <2>3, <2>4 DEF TypeOK
<1>17. CASE LoopNotify
  <2>1. loop' \in LoopType
    <3>1. relay.status \in BOOLEAN  BY DEF TypeOK, RelayType
    <3>2. \/ loop' = [pc |-> "report", seen |-> relay.status]
          \/ loop' = [pc |-> "disconnected", seen |-> FALSE]
          BY <1>17 DEF LoopNotify, LoopEnds
    <3>3. {"report", "disconnected"} \subseteq LoopPc  BY DEF LoopPc
    <3>4. /\ [pc |-> "report", seen |-> relay.status] \in LoopType
          /\ [pc |-> "disconnected", seen |-> FALSE] \in LoopType
          BY <3>1, <3>3, LoopRecord
    <3> QED  BY <3>2, <3>4
  <2>2. reported' \in BOOLEAN /\ ble' \in BleType
        BY <1>17, ReportKeeps DEF TypeOK, LoopNotify, LoopType, LoopAt
  <2>3. UNCHANGED <<relay, timer, link, writes, disturbed, off>>
        BY <1>17 DEF LoopNotify
  <2> QED  BY <2>1, <2>2, <2>3 DEF TypeOK
<1>18. CASE Tick
  <2>1. timer' \in TimerType
    <3>1. timer.clock \in Times /\ timer.waited + 1 \in 0..PassTime
          BY <1>18, BoundsAssumption DEF TypeOK, Tick, TimerType
    <3>2. (timer.clock + 1) % ClockMod \in Times
          BY <3>1, ClockType
    <3> QED  BY <1>18, <3>1, <3>2 DEF TypeOK, Tick, TimerType
  <2>2. UNCHANGED <<relay, link, ble, loop, reported, writes, disturbed, off>>
        BY <1>18 DEF Tick
  <2> QED  BY <2>1, <2>2 DEF TypeOK
<1>19. CASE ReadValue
  <2>1. ble' \in BleType
        BY <1>19 DEF TypeOK, ReadValue, BleType, BlePc, BleAt, BleTo
  <2>2. UNCHANGED <<relay, timer, link, loop, reported, writes, disturbed, off>>
        BY <1>19 DEF ReadValue
  <2> QED  BY <2>1, <2>2 DEF TypeOK
<1>20. CASE UNCHANGED vars
      BY <1>20 DEF vars, TypeOK
<1> QED
    BY <1>1, <1>2, <1>3, <1>4, <1>5, <1>6, <1>7, <1>8, <1>9,
       <1>10, <1>11, <1>12, <1>13, <1>14, <1>15, <1>16, <1>17, <1>18, <1>19, <1>20
    DEF Next, Client, Callback, LoopPass

RelayInv == Overlap /\ HalfWritten /\ Disarmed /\ ApartOnlyAfterOverlap /\ OffStaysOff

LEMMA RelayInit == Init => RelayInv
<1> SUFFICES ASSUME Init PROVE RelayInv
    OBVIOUS
<1>1. ble.pc = "idle" /\ loop.pc = "disconnected" /\ ~relay.status /\ relay.pin = "HIGH" /\ ~off
      BY DEF Init
<1> QED
    BY <1>1 DEF RelayInv, Overlap, BleWriting, LoopWriting, HalfWritten, Disarmed,
                ApartOnlyAfterOverlap, Agree, OffStaysOff

\* A relay is what its two fields are.
LEMMA RelayRecord ==
  TypeOK' => (relay' = [status |-> FALSE, pin |-> "HIGH"]
                <=> ~relay'.status /\ relay'.pin = "HIGH")
BY DEF TypeOK, RelayType

LEMMA RelayStep == TypeOK /\ TypeOK' /\ RelayInv /\ [Next]_vars => RelayInv'
<1> SUFFICES ASSUME TypeOK, TypeOK', RelayInv, [Next]_vars PROVE RelayInv'
    OBVIOUS
<1> USE DEF RelayInv, Overlap, HalfWritten, Disarmed, BleWriting, LoopWriting,
            ApartOnlyAfterOverlap, Settled, Agree, OffStaysOff
<1>1. CASE Connect
  <2>1. ble.pc = "idle" /\ ble'.pc = "advertise"
        BY <1>1 DEF TypeOK, BleType, Connect, BleAt, BleTo
  <2>2. UNCHANGED <<relay, timer, loop, disturbed, off>>
        BY <1>1 DEF Connect
  <2> QED  BY <2>1, <2>2, RelayRecord
<1>2. CASE OnDisconnect
  <2>1. UNCHANGED <<relay, timer, ble, loop, disturbed, off>>
        BY <1>2 DEF OnDisconnect
  <2> QED  BY <2>1, RelayRecord
<1>3. ASSUME NEW c \in Command, Write(c) PROVE RelayInv'
  <2>1. /\ ble.pc = "idle" /\ ble'.pc = "read"
        /\ off' => off /\ ble'.cmd = Empty
        BY <1>3 DEF TypeOK, BleType, Command, Empty, Write, BleAt
  <2>2. UNCHANGED <<relay, timer, loop, disturbed>>
        BY <1>3 DEF Write
  <2> QED  BY <2>1, <2>2, RelayRecord
<1>4. CASE OnConnectAdvertise
  <2>1. ble.pc = "advertise" /\ ble'.pc = "idle"
        BY <1>4 DEF TypeOK, BleType, OnConnectAdvertise, BleAt, BleTo
  <2>2. UNCHANGED <<relay, timer, loop, disturbed, off>>
        BY <1>4 DEF OnConnectAdvertise
  <2> QED  BY <2>1, <2>2, RelayRecord
<1>5. CASE Parse
  <2>1. /\ ble.pc = "parse"
        /\ \/ ble'.pc = "on1" /\ (disturbed' <=> LoopWriting)
           \/ ble'.pc = "off1" /\ timer'.f2 = 0 /\ (disturbed' <=> LoopWriting)
           \/ ble'.pc = "capture1" /\ (disturbed' <=> disturbed)
        /\ ble.cmd \in {Empty, Report} => timer'.f2 = 0 /\ ble'.pc = "capture1"
        BY <1>5 DEF TypeOK, TimerType, BleType, Command, Empty, Report, Parse, AfterParse, BleAt, Enter
  <2>2. UNCHANGED <<relay, loop, off>>
        BY <1>5 DEF Parse
  <2> QED  BY <2>1, <2>2, RelayRecord
<1>6. CASE On
  <2>1. \/ /\ ble.pc = "on1" /\ ble'.pc = "on2"
           /\ relay'.status /\ relay'.pin = relay.pin
        \/ /\ ble.pc = "on2" /\ ble'.pc = "capture1"
           /\ relay'.status = relay.status /\ relay'.pin = "LOW"
        BY <1>6 DEF TypeOK, RelayType, BleType, On, BleAt, BleTo, SetStatus, SetPin
  <2>2. UNCHANGED <<timer, loop, disturbed, off>>
        BY <1>6 DEF On
  <2> QED  BY <2>1, <2>2, RelayRecord
<1>7. CASE Off
  <2>1. \/ /\ ble.pc = "off1" /\ ble'.pc = "off2" /\ (off' <=> off)
           /\ relay'.status = relay.status /\ relay'.pin = "HIGH"
        \/ /\ ble.pc = "off2" /\ ble'.pc = "capture1" /\ (off' <=> ~disturbed)
           /\ ~relay'.status /\ relay'.pin = relay.pin
        BY <1>7 DEF TypeOK, RelayType, BleType, Off, BleAt, BleTo, SetStatus, SetPin
  <2>2. UNCHANGED <<timer, loop, disturbed>>
        BY <1>7 DEF Off
  <2> QED  BY <2>1, <2>2, RelayRecord
<1>8. CASE BleNotify
  <2>1. /\ ble.pc \in {"capture1", "report1", "capture2", "report2"}
        /\ ble'.pc \in {"report1", "capture2", "report2", "idle"}
        BY <1>8 DEF TypeOK, BleType, BleNotify, BleAt, BleEnds, Notify
  <2>2. UNCHANGED <<relay, timer, loop, disturbed, off>>
        BY <1>8 DEF BleNotify
  <2> QED  BY <2>1, <2>2, RelayRecord
<1>9. CASE Disconnected
  <2>1. /\ loop.pc \in {"disconnected", "advertise", "forget"}
        /\ loop'.pc \in {"advertise", "forget", "connecting"}
        BY <1>9 DEF TypeOK, LoopType, Disconnected, LoopAt, LoopTo
  <2>2. UNCHANGED <<relay, timer, ble, disturbed, off>>
        BY <1>9 DEF Disconnected
  <2> QED  BY <2>1, <2>2, RelayRecord
<1>10. CASE Connecting
  <2>1. /\ loop.pc \in {"connecting", "greet1", "greet2", "greet3"}
        /\ loop'.pc \in {"greet1", "greet2", "greet3", "interval"}
        BY <1>10 DEF TypeOK, LoopType, Connecting, LoopAt, LoopTo, LoopEnds
  <2>2. /\ ble'.pc = ble.pc /\ ble'.cmd \in {ble.cmd, Report}
        /\ ble.pc # "read" => ble' = ble
        BY <1>10, ReportKeeps DEF TypeOK, LoopType, Connecting
  <2>3. UNCHANGED <<relay, timer, disturbed, off>>
        BY <1>10 DEF Connecting
  <2> QED  BY <2>1, <2>2, <2>3, RelayRecord
<1>11. CASE SetInterval
  <2>1. /\ loop.pc = "interval" /\ loop'.pc = "armed"
        /\ timer'.f2 = timer.f2
        BY <1>11 DEF TypeOK, TimerType, LoopType, SetInterval, LoopAt, LoopTo
  <2>2. UNCHANGED <<relay, ble, disturbed, off>>
        BY <1>11 DEF SetInterval
  <2> QED  BY <2>1, <2>2, RelayRecord
<1>12. CASE Armed
  <2>1. /\ loop.pc = "armed"
        /\ \/ loop'.pc = "timer1" /\ timer.f2 # 0 /\ (disturbed' <=> BleWriting)
           \/ loop'.pc = "motion" /\ (disturbed' <=> disturbed)
        BY <1>12, NumbersAssumption, BoundsAssumption DEF TypeOK, TimerType, LoopType, Armed, LoopAt, LoopTo, Enter
  <2>2. timer'.f2 = timer.f2
        BY <1>12 DEF TypeOK, TimerType, Armed
  <2>3. UNCHANGED <<relay, ble, off>>
        BY <1>12 DEF Armed
  <2> QED  BY <2>1, <2>2, <2>3, RelayRecord
<1>13. CASE HoldOn
  <2>1. \/ /\ loop.pc = "timer1" /\ loop'.pc = "timer2"
           /\ relay'.status /\ relay'.pin = relay.pin
        \/ /\ loop.pc = "timer2" /\ loop'.pc = "ready"
           /\ relay'.status = relay.status /\ relay'.pin = "LOW"
        BY <1>13 DEF TypeOK, RelayType, LoopType, HoldOn, LoopAt, LoopTo, SetStatus, SetPin
  <2>2. UNCHANGED <<timer, ble, disturbed, off>>
        BY <1>13 DEF HoldOn
  <2> QED  BY <2>1, <2>2, RelayRecord
<1>14. CASE Ready
  <2>1. /\ loop.pc = "ready"
        /\ \/ loop'.pc = "expire1" /\ (disturbed' <=> BleWriting)
           \/ loop'.pc = "motion" /\ (disturbed' <=> disturbed)
        BY <1>14 DEF TypeOK, LoopType, Ready, LoopAt, LoopTo, Enter
  <2>2. timer'.f2 = timer.f2
        BY <1>14 DEF TypeOK, TimerType, Ready
  <2>3. UNCHANGED <<relay, ble, off>>
        BY <1>14 DEF Ready
  <2> QED  BY <2>1, <2>2, <2>3, RelayRecord
<1>15. CASE Expire
  <2>1. \/ /\ loop.pc = "expire1" /\ loop'.pc = "expire2" /\ timer' = timer
           /\ ~relay'.status /\ relay'.pin = relay.pin
        \/ /\ loop.pc = "expire2" /\ loop'.pc = "disarm" /\ timer' = timer
           /\ relay'.status = relay.status /\ relay'.pin = "HIGH"
        \/ /\ loop.pc = "disarm" /\ loop'.pc = "motion" /\ timer'.f2 = 0
           /\ relay' = relay
    <3>1. CASE LoopAt("expire1") /\ SetStatus(FALSE) /\ LoopTo("expire2") /\ UNCHANGED timer
          BY <3>1 DEF TypeOK, RelayType, LoopType, LoopAt, LoopTo, SetStatus
    <3>2. CASE LoopAt("expire2") /\ SetPin("HIGH") /\ LoopTo("disarm") /\ UNCHANGED timer
          BY <3>2 DEF TypeOK, RelayType, LoopType, LoopAt, LoopTo, SetPin
    <3>3. CASE LoopAt("disarm") /\ LoopTo("motion") /\ UNCHANGED relay
               /\ timer' = [timer EXCEPT !.start = timer.clock, !.f2 = 0]
          BY <3>3 DEF TypeOK, TimerType, LoopType, LoopAt, LoopTo
    <3> QED  BY <1>15, <3>1, <3>2, <3>3 DEF Expire
  <2>2. UNCHANGED <<ble, disturbed, off>>
        BY <1>15 DEF Expire
  <2> QED  BY <2>1, <2>2, RelayRecord
<1>16. CASE Motion
  <2>1. \/ /\ loop.pc = "motion" /\ loop'.pc = "motion1" /\ (disturbed' <=> BleWriting)
           /\ relay' = relay
        \/ /\ loop.pc = "motion" /\ loop'.pc = "capture" /\ (disturbed' <=> disturbed)
           /\ relay' = relay
        \/ /\ loop.pc = "motion1" /\ loop'.pc = "motion2" /\ (disturbed' <=> disturbed)
           /\ ~relay'.status /\ relay'.pin = relay.pin
        \/ /\ loop.pc = "motion2" /\ loop'.pc = "capture" /\ (disturbed' <=> disturbed)
           /\ relay'.status = relay.status /\ relay'.pin = "HIGH"
        BY <1>16 DEF TypeOK, RelayType, LoopType, Motion, LoopAt, LoopTo, SetStatus, SetPin, Enter
  <2>2. UNCHANGED <<timer, ble, off>>
        BY <1>16 DEF Motion
  <2> QED  BY <2>1, <2>2, RelayRecord
<1>17. CASE LoopNotify
  <2>1. /\ loop.pc \in {"capture", "report"}
        /\ loop'.pc \in {"report", "disconnected"}
        BY <1>17 DEF TypeOK, LoopType, LoopNotify, LoopAt, LoopEnds
  <2>2. /\ ble'.pc = ble.pc /\ ble'.cmd \in {ble.cmd, Report}
        /\ ble.pc # "read" => ble' = ble
        BY <1>17, ReportKeeps DEF TypeOK, LoopType, LoopNotify
  <2>3. UNCHANGED <<relay, timer, disturbed, off>>
        BY <1>17 DEF LoopNotify
  <2> QED  BY <2>1, <2>2, <2>3, RelayRecord
<1>18. CASE Tick
  <2>1. timer'.f2 = timer.f2
        BY <1>18 DEF TypeOK, TimerType, Tick
  <2>2. UNCHANGED <<relay, ble, loop, disturbed, off>>
        BY <1>18 DEF Tick
  <2> QED  BY <2>1, <2>2, RelayRecord
<1>19. CASE ReadValue
  <2>1. /\ ble.pc = "read" /\ ble'.cmd = ble.cmd
        /\ \/ ble'.pc = "capture2"
           \/ ble'.pc = "parse" /\ ble.cmd.kind # "empty"
        BY <1>19 DEF TypeOK, BleType, ReadValue, BleAt, BleTo
  <2>2. UNCHANGED <<relay, timer, loop, disturbed, off>>
        BY <1>19 DEF ReadValue
  <2> QED  BY <2>1, <2>2, RelayRecord
<1>20. CASE UNCHANGED vars
      BY <1>20 DEF vars
<1> QED
    BY <1>1, <1>2, <1>3, <1>4, <1>5, <1>6, <1>7, <1>8, <1>9,
       <1>10, <1>11, <1>12, <1>13, <1>14, <1>15, <1>16, <1>17, <1>18, <1>19, <1>20
    DEF Next, Client, Callback, LoopPass

LEMMA InvHolds == Spec => [](TypeOK /\ RelayInv)
BY TypeInit, TypeStep, RelayInit, RelayStep, PTL DEF Spec

\* The globals of the sketch and the two tasks' positions keep their types, the
\* countdown f2 included (final.ino, the callbacks and loop).
THEOREM RelayTypes == Spec => []TypeOK
<1>1. TypeOK /\ RelayInv => TypeOK
      OBVIOUS
<1> QED  BY <1>1, InvHolds, PTL

\* In every interleaving of the two tasks, the status of the relay and its pin
\* part only when their pairs of assignments overlap (final.ino, onWrite and
\* loop).
THEOREM ApartOnlyByOverlap == Spec => []ApartOnlyAfterOverlap
<1>1. TypeOK /\ RelayInv => ApartOnlyAfterOverlap
      BY DEF RelayInv
<1> QED  BY <1>1, InvHolds, PTL

\* A command "b" that loop() does not overlap is obeyed until the next command,
\* whatever the timer and the motion sensor do (final.ino, onWrite and loop).
THEOREM OffIsObeyed == Spec => []OffStaysOff
<1>1. TypeOK /\ RelayInv => OffStaysOff
      BY DEF RelayInv
<1> QED  BY <1>1, InvHolds, PTL
=============================================================================
