---------------------------- MODULE SimpleTimer ----------------------------
(***************************************************************************)
(* The timer library of final.ino: ready when interval milliseconds have   *)
(* gone by since the last reset.  Its members are 64 bits wide, but the    *)
(* clock it reads, millis(), has 32 and starts again at 0 after 49 days.   *)
(* (Their sum does not wrap for the intervals a caller can mean, those     *)
(* below 2^64 - 2^32.)                                                     *)
(***************************************************************************)
EXTENDS Integers

CONSTANTS ClockMod,    \* number of values of millis(): 2^32
          Intervals,   \* the intervals callers set
          MaxElapsed   \* bound: how long a timer is watched after a reset

ASSUME ClockAssumption == ClockMod \in Nat \ {0}
ASSUME IntervalsAssumption == Intervals \subseteq Nat

VARIABLES clock,      \* millis()
          start,      \* _start
          interval,   \* _interval
          elapsed     \* history: true time since the last reset

vars == <<clock, start, interval, elapsed>>

\* A timer may be constructed, or reset, at any time of the clock.
Init == /\ clock \in 0..(ClockMod - 1)
        /\ start = clock
        /\ interval \in Intervals
        /\ elapsed = 0

SetInterval(i) == interval' = i /\ UNCHANGED <<clock, start, elapsed>>

\* Fault: reset moves the deadline on by one interval.
ResetByInterval == /\ start' = start + interval
                   /\ elapsed' = 0
                   /\ UNCHANGED <<clock, interval>>

Reset == /\ start' = clock
         /\ elapsed' = 0
         /\ UNCHANGED <<clock, interval>>

\* A millisecond passes.
Tick == /\ elapsed < MaxElapsed
        /\ clock' = (clock + 1) % ClockMod
        /\ elapsed' = elapsed + 1
        /\ UNCHANGED <<start, interval>>

Next == (\E i \in Intervals : SetInterval(i)) \/ Reset \/ Tick

Spec == Init /\ [][Next]_vars

\* Fault: the deadline is as wide as the clock.
ReadyNarrow == (start + interval) % ClockMod <= clock

IsReady == start + interval <= clock

-----------------------------------------------------------------------------
\* The members keep their width: what _start holds is a time of the clock.
TypeOK == /\ clock \in 0..(ClockMod - 1)
          /\ start \in 0..(ClockMod - 1)
          /\ interval \in Intervals
          /\ elapsed \in Nat

\* isReady never says true before the interval is over, whatever the interval
\* was when the timer was reset and however often the clock has wrapped since.
NeverEarly == IsReady => elapsed >= interval

\* Until the clock wraps, isReady says true as soon as the interval is over.
ReadyBeforeWrap == start + elapsed < ClockMod /\ elapsed >= interval => IsReady
=============================================================================
