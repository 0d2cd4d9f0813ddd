------------------------- MODULE SimpleTimerProofs -------------------------
(***************************************************************************)
(* SimpleTimer for every width of the clock.  The invariant behind both    *)
(* results relates the clock to the true time: the clock is never further  *)
(* from _start than that, and until it wraps it is exactly as far.         *)
(***************************************************************************)
EXTENDS SimpleTimer, TLAPS

Inv == /\ TypeOK
       /\ clock <= start + elapsed
       /\ start + elapsed < ClockMod => clock = start + elapsed

LEMMA InvHolds == Spec => []Inv
<1> USE ClockAssumption, IntervalsAssumption
<1>1. Init => Inv
  BY DEF Init, Inv, TypeOK
<1>2. Inv /\ [Next]_vars => Inv'
  <2> SUFFICES ASSUME Inv, [Next]_vars PROVE Inv'
    OBVIOUS
  <2> USE DEF Inv, TypeOK
  <2>1. ASSUME NEW i \in Intervals, SetInterval(i) PROVE Inv'
    BY <2>1 DEF SetInterval
  <2>2. CASE Reset
    BY <2>2 DEF Reset
  <2>3. CASE Tick
    <3>1. clock' = IF clock + 1 = ClockMod THEN 0 ELSE clock + 1
      BY <2>3 DEF Tick
    <3>2. elapsed' = elapsed + 1 /\ start' = start /\ interval' = interval
      BY <2>3 DEF Tick
    <3> QED
      BY <3>1, <3>2
  <2>4. CASE UNCHANGED vars
    BY <2>4 DEF vars
  <2> QED
    BY <2>1, <2>2, <2>3, <2>4 DEF Next
<1> QED
  BY <1>1, <1>2, PTL DEF Spec

\* _start holds a time of the clock and _interval what a caller set, on a clock
\* of any width (SimpleTimer.cpp, setInterval and reset).
THEOREM TimerTypes == Spec => []TypeOK
<1>1. Inv => TypeOK
  BY DEF Inv
<1> QED
  BY <1>1, InvHolds, PTL

\* isReady never answers true before the interval is over, on a clock of any
\* width, however often it wraps (SimpleTimer.cpp, isReady).
THEOREM ReadyIsNeverEarly == Spec => []NeverEarly
<1>1. Inv => NeverEarly
  BY ClockAssumption, IntervalsAssumption DEF Inv, TypeOK, NeverEarly, IsReady
<1> QED
  BY <1>1, InvHolds, PTL

\* Until the clock wraps, isReady answers true as soon as the interval is over.
THEOREM ReadyUntilWrap == Spec => []ReadyBeforeWrap
<1>1. Inv => ReadyBeforeWrap
  BY ClockAssumption, IntervalsAssumption DEF Inv, TypeOK, ReadyBeforeWrap, IsReady
<1> QED
  BY <1>1, InvHolds, PTL
=============================================================================
