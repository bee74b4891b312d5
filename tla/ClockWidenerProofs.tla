------------------------- MODULE ClockWidenerProofs -------------------------
(***************************************************************************)
(* Theorems about ClockWidener, for every pair of counter widths and every *)
(* gap below one lap of the narrow counter.                                *)
(***************************************************************************)
EXTENDS ClockWidener, TLAPS

\* The counter has moved on by the time since the last sample: the step from
\* a 32-bit difference to true time, valid because the gap is under a lap.
RawTracksGap == started => Minus(raw, lastRaw, RawMod) = gap

\* Nothing is counted before the first sample.
NothingBeforeStart == ~started => gap = 0 /\ nowUs = 0 /\ trueUs = 0

IInv == TypeOK /\ ClockIsTrue /\ RawTracksGap /\ NothingBeforeStart

\* Facts of the arithmetic, for any modulus.
LEMMA PlusType ==
  ASSUME NEW m \in Nat, NEW a \in 0 .. m - 1, NEW b \in 0 .. m
  PROVE  Plus(a, b, m) \in 0 .. m - 1
  BY DEF Plus

\* Adding nothing changes nothing.
LEMMA PlusZero ==
  ASSUME NEW m \in Nat, NEW a \in 0 .. m - 1
  PROVE  Plus(a, 0, m) = a
  BY DEF Plus

\* Two steps forward are one step of their sum.
LEMMA PlusAssociates ==
  ASSUME NEW m \in Nat, NEW a \in 0 .. m - 1, NEW b \in Nat, NEW d \in Nat,
         b + d < m
  PROVE  Plus(Plus(a, b, m), d, m) = Plus(a, b + d, m)
  BY DEF Plus

\* A counter is zero away from itself.
LEMMA MinusSelf ==
  ASSUME NEW m \in Nat, NEW a \in 0 .. m - 1
  PROVE  Minus(a, a, m) = 0
  BY DEF Minus

\* A difference grows by the step of the counter while it fits.
LEMMA MinusTracksPlus ==
  ASSUME NEW m \in Nat, NEW a \in 0 .. m - 1, NEW b \in 0 .. m - 1,
         NEW d \in Nat, Minus(a, b, m) + d < m
  PROVE  Minus(Plus(a, d, m), b, m) = Minus(a, b, m) + d
  BY DEF Minus, Plus

\* The constants, as the steps below need them.
LEMMA ConstantTypes ==
  /\ RawMod \in Nat /\ TimeMod \in Nat /\ CycleMod \in Nat /\ MaxGap \in Nat
  /\ 0 < RawMod /\ 0 < TimeMod /\ 0 < CycleMod
  /\ MaxGap < RawMod /\ RawMod <= TimeMod
  BY WidenerAssumption

\* A widener as constructed satisfies the invariant.
LEMMA InitInvariant == Init => IInv
<1> SUFFICES ASSUME Init PROVE IInv
  OBVIOUS
<1>1. 0 \in RawTime /\ 0 \in Time /\ 0 \in 0 .. CycleMod - 1 /\ 0 \in 0 .. MaxGap
  BY ConstantTypes DEF RawTime, Time
<1> QED BY <1>1 DEF Init, IInv, TypeOK, ClockIsTrue, RawTracksGap,
                    NothingBeforeStart

\* The first advance() takes the counter's value as the origin.
LEMMA FirstAdvanceInvariant == IInv /\ FirstAdvance => IInv'
<1> SUFFICES ASSUME IInv, FirstAdvance PROVE IInv'
  OBVIOUS
<1>1. 0 \in RawTime /\ 0 \in Time /\ 0 \in 0 .. CycleMod - 1 /\ 0 \in 0 .. MaxGap
  BY ConstantTypes DEF RawTime, Time
<1>2. TypeOK'
  BY <1>1 DEF FirstAdvance, IInv, TypeOK
<1>3. Plus(0, 0, TimeMod) = 0
  BY ConstantTypes DEF Plus
<1>4. Minus(raw, raw, RawMod) = 0
  BY ConstantTypes, MinusSelf DEF IInv, TypeOK, RawTime
<1>5. trueUs = 0
  BY DEF IInv, NothingBeforeStart, FirstAdvance
<1> QED BY <1>2, <1>3, <1>4, <1>5
        DEF FirstAdvance, IInv, ClockIsTrue, RawTracksGap, NothingBeforeStart

\* A later advance() adds exactly the gap.
LEMMA LaterAdvanceInvariant == IInv /\ LaterAdvance => IInv'
<1> SUFFICES ASSUME IInv, LaterAdvance PROVE IInv'
  OBVIOUS
<1>1. dtUs' = gap
  BY DEF LaterAdvance, IInv, RawTracksGap
<1>2. gap \in RawTime /\ gap \in 0 .. TimeMod
  BY ConstantTypes DEF IInv, TypeOK, RawTime
<1>3. nowUs' = trueUs
  BY <1>1 DEF LaterAdvance, IInv, ClockIsTrue
<1>4. TypeOK'
  <2>1. cycle' \in 0 .. CycleMod - 1
    BY ConstantTypes, PlusType DEF LaterAdvance, IInv, TypeOK
  <2>2. 0 \in 0 .. MaxGap
    BY ConstantTypes
  <2> QED BY <1>1, <1>2, <1>3, <2>1, <2>2 DEF LaterAdvance, IInv, TypeOK
<1>5. Plus(trueUs, 0, TimeMod) = trueUs
  BY ConstantTypes, PlusZero DEF IInv, TypeOK, Time
<1>6. Minus(raw, raw, RawMod) = 0
  BY ConstantTypes, MinusSelf DEF IInv, TypeOK, RawTime
<1> QED BY <1>3, <1>4, <1>5, <1>6
        DEF LaterAdvance, IInv, ClockIsTrue, RawTracksGap, NothingBeforeStart

\* Time passing moves the counter and the gap together.
LEMMA TickInvariant ==
  ASSUME IInv, NEW d \in 1 .. MaxGap, Tick(d)
  PROVE  IInv'
<1>1. /\ d \in Nat /\ gap \in Nat /\ gap + d <= MaxGap
      /\ gap + d < RawMod /\ gap + d < TimeMod
      /\ d \in 0 .. RawMod /\ d \in 0 .. TimeMod
  BY ConstantTypes DEF Tick, IInv, TypeOK
<1>2. Plus(raw, d, RawMod) \in RawTime
  BY <1>1, ConstantTypes, PlusType DEF IInv, TypeOK, RawTime
<1>3. Plus(trueUs, d, TimeMod) \in Time
  BY <1>1, ConstantTypes, PlusType DEF IInv, TypeOK, Time
<1>4. gap + d \in 0 .. MaxGap
  BY <1>1, ConstantTypes
<1>5. TypeOK'
  BY <1>2, <1>3, <1>4 DEF Tick, Elapse, IInv, TypeOK
<1>6. CASE started
  <2>1. Plus(Plus(nowUs, gap, TimeMod), d, TimeMod)
          = Plus(nowUs, gap + d, TimeMod)
    BY <1>1, ConstantTypes, PlusAssociates DEF IInv, TypeOK, Time
  <2>2. Minus(Plus(raw, d, RawMod), lastRaw, RawMod) = gap + d
    <3>1. Minus(raw, lastRaw, RawMod) = gap
      BY <1>6 DEF IInv, RawTracksGap
    <3> QED BY <1>1, <3>1, ConstantTypes, MinusTracksPlus
            DEF IInv, TypeOK, RawTime
  <2> QED BY <1>5, <1>6, <2>1, <2>2
          DEF Tick, Elapse, IInv, ClockIsTrue, RawTracksGap,
              NothingBeforeStart
<1>7. CASE ~started
  BY <1>5, <1>7 DEF Tick, Elapse, IInv, ClockIsTrue, RawTracksGap,
                    NothingBeforeStart
<1> QED BY <1>6, <1>7

\* Every step preserves the invariant.
LEMMA NextInvariant == IInv /\ [Next]_vars => IInv'
<1> SUFFICES ASSUME IInv, [Next]_vars PROVE IInv'
  OBVIOUS
<1>1. CASE Advance
  BY <1>1, FirstAdvanceInvariant, LaterAdvanceInvariant DEF Advance
<1>2. ASSUME NEW d \in 1 .. MaxGap, Tick(d) PROVE IInv'
  BY <1>2, TickInvariant
<1>3. CASE UNCHANGED vars
  BY <1>3 DEF vars, IInv, TypeOK, ClockIsTrue, RawTracksGap,
              NothingBeforeStart
<1> QED BY <1>1, <1>2, <1>3 DEF Next

\* The invariant holds throughout.
LEMMA Invariant == Spec => []IInv
  BY InitInvariant, NextInvariant, PTL DEF Spec

\* The type invariant.
THEOREM ClockType == Spec => []TypeOK
  BY Invariant, PTL DEF IInv

\* The widened clock is true time after any number of laps of the counter.
THEOREM ClockCorrect == Spec => []ClockIsTrue
  BY Invariant, PTL DEF IInv

\* What advance() returns as dtUs is the true time since the last period.
THEOREM DtCorrect == Spec => DtIsTrueGap
<1>1. IInv /\ [Next]_vars => [Advance => dtUs' = gap]_vars
  BY DEF IInv, RawTracksGap, NothingBeforeStart, Advance, FirstAdvance,
         LaterAdvance
<1> QED BY <1>1, Invariant, PTL DEF Spec, DtIsTrueGap
=============================================================================
