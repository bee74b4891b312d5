---------------------------- MODULE ClockWidener ----------------------------
(***************************************************************************)
(* UdiClockWidener (src/src/UdiTime.h): a wrapping uint32_t microsecond    *)
(* counter, sampled once per period, widened to the uint64_t of UdiTime.   *)
(*                                                                         *)
(* The environment is the counter and true time: `gap` is the true time    *)
(* since the last sample and `trueUs` the true time since the first one,   *)
(* neither of which the code can see.                                      *)
(***************************************************************************)
EXTENDS Unsigned

CONSTANTS
  RawMod,     \* number of values of the raw counter (2^32)
  TimeMod,    \* number of values of UdiTime::us (2^64)
  CycleMod,   \* number of values of UdiTime::cycle (2^32)
  MaxGap      \* the longest true time between two samples

\* A running scan samples the counter again before it has gone all the way
\* round; a sample of the narrow counter fits the wide one.
ASSUME WidenerAssumption ==
  /\ RawMod \in Nat \ {0}
  /\ TimeMod \in Nat \ {0}
  /\ CycleMod \in Nat \ {0}
  /\ MaxGap \in Nat \ {0}
  /\ MaxGap < RawMod
  /\ RawMod <= TimeMod

VARIABLES
  started,   \* started_
  lastRaw,   \* lastRaw_: the counter at the last sample
  nowUs,     \* nowUs_, also the us of the last UdiTime returned
  cycle,     \* cycle_, also the cycle of the last UdiTime returned
  dtUs,      \* dtUs of the last UdiTime returned
  raw,       \* the caller's counter
  gap,       \* ghost: true time since the last sample
  trueUs     \* ghost: true time since the first sample, as a uint64_t

vars == <<started, lastRaw, nowUs, cycle, dtUs, raw, gap, trueUs>>

RawTime == 0 .. RawMod - 1
Time    == 0 .. TimeMod - 1

TypeOK ==
  /\ started \in BOOLEAN
  /\ lastRaw \in RawTime
  /\ nowUs \in Time
  /\ cycle \in 0 .. CycleMod - 1
  /\ dtUs \in RawTime
  /\ raw \in RawTime
  /\ gap \in 0 .. MaxGap
  /\ trueUs \in Time

\* A widener as constructed; the counter may hold anything by then.
Init ==
  /\ started = FALSE
  /\ lastRaw = 0
  /\ nowUs = 0
  /\ cycle = 0
  /\ dtUs = 0
  /\ raw \in RawTime
  /\ gap = 0
  /\ trueUs = 0

-----------------------------------------------------------------------------
\* Mutant: time is measured from a counter of zero.
FirstAdvance_FromZero ==
  /\ ~started
  /\ started' = TRUE
  /\ dtUs' = raw
  /\ cycle' = 0
  /\ nowUs' = raw
  /\ lastRaw' = raw
  /\ gap' = 0
  /\ UNCHANGED <<raw, trueUs>>

\* The first advance(): the counter's value is the origin of time.
FirstAdvance ==
  /\ ~started
  /\ started' = TRUE
  /\ dtUs' = 0
  /\ cycle' = 0
  /\ nowUs' = 0
  /\ lastRaw' = raw
  /\ gap' = 0
  /\ UNCHANGED <<raw, trueUs>>

\* Mutants: a signed difference; the last sample is not remembered.
LaterAdvance_Signed ==
  /\ started
  /\ dtUs' = raw - lastRaw
  /\ nowUs' = Plus(nowUs, dtUs', TimeMod)
  /\ cycle' = Plus(cycle, 1, CycleMod)
  /\ lastRaw' = raw
  /\ gap' = 0
  /\ UNCHANGED <<started, raw, trueUs>>
LaterAdvance_KeepsLast ==
  /\ started
  /\ dtUs' = Minus(raw, lastRaw, RawMod)
  /\ nowUs' = Plus(nowUs, dtUs', TimeMod)
  /\ cycle' = Plus(cycle, 1, CycleMod)
  /\ gap' = 0
  /\ UNCHANGED <<started, lastRaw, raw, trueUs>>

\* Mutant: a counter that has wrapped is taken for one that stood still.
LaterAdvance_DropsWrap ==
  /\ started
  /\ dtUs' = IF raw >= lastRaw THEN raw - lastRaw ELSE 0
  /\ nowUs' = Plus(nowUs, dtUs', TimeMod)
  /\ cycle' = Plus(cycle, 1, CycleMod)
  /\ lastRaw' = raw
  /\ gap' = 0
  /\ UNCHANGED <<started, raw, trueUs>>

\* Every later advance().
LaterAdvance ==
  /\ started
  /\ dtUs' = Minus(raw, lastRaw, RawMod)
  /\ nowUs' = Plus(nowUs, dtUs', TimeMod)
  /\ cycle' = Plus(cycle, 1, CycleMod)
  /\ lastRaw' = raw
  /\ gap' = 0
  /\ UNCHANGED <<started, raw, trueUs>>

Advance == FirstAdvance \/ LaterAdvance

\* d microseconds pass.  Before the first sample they are nobody's.
Elapse(d) ==
  /\ raw' = Plus(raw, d, RawMod)
  /\ IF started
       THEN gap' = gap + d /\ trueUs' = Plus(trueUs, d, TimeMod)
       ELSE UNCHANGED <<gap, trueUs>>
  /\ UNCHANGED <<started, lastRaw, nowUs, cycle, dtUs>>

\* The scan keeps running: it samples within MaxGap.
Tick(d) == gap + d <= MaxGap /\ Elapse(d)

Next == Advance \/ \E d \in 1 .. MaxGap : Tick(d)

Spec == Init /\ [][Next]_vars

-----------------------------------------------------------------------------
(* Properties                                                              *)

\* "64 bits: it does not wrap": however often the narrow counter has gone
\* round since the start, the us last handed out plus the time since is the
\* true time.
ClockIsTrue == started => Plus(nowUs, gap, TimeMod) = trueUs

\* "dtUs -- measured time since the previous period (0 on the first)": what
\* an advance() returns is the true time since the one before it.
DtIsTrueGap == [][Advance => dtUs' = gap]_vars
=============================================================================
