--------------------------- MODULE MCClockWidener ---------------------------
(***************************************************************************)
(* ClockWidener fed once in every lap of its counter and no more.  The raw *)
(* counter has 4 values, time 12 and the period counter 5.                 *)
(***************************************************************************)
EXTENDS ClockWidener

VARIABLE laps   \* how often the counter has started again since the last sample

MCRawMod == 4
MCTimeMod == 12
MCCycleMod == 5
MCMaxGap == 3

lapVars == <<vars, laps>>

MCInit == Init /\ laps = 0

\* One more microsecond, on a counter that is fed once in every lap: it may
\* not start again twice between two samples.
TickInLap ==
  /\ Elapse(1)
  /\ laps' = IF started /\ raw' < raw THEN laps + 1 ELSE laps
  /\ laps' <= 1

MCAdvance == Advance /\ laps' = 0

\* "Feed it at least once per wrap of that counter", and no more than that.
OncePerWrapSpec == MCInit /\ [][MCAdvance \/ TickInLap]_lapVars
=============================================================================
