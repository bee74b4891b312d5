----------------------------- MODULE WallClock -----------------------------
(***************************************************************************)
(* UdiWallClock (src/src/UdiWallClock.h): an offset on top of scan time,   *)
(* anchored again at every sync().  The scan goes on counting; the source  *)
(* of wall-clock time may be set to anything between two syncs.            *)
(*                                                                         *)
(* A log of stamped lines is the ghost state: each line keeps its scan     *)
(* time, its stamp and how far the resyncs before it had moved the clock.  *)
(***************************************************************************)
EXTENDS Integers, FiniteSets, Unsigned

CONSTANTS
  MaxUs,     \* bound: scan times
  Epochs,    \* readings of the wall-clock source
  MaxLines,  \* bound: lines in the log
  UsPerMs,   \* microseconds in a millisecond (1000)
  MsMod      \* number of values of UdiTime::ms() (2^32)

ASSUME WallClockAssumption ==
  /\ MaxUs \in Nat
  /\ Epochs \subseteq Int
  /\ UsPerMs \in Nat \ {0}
  /\ MsMod \in Nat \ {0}

VARIABLES
  us,          \* the us of the current scan's UdiTime
  offsetUs,    \* offsetUs_
  lastStepUs,  \* lastStepUs_
  set,         \* set_
  moved,       \* ghost: the sum of the steps of the resyncs
  log          \* ghost: the lines stamped, and the readings synced to

wall == <<offsetUs, lastStepUs, set>>
wallVars == <<us, wall, moved, log>>

Line == [us : 0 .. MaxUs, stamp : Int, moved : Int]

WallTypeOK ==
  /\ us \in 0 .. MaxUs
  /\ offsetUs \in Int
  /\ lastStepUs \in Int
  /\ set \in BOOLEAN
  /\ moved \in Int
  /\ log \subseteq Line

WallInit ==
  /\ us = 0
  /\ offsetUs = 0
  /\ lastStepUs = 0
  /\ set = FALSE
  /\ moved = 0
  /\ log = {}

stampUs == offsetUs + us

\* Mutant: the microseconds are cut to 32 bits before they are divided.
ms_CutFirst(t) == (t % MsMod) \div UsPerMs
\* UdiTime::ms(): milliseconds since boot, cut to 32 bits.
ms(t) == (t \div UsPerMs) % MsMod

\* Mutant: measured after the offset has been replaced.
StepTo_Late(offset) == 0
\* How far a sync to this offset moves the clock: 0 for the first one.
StepTo(offset) == IF set THEN offset - offsetUs ELSE 0

Anchor(epochUs) ==
  /\ lastStepUs' = StepTo(epochUs - us)
  /\ offsetUs' = epochUs - us
  /\ set' = TRUE

Scan(t) ==
  /\ t > us
  /\ us' = t
  /\ UNCHANGED <<wall, moved, log>>

sync(epochUs) ==
  /\ Cardinality(log) < MaxLines
  /\ Anchor(epochUs)
  /\ moved' = moved + lastStepUs'
  /\ log' = log \cup {[us |-> us, stamp |-> epochUs, moved |-> moved']}
  /\ UNCHANGED us

\* A line is stamped once the clock has been set.
Stamp ==
  /\ set
  /\ Cardinality(log) < MaxLines
  /\ log' = log \cup {[us |-> us, stamp |-> stampUs, moved |-> moved]}
  /\ UNCHANGED <<us, wall, moved>>

WallNext ==
  \/ \E t \in 1 .. MaxUs : Scan(t)
  \/ \E e \in Epochs : sync(e)
  \/ Stamp

WallSpec == WallInit /\ [][WallNext]_wallVars

-----------------------------------------------------------------------------
(* Properties                                                              *)

\* The clock's own part of what the log shows, for the induction: a line is
\* as far from the present stamp as scan time and later steps account for.
LinesReachNow ==
  /\ log # {} => set
  /\ \A a \in log : stampUs - a.stamp = (us - a.us) + (moved - a.moved)

\* "How far the last resync moved the clock" and "sits on the same timeline
\* as the scan": stamps may go back at a resync, but any two of them are as
\* far apart as their scan times and the steps reported between them say,
\* so a log can always be put on one timeline.
StepsReconcileStamps ==
  \A a, b \in log :
    b.stamp - a.stamp = (b.us - a.us) + (b.moved - a.moved)

\* "ms()": the unsigned difference of two ms() readings is the time between
\* them in whole milliseconds, or one more, also when the count has gone
\* back to 0 in between (once).
MsDifferenceIsElapsed ==
  \A a, b \in log :
    LET d == (b.us - a.us) \div UsPerMs
    IN  b.us >= a.us /\ d + 1 < MsMod =>
          Minus(ms(b.us), ms(a.us), MsMod) \in {d, d + 1}
=============================================================================
