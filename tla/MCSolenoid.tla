----------------------------- MODULE MCSolenoid -----------------------------
(***************************************************************************)
(* Instances of Solenoid for TLC.  A millisecond is 2 microseconds long,   *)
(* so that limits fall between scan times as well as on them; the clock    *)
(* has 8 values and wraps in every behaviour; scans are 0 to 3             *)
(* microseconds apart.  Nothing is bounded: the state space is finite.     *)
(***************************************************************************)
EXTENDS Solenoid

MCTimeMod == 8
MCUsPerMs == 2
MCMaxStep == 3

\* Limits a sketch may set with UpdateValue(), which no write rule checks:
\* zero ("not configured") among them.
AnyLimits == {0, 1, 2}
=============================================================================
