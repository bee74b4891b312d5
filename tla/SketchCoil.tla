----------------------------- MODULE SketchCoil -----------------------------
(***************************************************************************)
(* What the two sketches of src/examples have in common: the solenoid of   *)
(* Solenoid, the io server's pin and Arduino's millis().                   *)
(*                                                                         *)
(* A scan is one step here (SolenoidScan has its statements) and the time  *)
(* it passes on is true time (ClockWidener).  Time passes in delay() and   *)
(* while the sketch, or its error sink inside a scan, prints.              *)
(***************************************************************************)
EXTENDS Unsigned

CONSTANTS
  TimeMod, UsPerMs,     \* as in Solenoid
  MsMod,                \* number of values of millis() (2^32)
  MAX_ON_MS,            \* the solenoid's limit, 2000 in both sketches
  MinDelay, MaxDelay,   \* how long the loop's delay() may take
  MaxPrint              \* how long the lines of one statement may take

\* The longest time between two scans of a device that is online: a delay
\* and the lines of two statements.
MaxLoop == MaxDelay + 2 * MaxPrint

ASSUME SketchAssumption ==
  /\ {TimeMod, UsPerMs, MsMod, MAX_ON_MS, MinDelay} \subseteq Nat \ {0}
  /\ {MaxDelay, MaxPrint} \subseteq Nat
  /\ MinDelay <= MaxDelay
  /\ MAX_ON_MS * UsPerMs + MaxLoop < TimeMod

VARIABLES
  rState, rError, rEnergized, ioCoil, cnfMaxOnTimeMs, wCommand, pending,
  energizedAtUs, now, held, reported,     \* the solenoid
  us,          \* true time, as far as millis() can tell
  sinceScan,   \* true time since the last scan
  pin          \* the level of the io server's pin

Dev == INSTANCE Solenoid WITH Limits <- {MAX_ON_MS}, MaxStep <- MaxLoop

devVars == <<rState, rError, rEnergized, ioCoil, cnfMaxOnTimeMs, wCommand,
             pending, energizedAtUs, now, held, reported>>

SketchTypeOK ==
  /\ Dev!TypeOK
  /\ us \in 0 .. MsMod * UsPerMs - 1
  /\ sinceScan \in Nat
  /\ pin \in BOOLEAN

millis == us \div UsPerMs

\* The clock of millis() d microseconds later.
Later(d) == Plus(us, d, MsMod * UsPerMs)

\* The io server's update(): the pin is its copy of the coil, just linked.
Pin == ioCoil'
=============================================================================
