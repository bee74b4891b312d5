---------------------------- MODULE SolenoidScan ----------------------------
(***************************************************************************)
(* The scan of examples/SolenoidDeviceDemo: one sample of the counter, the *)
(* solenoid's logic, the io link, the io server's pin write.  It composes  *)
(* ClockWidener and Solenoid and asks about the PIN, which neither of them *)
(* knows: what reaches the hardware is late by the rest of the scan, and   *)
(* early by nothing.                                                       *)
(*                                                                         *)
(* Requests and limit changes come between any two steps (the runtime      *)
(* takes them from another thread and only keeps them out of update() and  *)
(* each other); true time passes between any two steps.                    *)
(***************************************************************************)
EXTENDS Integers

CONSTANTS
  RawMod, TimeMod, CycleMod,   \* widths, as in ClockWidener
  UsPerMs, Limits,             \* as in Solenoid
  MaxGap,        \* longest true time between two clock samples
  MaxLatency     \* longest true time from a clock sample to its pin write

VARIABLES
  rState, rError, rEnergized, ioCoil, cnfMaxOnTimeMs, wCommand, pending,
  energizedAtUs, now, held, reported,                      \* the solenoid
  started, lastRaw, nowUs, cycle, dtUs, raw, gap, trueUs,  \* the clock
  step,         \* the next statement of scan()
  serverCoil,   \* DemoIoServer::ioCoil
  pin,          \* the level of the coil pin
  pinHeld       \* ghost: true time the pin has been HIGH without a break

Dev == INSTANCE Solenoid WITH MaxStep <- MaxGap
Clk == INSTANCE ClockWidener

\* What both ask of their constants; the pin is written before the next sample.
ASSUME ScanAssumption ==
  /\ Dev!SolenoidAssumption
  /\ Clk!WidenerAssumption
  /\ MaxLatency \in Nat /\ MaxLatency <= MaxGap

devVars == <<rState, rError, rEnergized, ioCoil, cnfMaxOnTimeMs, wCommand,
             pending, energizedAtUs, now, held, reported>>
clkVars == <<started, lastRaw, nowUs, cycle, dtUs, raw, gap, trueUs>>
ioVars  == <<step, serverCoil, pin, pinHeld>>
vars    == <<devVars, clkVars, ioVars>>

TypeOK ==
  /\ Dev!TypeOK
  /\ Clk!TypeOK
  /\ step \in {"sample", "update", "link", "drive"}
  /\ serverCoil \in BOOLEAN
  /\ pin \in BOOLEAN
  /\ pinHeld \in Nat

\* After DemoIoServer::begin(): the pin is an output and LOW.
Init ==
  /\ Dev!Init
  /\ Clk!Init
  /\ step = "sample"
  /\ serverCoil = FALSE
  /\ pin = FALSE
  /\ pinHeld = 0

-----------------------------------------------------------------------------
(* scan(), statement by statement                                          *)

\* UdiTime t = scanClock.advance(micros())
Sample ==
  /\ step = "sample"
  /\ Clk!Advance
  /\ step' = "update"
  /\ UNCHANGED <<devVars, serverCoil, pin, pinHeld>>

\* latch.update(t): the device sees t.us, not how it came about.
Update ==
  /\ step = "update"
  /\ Dev!Scan(Dev!Minus(nowUs, now, TimeMod))
  /\ step' = "link"
  /\ UNCHANGED <<clkVars, serverCoil, pin, pinHeld>>

\* Mutant: the link only ever brings the coil on.
Link_OnOnly ==
  /\ step = "link"
  /\ serverCoil' = (serverCoil \/ ioCoil)
  /\ step' = "drive"
  /\ UNCHANGED <<devVars, clkVars, pin, pinHeld>>

\* io.ioCoil.UpdateValue(latch.ioCoil)
Link ==
  /\ step = "link"
  /\ serverCoil' = ioCoil
  /\ step' = "drive"
  /\ UNCHANGED <<devVars, clkVars, pin, pinHeld>>

\* io.update(t): digitalWrite of what the link brought.
Drive ==
  /\ step = "drive"
  /\ pin' = serverCoil
  /\ pinHeld' = IF pin /\ serverCoil THEN pinHeld ELSE 0
  /\ step' = "sample"
  /\ UNCHANGED <<devVars, clkVars, serverCoil>>

ScanStep == Sample \/ Update \/ Link \/ Drive

\* A microsecond of true time.  The loop is back at its sample within MaxGap
\* of the last one, and writes the pin within MaxLatency of it.  The ghost stops
\* counting at 2 * TimeMod, beyond every limit with its gap and latency.
Tick ==
  /\ step # "sample" => gap < MaxLatency
  /\ Clk!Tick(1)
  /\ pinHeld' = IF pin /\ pinHeld < 2 * TimeMod THEN pinHeld + 1 ELSE pinHeld
  /\ UNCHANGED <<devVars, step, serverCoil, pin>>

-----------------------------------------------------------------------------
(* The rest of the application                                             *)

\* setup() calls begin() until it succeeds, and then no more.
Begin ==
  /\ step = "sample"
  /\ rState = "OFFLINE"
  /\ Dev!Begin
  /\ UNCHANGED <<clkVars, ioVars>>

\* energize(), release(), clearFault(); a write to wCommand latches the same.
Request ==
  /\ \E c \in {"ENERGIZE", "RELEASE", "CLEAR_FAULT"} : Dev!Request(c)
  /\ UNCHANGED <<clkVars, ioVars>>

Configure ==
  /\ \E v \in Limits : Dev!SetLimit(v)
  /\ UNCHANGED <<clkVars, ioVars>>

Next == ScanStep \/ Tick \/ Begin \/ Request \/ Configure

Spec == Init /\ [][Next]_vars

\* loop() goes round for ever and time passes, whatever is requested.
FairSpec == Spec /\ WF_vars(ScanStep) /\ WF_vars(Tick)

-----------------------------------------------------------------------------
(* Properties                                                              *)

\* "The device enforces a maximum continuous on-time": on the pin, the true
\* time is under a limit that was configured, one gap between samples and
\* the way from a sample to the pin.
PinOnTimeBounded ==
  pin => \E l \in Limits : pinHeld < l * UsPerMs + MaxGap + MaxLatency

\* "What the logic decided this period": between two scans the pin is what
\* the device believes its coil to be, after a cutoff, a release and a begin()
\* as well.
PinIsTheCoil == step = "sample" => (pin <=> rEnergized)

\* The clock keeps the bargain Solenoid's own proofs assume of their caller:
\* update(t) moves the device's clock by at most MaxGap a call, and by the
\* time that has really passed.  After each call that clock is behind true
\* time by what has passed since the sample and by nothing else: no period is
\* lost or seen twice, when the counter wraps either.
KeepsSolenoidAssumption ==
  /\ Dev!Spec
  /\ [][Update => Dev!Plus(now', gap, TimeMod) = trueUs]_vars

\* Nobody has to ask for it: a pin that is HIGH goes LOW.
PinGoesLow == pin ~> ~pin
=============================================================================
