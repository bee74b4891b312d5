------------------------------ MODULE CoilPulses ------------------------------
(***************************************************************************)
(* examples/WallClockDemo: what its loop() does with the solenoid.  A line *)
(* every second, a pulse that is "forgotten" every ten, and the fault it   *)
(* ends in cleared; the device is that of Solenoid.  (WallClockDemo has    *)
(* the same loop's clocks.)                                                *)
(***************************************************************************)
EXTENDS SketchCoil

CONSTANTS
  StatusEvery, PulseEvery,   \* 1000 and 10000 ms in the sketch
  Boot                       \* the longest wait for the serial port, in microseconds

\* The figures of the sketch leave room for the lines it prints, and its
\* counters for the longest time it measures.
ASSUME PulsesAssumption ==
  /\ {StatusEvery, PulseEvery} \subseteq Nat \ {0}
  /\ Boot \in Nat /\ Boot < TimeMod
  /\ MaxLoop + UsPerMs <= StatusEvery * UsPerMs
  /\ MAX_ON_MS * UsPerMs + 2 * MaxLoop + UsPerMs <= PulseEvery * UsPerMs
  /\ Boot <= PulseEvery * UsPerMs
  /\ PulseEvery * UsPerMs + MaxLoop + MaxPrint <= MsMod * UsPerMs
  /\ StatusEvery * UsPerMs + Boot + MaxLoop <= MsMod * UsPerMs

VARIABLES
  pc,          \* the statement that comes next
  lastPulse, lastStatus,                  \* of loop(), in milliseconds
  told,        \* what the latest status line said of the coil
  sincePulse,  \* ghost: true time since the latest pulse (or boot)
  cuts,        \* ghost: faults printed since then
  pulsed,      \* ghost: whether there was a pulse
  behind       \* ghost: true time since boot less a second for every line

timeVars == <<us, sinceScan, sincePulse, behind>>
pulsesVars == <<devVars, timeVars, pc, lastPulse, lastStatus, pin, told, cuts, pulsed>>

PulsesTypeOK ==
  /\ SketchTypeOK
  /\ pc \in {"configure", "begin", "first", "scan", "status", "recover", "pulse", "delay"}
  /\ {lastPulse, lastStatus} \subseteq 0 .. MsMod - 1
  /\ {sincePulse, cuts} \subseteq Nat
  /\ behind \in Int
  /\ pulsed \in BOOLEAN
  /\ told \in {"nothing", "coil on", "coil off"}

\* After io.begin() and the wait for the serial port.
PulsesInit ==
  /\ Dev!Init
  /\ pc = "configure"
  /\ us \in 0 .. Boot
  /\ sinceScan = us /\ sincePulse = us /\ behind = us
  /\ lastPulse = 0 /\ lastStatus = 0
  /\ pin = FALSE /\ told = "nothing"
  /\ cuts = 0 /\ pulsed = FALSE

\* d microseconds later.
Pass(d) ==
  /\ us' = Later(d)
  /\ sinceScan' = sinceScan + d
  /\ sincePulse' = sincePulse + d
  /\ behind' = behind + d

-----------------------------------------------------------------------------
(* setup()                                                                 *)

LimitCoil ==
  /\ pc = "configure"
  /\ Dev!SetLimit(MAX_ON_MS)
  /\ pc' = "begin"
  /\ UNCHANGED <<timeVars, lastPulse, lastStatus, pin, told, cuts, pulsed>>

BeginCoil ==
  /\ pc = "begin"
  /\ Dev!Begin
  /\ pc' = "first"
  /\ UNCHANGED <<timeVars, lastPulse, lastStatus, pin, told, cuts, pulsed>>

-----------------------------------------------------------------------------
(* loop()                                                                  *)

\* sink(): a line for every fault the device reports.
CountFault == cuts' = IF reported' = "NONE" THEN cuts ELSE cuts + 1

\* scan(): the device, with the line its fault prints, the link and the pin.
ScanCoil ==
  /\ pc \in {"first", "scan"}
  /\ Dev!Scan(sinceScan)
  /\ pin' = Pin
  /\ CountFault
  /\ \E d \in 0 .. MaxPrint :
       /\ us' = Later(d)
       /\ sinceScan' = d
       /\ sincePulse' = sincePulse + d
       /\ behind' = behind + d
  /\ pc' = IF pc = "first" THEN "scan" ELSE "status"
  /\ UNCHANGED <<lastPulse, lastStatus, told, pulsed>>

StatusDue == Minus(millis, lastStatus, MsMod) >= StatusEvery
NextStatus == Plus(lastStatus, StatusEvery, MsMod)

\* "a stamped line every second": one a loop while several are due.
Status ==
  /\ pc = "status"
  /\ IF StatusDue
       THEN /\ lastStatus' = NextStatus
            /\ told' = IF rState = "BUSY" THEN "coil on" ELSE "coil off"
            /\ \E d \in 0 .. MaxPrint :
                 /\ us' = Later(d)
                 /\ sinceScan' = sinceScan + d
                 /\ sincePulse' = sincePulse + d
                 /\ behind' = behind + d - StatusEvery * UsPerMs
       ELSE UNCHANGED <<lastStatus, told, timeVars>>
  /\ pc' = "recover"
  /\ UNCHANGED <<devVars, lastPulse, pin, cuts, pulsed>>

Faulted == rState = "ERRORED"

\* if (ERRORED) coil.clearFault()
Recover ==
  /\ pc = "recover"
  /\ IF Faulted THEN Dev!Request("CLEAR_FAULT") ELSE UNCHANGED devVars
  /\ pc' = "pulse"
  /\ UNCHANGED <<timeVars, lastPulse, lastStatus, pin, told, cuts, pulsed>>

\* Mutant: the end is computed instead of the time that passed.
PulseDue_Absolute == millis >= Plus(lastPulse, PulseEvery, MsMod)
PulseDue == Minus(millis, lastPulse, MsMod) >= PulseEvery

\* "every 10 s: energize and forget"; the two readings of millis() are one.
Pulse ==
  /\ pc = "pulse"
  /\ IF PulseDue
       THEN /\ lastPulse' = millis
            /\ Dev!Request("ENERGIZE")
            /\ sincePulse' = 0 /\ cuts' = 0 /\ pulsed' = TRUE
       ELSE UNCHANGED <<devVars, lastPulse, sincePulse, cuts, pulsed>>
  /\ pc' = "delay"
  /\ UNCHANGED <<us, sinceScan, behind, lastStatus, pin, told>>

\* delay(1), and readSerial() of the next loop.
Wait ==
  /\ pc = "delay"
  /\ \E d \in MinDelay .. MaxDelay : Pass(d)
  /\ pc' = "scan"
  /\ UNCHANGED <<devVars, lastPulse, lastStatus, pin, told, cuts, pulsed>>

PulsesNext ==
  LimitCoil \/ BeginCoil \/ ScanCoil \/ Status \/ Recover \/ Pulse \/ Wait

PulsesSpec == PulsesInit /\ [][PulsesNext]_pulsesVars

-----------------------------------------------------------------------------
(* Properties                                                              *)

\* "every 10 s": none is later than one way through the loop, also when
\* millis() goes back to 0 before it.
NoPulseLate == sincePulse < PulseEvery * UsPerMs + MaxLoop + MaxPrint

\* "a stamped line every second": never a line too many, and none lost; only
\* the wait at boot, or one way through the loop, makes a line late.
OneLinePerSecond ==
  /\ behind >= 0
  /\ behind < StatusEvery * UsPerMs + Boot + MaxLoop

\* Every pulse is energized and "forgotten", and its own cutoff reports one
\* error: a pulse comes a period after the one before it (but for the
\* millisecond that had begun), finds the coil off, the fault of that one
\* cleared and one line printed for it, and is accepted.
PulseIsCutOnce ==
  /\ sincePulse > (PulseEvery - 1) * UsPerMs
  /\ Dev!Accepts("ENERGIZE") /\ ~rEnergized /\ ~pin
  /\ cuts = IF pulsed THEN 1 ELSE 0

\* WallClockDemo keeps time on a millis() that wraps: pulses and lines come
\* when they are due, a pulse ends in one cutoff, and a status line, which
\* reads rState, tells the truth about the pin.
PulsesKeepTime ==
  /\ [](NoPulseLate /\ OneLinePerSecond)
  /\ [][Pulse /\ PulseDue => PulseIsCutOnce]_pulsesVars
  /\ [][Status /\ StatusDue => (told' = "coil on" <=> pin)]_pulsesVars
=============================================================================
