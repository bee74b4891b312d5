----------------------------- MODULE MCSketches -----------------------------
(***************************************************************************)
(* The two example sketches, one TLC run for all: a behaviour is about one *)
(* of their modules, `about` says which, and the others stand still (the   *)
(* coil and millis() of SketchCoil belong to the two that have them).      *)
(*                                                                         *)
(* A millisecond of 2 microseconds, delays of 1 to 2, lines that take 0 or *)
(* 1, a limit of 4 ms; millis() goes back to 0 after 16.                   *)
(* SolenoidDemo: the script starts at any value of millis().               *)
(* CoilPulses: a line due every 3 ms, which does not divide 16, a pulse    *)
(* every 10, and a wait at boot that leaves up to three lines due.         *)
(* WallClockDemo: seconds of 5 microseconds, 3 of them in a lap, at most 2 *)
(* microseconds between two samples, two T lines, and the sketch's own     *)
(* RESYNC_EVERY_S.                                                         *)
(***************************************************************************)
EXTENDS SolenoidDemo, CoilPulses, WallClockDemo

VARIABLE about

onlyDemo == <<line, t0, pause, waited, printed, shown>>
onlyPulses == <<pc, lastPulse, lastStatus, told, sincePulse, cuts, pulsed, behind>>
allVars == <<about, demoVars, pulsesVars, rtcVars>>

PulsesIdle ==
  /\ pc = "configure" /\ told = "nothing" /\ pulsed = FALSE
  /\ lastPulse = 0 /\ lastStatus = 0
  /\ sincePulse = 0 /\ cuts = 0 /\ behind = 0

MCInit ==
  /\ about \in {"demo", "pulses", "rtc"}
  /\ IF about = "pulses" THEN PulsesInit /\ ScriptInit ELSE DemoInit /\ PulsesIdle
  /\ RtcInit
  /\ about # "rtc" => rtc.state = "off" /\ rtc.sub = 0
  /\ about = "rtc" => us = 0

OfDemo(A)   == about = "demo"   /\ A /\ UNCHANGED <<about, onlyPulses, rtcVars>>
OfPulses(A) == about = "pulses" /\ A /\ UNCHANGED <<about, onlyDemo, rtcVars>>
OfRtc(A)    == about = "rtc"    /\ A /\ UNCHANGED <<about, devVars, us, sinceScan, pin, onlyDemo, onlyPulses>>

MCNext == OfDemo(DemoNext) \/ OfPulses(PulsesNext) \/ OfRtc(RtcNext)

\* The fairness SolenoidDemo and WallClockDemo state; CoilPulses states none.
MCFairSpec ==
  /\ MCInit /\ [][MCNext]_allVars
  /\ WF_allVars(OfDemo(DemoNext))
  /\ WF_allVars(OfRtc(Loop)) /\ WF_allVars(OfRtc(PassUs))

-----------------------------------------------------------------------------
(* Properties of the modules, where it is they that run                    *)

\* SolenoidDeviceDemo, cycle after cycle: runFor(ms) runs for ms
\* milliseconds on a millis() that wraps, and the fault comes again, and is
\* recovered from again.
CyclesKeepTime ==
  /\ RunsForItsTime
  /\ about = "demo" => CycleRepeats

\* WallClockDemo: the wall clock comes to follow an RTC that is valid.
ClockComesToFollow == about = "rtc" => WallComesToFollow
=============================================================================
