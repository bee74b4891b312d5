---------------------------- MODULE SolenoidDemo ----------------------------
(***************************************************************************)
(* examples/SolenoidDeviceDemo: the sketch's script (setup() and loop())   *)
(* run against the device of Solenoid, with its scan, its io server, its   *)
(* error sink and its waits on millis().                                   *)
(***************************************************************************)
EXTENDS SketchCoil, Sequences

CONSTANTS
  SAFE_PULSE_MS,              \* 1000 in the sketch
  Margin, Pause, LastPause    \* 200, 500 and 2000 ms in the sketch

\* The times of the sketch's runFor().
Runs == {SAFE_PULSE_MS, Pause, MAX_ON_MS + Margin, LastPause}

\* The sketch's figures leave room for a delay and two lines.
ASSUME DemoAssumption ==
  /\ {SAFE_PULSE_MS, Margin, Pause, LastPause} \subseteq Nat
  /\ SAFE_PULSE_MS * UsPerMs + MaxLoop < MAX_ON_MS * UsPerMs
  /\ MaxDelay + UsPerMs <= Margin * UsPerMs
  /\ \A ms \in Runs : ms * UsPerMs + MaxPrint + MaxDelay <= MsMod * UsPerMs

VARIABLES
  line,      \* the statement of the script that comes next
  t0,        \* runFor()'s t0, or -1 outside it
  pause,     \* whether runFor() is in its delay()
  waited,    \* ghost: true time in runFor()
  printed,   \* what the sink printed since the last printState()
  shown      \* the last line of printState(), with the pin

demoVars == <<devVars, us, sinceScan, waited, line, t0, pause, pin, printed, shown>>

-----------------------------------------------------------------------------
(* The script                                                              *)

\* A statement of it; a line of printState() goes by a short name.  What
\* the first begin() returns is printed at once.
Do(what, value) == [do |-> what, value |-> value]

setup == <<
  Do("print", "constructed"), Do("begin", "print"),
  Do("write", "ENERGIZE"), Do("scan", "none"), Do("print", "EnergizeTooEarly"),
  Do("configure", MAX_ON_MS), Do("begin", "none"), Do("print", "Begun")>>

loop == <<
  Do("write", "ENERGIZE"), Do("scan", "none"), Do("print", "Energize"),
  Do("runFor", SAFE_PULSE_MS),
  Do("write", "RELEASE"), Do("scan", "none"), Do("print", "Release"),
  Do("runFor", Pause),
  Do("write", "ENERGIZE"), Do("scan", "none"), Do("print", "NeverRelease"),
  Do("runFor", MAX_ON_MS + Margin),
  Do("print", "CutOff"),
  Do("write", "CLEAR_FAULT"), Do("scan", "none"), Do("print", "ClearFault"),
  Do("runFor", LastPause)>>

Script == setup \o loop
Here(statement) == Script[line].do = statement

\* After the last statement loop() is called again.
NextLine == line' = IF line = Len(Script) THEN Len(setup) + 1 ELSE line + 1

-----------------------------------------------------------------------------
DemoTypeOK ==
  /\ SketchTypeOK
  /\ line \in 1 .. Len(Script)
  /\ waited \in Nat
  /\ t0 \in 0 .. MsMod - 1 \cup {-1}
  /\ pause \in BOOLEAN
  /\ printed \in Seq({"NOT_ONLINE", "ON_TIME_EXCEEDED"})

\* Nothing of the script has run.
ScriptInit ==
  /\ line = 1
  /\ t0 = -1 /\ pause = FALSE /\ waited = 0
  /\ printed = <<>>
  /\ shown = [what |-> "nothing", state |-> rState, error |-> rError,
              energized |-> rEnergized, pin |-> pin, printed |-> printed]

\* After io.begin(): the pin is LOW.  The sketch starts at any time.
DemoInit ==
  /\ Dev!Init
  /\ us \in 0 .. MsMod * UsPerMs - 1
  /\ sinceScan = 0
  /\ pin = FALSE
  /\ ScriptInit

\* d passes, since being the time since the last scan until then.
Elapse(since, d) ==
  /\ us' = Later(d)
  /\ sinceScan' = since + d
  /\ waited' = IF t0 = -1 THEN waited ELSE waited + d

\* Mutant: the sink does not print.
Sink_Silent == UNCHANGED printed
\* serialErrorSink(): a line for what the device reported.
Sink == printed' = IF reported' = "NONE" THEN printed ELSE Append(printed, reported')

\* How long it prints: inside update(), or inside Set_wCommand().
SinkTime == IF reported' = "NONE" THEN {0} ELSE 0 .. MaxPrint

\* scan(): the device, the link, the io server.
Scan ==
  /\ Dev!Scan(sinceScan)
  /\ Sink
  /\ \E d \in SinkTime : Elapse(0, d)
  /\ pin' = Pin

-----------------------------------------------------------------------------
(* The statements                                                          *)

\* command(c), first part: the attribute is written, then Set_wCommand().
WriteCommand ==
  /\ Here("write")
  /\ Dev!Accept(Script[line].value)
  /\ wCommand' = Script[line].value
  /\ Sink
  /\ \E d \in SinkTime : Elapse(sinceScan, d)
  /\ NextLine
  /\ UNCHANGED <<t0, pause, pin, shown>>

\* command(c), second part.
ScanCommand ==
  /\ Here("scan")
  /\ Scan
  /\ NextLine
  /\ UNCHANGED <<t0, pause, shown>>

\* printState(): it takes its time.
PrintState ==
  /\ Here("print")
  /\ shown' = [what |-> Script[line].value, state |-> rState, error |-> rError,
               energized |-> rEnergized, pin |-> pin, printed |-> printed]
  /\ printed' = <<>>
  /\ \E d \in 0 .. MaxPrint : Elapse(sinceScan, d)
  /\ NextLine
  /\ UNCHANGED <<devVars, t0, pause, pin>>

\* latch.begin()
CallBegin ==
  /\ Here("begin")
  /\ Dev!Begin
  /\ Sink
  /\ \E d \in IF Script[line].value = "print" THEN 0 .. MaxPrint ELSE {0} : Elapse(sinceScan, d)
  /\ NextLine
  /\ UNCHANGED <<t0, pause, pin, shown>>

\* latch.cnfMaxOnTimeMs.UpdateValue(MAX_ON_MS)
Configure ==
  /\ Here("configure")
  /\ Dev!SetLimit(Script[line].value)
  /\ NextLine
  /\ UNCHANGED <<us, sinceScan, waited, t0, pause, pin, printed, shown>>

\* runFor(): uint32_t t0 = millis()
StartRun ==
  /\ Here("runFor") /\ t0 = -1
  /\ t0' = millis
  /\ waited' = 0
  /\ UNCHANGED <<devVars, us, sinceScan, line, pause, pin, printed, shown>>

TimeLeft(ms) == Minus(millis, t0, MsMod) < ms

RunScan ==
  /\ t0 # -1 /\ ~pause
  /\ TimeLeft(Script[line].value)
  /\ Scan
  /\ pause' = TRUE
  /\ UNCHANGED <<line, t0, shown>>

\* delay(10)
Delay ==
  /\ pause
  /\ \E d \in MinDelay .. MaxDelay : Elapse(sinceScan, d)
  /\ pause' = FALSE
  /\ UNCHANGED <<devVars, line, t0, pin, printed, shown>>

EndRun ==
  /\ t0 # -1 /\ ~pause
  /\ ~TimeLeft(Script[line].value)
  /\ t0' = -1
  /\ NextLine
  /\ UNCHANGED <<devVars, us, sinceScan, waited, pause, pin, printed, shown>>

DemoNext ==
  \/ WriteCommand \/ ScanCommand \/ PrintState \/ CallBegin \/ Configure
  \/ StartRun \/ RunScan \/ Delay \/ EndRun

DemoSpec == DemoInit /\ [][DemoNext]_demoVars

\* The sketch never stops by itself.
DemoFairSpec == DemoSpec /\ WF_demoVars(DemoNext)

-----------------------------------------------------------------------------
(* Properties                                                              *)

Shows(state, error, coil, lines) ==
  [what |-> shown.what, state |-> state, error |-> error, energized |-> coil,
   pin |-> coil, printed |-> lines]

\* "What you'll see on the Serial monitor": every line of printState(), the
\* LED and the sink's lines before it are those the sketch announces, in
\* every cycle, however the delays and the counters fall.
ShownAsAnnounced ==
  shown =
    CASE shown.what \in {"nothing", "constructed"} -> Shows("OFFLINE", "NONE", FALSE, <<>>)
      [] shown.what = "EnergizeTooEarly" ->
           Shows("OFFLINE", "NONE", FALSE, <<"NOT_ONLINE">>)
      [] shown.what \in {"Begun", "Release", "ClearFault"} ->
           Shows("IDLE", "NONE", FALSE, <<>>)
      [] shown.what \in {"Energize", "NeverRelease"} ->
           Shows("BUSY", "NONE", TRUE, <<>>)
      [] shown.what = "CutOff" ->
           Shows("ERRORED", "ON_TIME_EXCEEDED", FALSE, <<"ON_TIME_EXCEEDED">>)

\* runFor(ms) runs for ms milliseconds of true time, less at most the one
\* millis() had begun and more by less than a delay and what the sink prints
\* in it, also when millis() goes back to 0 meanwhile.
RunsForItsTime ==
  [][EndRun => LET ms == Script[line].value * UsPerMs
               IN  ms - UsPerMs < waited /\ waited < ms + MaxPrint + MaxDelay]_demoVars

\* The cycle repeats: the fault comes again, and is recovered from again.
CycleRepeats ==
  /\ []<>(shown.what = "CutOff" /\ rState = "ERRORED")
  /\ []<>(shown.what = "ClearFault" /\ rState = "IDLE")
=============================================================================
