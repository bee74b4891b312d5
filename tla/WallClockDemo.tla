--------------------------- MODULE WallClockDemo ---------------------------
(***************************************************************************)
(* How WallClockDemo.ino (src/examples/WallClockDemo) keeps a UdiWallClock *)
(* on an RTC that can only be read in whole seconds: loop() takes a T line *)
(* from the console, samples the scan clock and then reads the RTC, with   *)
(* time passing in between.  The RTC is external: it counts while it runs, *)
(* and setting it may or may not start its second again.                   *)
(*                                                                         *)
(* All times are taken modulo Lap so that the sketch can run forever: Lap  *)
(* is Seconds whole seconds, which the RTC numbers 1 .. Seconds (0 is the  *)
(* sketch's "not read yet").                                               *)
(***************************************************************************)
EXTENDS Integers

CONSTANTS
  UsPerSec,
  Seconds,       \* the seconds of a lap
  MaxGap,        \* the longest time between two samples of the scan clock
  ResyncEvery,   \* RESYNC_EVERY_S
  MaxCommands    \* bound: T lines

ASSUME RtcAssumption ==
  /\ {UsPerSec, Seconds} \subseteq Nat \ {0}
  /\ {MaxGap, ResyncEvery, MaxCommands} \subseteq Nat

VARIABLES
  loopPc,      \* what loop() does next: "serial", "sample" or "follow"
  clk,         \* true time on the scan clock
  gap,         \* true time since the last sample
  sampleUs,    \* now_.us
  rtc,         \* [state, sec, sub]: the RTC, its date "off", "old" or "valid"
  lastSecond, lastSyncSecond, wantSync,
  offsetUs, set,
  commands,    \* T lines taken so far
  bySetting    \* ghost: the RTC was set between the last two readings of it
               \* that a sync was taken from

rtcVars == <<loopPc, clk, gap, sampleUs, rtc, lastSecond, lastSyncSecond, wantSync,
            offsetUs, set, commands, bySetting>>

Lap == Seconds * UsPerSec
RtcUs == (rtc.sec * UsPerSec + rtc.sub) % Lap

RtcTypeOK ==
  /\ loopPc \in {"serial", "sample", "follow"}
  /\ clk \in 0 .. Lap - 1
  /\ gap \in 0 .. MaxGap
  /\ sampleUs \in 0 .. Lap - 1
  /\ rtc \in [state : {"off", "old", "valid"}, sec : 1 .. Seconds, sub : 0 .. UsPerSec - 1]
  /\ lastSecond \in 0 .. Seconds
  /\ lastSyncSecond \in 0 .. Seconds
  /\ wantSync \in BOOLEAN
  /\ offsetUs \in 0 .. Lap - 1
  /\ set \in BOOLEAN
  /\ commands \in 0 .. MaxCommands
  /\ bySetting \in {"no", "since", "synced"}
  /\ set <=> lastSyncSecond # 0

\* setup() has begun the RTC, whatever it holds, and calls scan() itself.
RtcInit ==
  /\ loopPc = "sample"
  /\ clk = 0 /\ gap = 0 /\ sampleUs = 0
  /\ rtc \in [state : {"off", "old", "valid"}, sec : {1}, sub : 0 .. UsPerSec - 1]
  /\ lastSecond = 0 /\ lastSyncSecond = 0
  /\ wantSync = TRUE
  /\ offsetUs = 0 /\ set = FALSE
  /\ commands = 0
  /\ bySetting = "no"

-----------------------------------------------------------------------------
\* The RTC after one more microsecond.
Ticked ==
  IF rtc.state = "off" THEN rtc
  ELSE IF rtc.sub + 1 < UsPerSec THEN [rtc EXCEPT !.sub = @ + 1]
  ELSE [rtc EXCEPT !.sub = 0, !.sec = (@ % Seconds) + 1]

PassUs ==
  /\ gap < MaxGap
  /\ gap' = gap + 1
  /\ clk' = (clk + 1) % Lap
  /\ rtc' = Ticked
  /\ UNCHANGED <<loopPc, sampleUs, lastSecond, lastSyncSecond, wantSync, offsetUs, set,
                 commands, bySetting>>

\* readSerial() with no complete line, or none that begins with a T.
NoCommand ==
  /\ loopPc = "serial"
  /\ loopPc' = "sample"
  /\ UNCHANGED <<clk, gap, sampleUs, rtc, lastSecond, lastSyncSecond, wantSync,
                 offsetUs, set, commands, bySetting>>

\* Mutant: a T line sets the RTC and nothing else.
SetRtc_NoSync(s, date, sub) ==
  /\ loopPc = "serial" /\ commands < MaxCommands
  /\ rtc' = [state |-> date, sec |-> s, sub |-> sub]
  /\ commands' = commands + 1
  /\ bySetting' = "since"
  /\ loopPc' = "sample"
  /\ UNCHANGED <<clk, gap, sampleUs, lastSecond, lastSyncSecond, wantSync, offsetUs, set>>

\* readSerial() with "T<unix seconds>".
SetRtc(s, date, sub) ==
  /\ loopPc = "serial" /\ commands < MaxCommands
  /\ rtc' = [state |-> date, sec |-> s, sub |-> sub]
  /\ wantSync' = TRUE
  /\ commands' = commands + 1
  /\ bySetting' = "since"
  /\ loopPc' = "sample"
  /\ UNCHANGED <<clk, gap, sampleUs, lastSecond, lastSyncSecond, offsetUs, set>>

\* scan() up to followRtc(): the devices run on this one sample of time.
Sample ==
  /\ loopPc = "sample"
  /\ sampleUs' = clk
  /\ gap' = 0
  /\ loopPc' = "follow"
  /\ UNCHANGED <<clk, rtc, lastSecond, lastSyncSecond, wantSync, offsetUs, set,
                 commands, bySetting>>

\* Mutant: the first reading counts as a change.
Changed_FirstToo == rtc.state # "off" /\ rtc.sec # lastSecond
\* The second is another one than at the last reading, and there was one.
Changed == rtc.state # "off" /\ rtc.sec # lastSecond /\ lastSecond # 0

Due ==
  \/ wantSync
  \/ ResyncEvery > 0 /\ (rtc.sec - lastSyncSecond) % Seconds >= ResyncEvery

\* UdiWallClock::sync(), the arithmetic modulo a lap.
SyncTo(epochUs) == offsetUs' = (epochUs - sampleUs) % Lap /\ set' = TRUE

Follows == Changed /\ rtc.state = "valid" /\ Due

followRtc ==
  /\ loopPc = "follow"
  /\ lastSecond' = IF rtc.state = "off" THEN lastSecond ELSE rtc.sec
  /\ IF Follows
       THEN /\ wantSync' = FALSE
            /\ lastSyncSecond' = rtc.sec
            /\ SyncTo(rtc.sec * UsPerSec)
            /\ bySetting' = IF bySetting = "since" THEN "synced" ELSE "no"
       ELSE /\ bySetting' = IF rtc.state # "off" /\ bySetting = "since"
                              THEN "no" ELSE bySetting
            /\ UNCHANGED <<wantSync, lastSyncSecond, offsetUs, set>>
  /\ loopPc' = "serial"
  /\ UNCHANGED <<clk, gap, sampleUs, rtc, commands>>

Loop ==
  \/ NoCommand
  \/ Sample
  \/ followRtc

RtcNext ==
  \/ PassUs
  \/ Loop
  \/ \E s \in 1 .. Seconds, date \in {"old", "valid"}, sub \in {0, rtc.sub} :
       SetRtc(s, date, sub)

RtcSpec == RtcInit /\ [][RtcNext]_rtcVars

\* loop() comes round, and time passes; a T line may never come.
RtcFairSpec == RtcSpec /\ WF_rtcVars(Loop) /\ WF_rtcVars(PassUs)

-----------------------------------------------------------------------------
(* Properties                                                              *)

Ahead == (offsetUs + clk - RtcUs) % Lap
WithinOf(before, after) == Ahead <= after \/ Ahead >= Lap - before

\* "Sync at the moment the source's second changes to get the sub-second
\* phase right": a wall clock that followed a tick is within one loop of
\* the RTC, on either side, for as long as nobody sets the RTC, although
\* the RTC only tells whole seconds; one that followed a setting is less
\* than a second behind.
WallFollowsRtc ==
  set /\ ~wantSync =>
    WithinOf(IF bySetting = "no" THEN MaxGap ELSE UsPerSec, MaxGap)

\* "T<unix seconds> sets the RTC.  The wall clock follows": once the RTC
\* holds a valid date, and for as long as it does, the wall clock comes to
\* be within a second of it, whatever it showed before.
WallComesToFollow ==
  rtc.state = "valid" ~>
    \/ set /\ WithinOf(UsPerSec, MaxGap)
    \/ rtc.state # "valid"
=============================================================================
