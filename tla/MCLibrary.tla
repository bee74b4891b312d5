----------------------------- MODULE MCLibrary -----------------------------
(***************************************************************************)
(* What the library has besides devices of its own and attributes: time,   *)
(* errors, declarations and start-up.  One TLC run for all: a behaviour is *)
(* about one of them, `about` says which, and the others stand still.      *)
(*                                                                         *)
(* ClockWidener: a raw counter of 4 values, time of 12 (three laps of the  *)
(* counter, then it wraps too), periods of 5; samples at most 3 apart, one *)
(* short of a whole lap.                                                   *)
(* WallClock: scan times up to 11, a source that reads anything from       *)
(* before 1970 on, three lines, and milliseconds of 2 microseconds of      *)
(* which there are 4, so that ms() wraps within the log.                   *)
(* Calendar: days of 48 microseconds, every New Year from the year -2 to   *)
(* 10001, and every day of the years around the ends of the range, the     *)
(* 400-year eras, the leap and the common centuries and 1970.              *)
(* ErrorSink: two sinks with contexts of their own, the threads of the     *)
(* scan and of the writes.                                                 *)
(* Declarations: two items to a class, so that every class can be full and *)
(* one item too many.                                                      *)
(* StartUp: an arm whose shape its mounts decide.  It carries a joint, or  *)
(* a joint and a tool; the joint drives itself or hosts the drive or the   *)
(* servo a mount chose; the drive extends a base with features of its own. *)
(***************************************************************************)
EXTENDS ClockWidener, WallClock, Calendar, ErrorSink, MCDeclarations, StartUp

CONSTANTS arm, joint, tool, drive, servo   \* the devices of StartUp

MCRawMod == 4
MCTimeMod == 12
MCCycleMod == 5
MCMaxGap == 3
MCMaxUs == 11
MCEpochs == {-7, 0, 3, 40}
MCMaxLines == 3
MCUsPerMs == 2
MCMsMod == 4

MCUsPerSec == 3
MCSecPerMin == 2
MCMinPerHour == 4
MCHourPerDay == 2
MCLastInstant == 2147483647
MCFirstYear == -2
MCLastYear == 10001
MCWalkedYears ==
  (-2 .. 1) \cup (399 .. 401) \cup (1899 .. 1904) \cup (1967 .. 1973)
  \cup (1999 .. 2004) \cup (2099 .. 2101) \cup (9998 .. 10000)
MCSizes == {12, 20, 26, 27}

MCContext(sink) == <<"context of", sink>>

MCDevices == {arm, joint, tool, drive, servo}
MCNeeds ==
  arm :> <<"arm.commutation", "arm.homing">> @@ tool :> <<"tool.velocity", "tool.homing">>
    @@ drive :> <<"drive.commutation">> @@ joint :> <<>> @@ servo :> <<>>
MCFrom ==
  "arm.commutation" :> joint @@ "arm.homing" :> joint
    @@ "tool.velocity" :> joint @@ "tool.homing" :> joint @@ "drive.commutation" :> tool
MCWanted ==
  "arm.commutation" :> "Commutation" @@ "arm.homing" :> "Homing"
    @@ "tool.velocity" :> "Velocity" @@ "tool.homing" :> "Homing" @@ "drive.commutation" :> "Commutation"
MCLists ==
  joint :> <<<<"Commutation", "Homing">>>> @@ tool :> <<<<"Commutation">>>>
    @@ drive :> <<<<"Velocity">>, <<"Commutation", "Homing">>>>
    @@ servo :> <<<<"Commutation">>>> @@ arm :> <<>>
MCMountValues ==
  arm :> {"joint", "joint+tool"} @@ joint :> {"self", "drive", "servo"}
    @@ tool :> {"-"} @@ drive :> {"-"} @@ servo :> {"-"}
MCGrows(d, value) ==
  CASE d = arm /\ value = "joint"      -> {joint}
    [] d = arm /\ value = "joint+tool" -> {joint, tool}
    [] d = joint /\ value = "drive"    -> {drive}
    [] d = joint /\ value = "servo"    -> {servo}
    [] OTHER -> {}
MCHosts(d, value) ==
  CASE d = joint /\ value = "drive" -> drive
    [] d = joint /\ value = "servo" -> servo
    [] OTHER -> Null

-----------------------------------------------------------------------------
VARIABLE about

allVars == <<about, vars, wallVars, calVars, sinkVars, declVars, startVars>>

MCInit ==
  /\ about \in {"widener", "wall clock", "calendar", "errors", "declarations", "start-up"}
  /\ Init
  /\ WallInit
  /\ CalInit
  /\ SinkInit
  /\ DeclInit
  /\ StartInit
  /\ about # "widener" => raw = 0
  /\ about # "declarations" => unitMount = "other"

OfTime(A) ==
  A /\ UNCHANGED <<about, sinkVars, declVars, startVars>>
OfErrors(A) ==
  about = "errors" /\ A /\ UNCHANGED <<about, vars, wallVars, calVars, declVars, startVars>>
OfDecls(A) ==
  about = "declarations" /\ A /\ UNCHANGED <<about, vars, wallVars, calVars, sinkVars, startVars>>
OfStart(A) ==
  about = "start-up" /\ A /\ UNCHANGED <<about, vars, wallVars, calVars, sinkVars, declVars>>

\* The scan times end at MaxUs and the log is full.
LogComplete == us = MaxUs /\ Cardinality(log) = MaxLines /\ UNCHANGED wallVars

\* The scan goes on, or the framework has stopped.
StartIsOver == phase \in {"scan", "stopped"} /\ UNCHANGED startVars

MCNext ==
  \/ about = "widener" /\ OfTime(Next /\ UNCHANGED <<wallVars, calVars>>)
  \/ about = "wall clock" /\ OfTime((WallNext \/ LogComplete) /\ UNCHANGED <<vars, calVars>>)
  \/ about = "calendar" /\ OfTime(CalNext /\ UNCHANGED <<vars, wallVars>>)
  \/ OfErrors(SinkNext)
  \/ OfDecls(DeclNext)
  \/ OfStart(StartNext \/ StartIsOver)

\* The fairness StartUp states; the others state none.
MCFairSpec ==
  MCInit /\ [][MCNext]_allVars /\ WF_allVars(OfStart(StartNext))

-----------------------------------------------------------------------------
\* The start comes to an end.
StartEnds == about = "start-up" => StartUpEnds
=============================================================================
