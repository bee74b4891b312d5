------------------------ MODULE SolenoidWritesProofs ------------------------
(***************************************************************************)
(* Theorems about SolenoidWrites, for every counter width, limit set and   *)
(* scan gap that SolenoidAssumption allows: the statements of each handler *)
(* add up to its step in Solenoid, and what an observer sees on the way is *)
(* safe and whole.                                                         *)
(*                                                                         *)
(* The invariant says for every point of a handler's program what the      *)
(* device is there, in terms of the device the handler found.              *)
(***************************************************************************)
EXTENDS SolenoidWrites, SequenceTheorems, TLAPS

-----------------------------------------------------------------------------
(* Short sequences                                                         *)

\* The first statement of a program of one, and what is left after it.
LEMMA One ==
  ASSUME NEW a
  PROVE  /\ <<a>> # <<>> /\ Head(<<a>>) = a
         /\ Tail(<<a>>) = <<>>
  OBVIOUS

\* Of a program of two.
LEMMA Two ==
  ASSUME NEW a, NEW b
  PROVE  /\ <<a, b>> # <<>> /\ Head(<<a, b>>) = a
         /\ Tail(<<a, b>>) = <<b>> /\ Tail(<<a, b>>) # <<>>
  OBVIOUS

\* Of a program of three.
LEMMA Three ==
  ASSUME NEW a, NEW b, NEW c
  PROVE  /\ <<a, b, c>> # <<>> /\ Head(<<a, b, c>>) = a
         /\ Tail(<<a, b, c>>) = <<b, c>> /\ Tail(<<a, b, c>>) # <<>>
  OBVIOUS

\* Of a program of four.
LEMMA Four ==
  ASSUME NEW a, NEW b, NEW c, NEW d
  PROVE  /\ <<a, b, c, d>> # <<>> /\ Head(<<a, b, c, d>>) = a
         /\ Tail(<<a, b, c, d>>) = <<b, c, d>> /\ Tail(<<a, b, c, d>>) # <<>>
  OBVIOUS

\* Of a program of five.
LEMMA Five ==
  ASSUME NEW a, NEW b, NEW c, NEW d, NEW e
  PROVE  /\ <<a, b, c, d, e>> # <<>> /\ Head(<<a, b, c, d, e>>) = a
         /\ Tail(<<a, b, c, d, e>>) = <<b, c, d, e>> /\ Tail(<<a, b, c, d, e>>) # <<>>
  OBVIOUS

\* Of a program of six.
LEMMA Six ==
  ASSUME NEW a, NEW b, NEW c, NEW d, NEW e, NEW f
  PROVE  /\ <<a, b, c, d, e, f>> # <<>> /\ Head(<<a, b, c, d, e, f>>) = a
         /\ Tail(<<a, b, c, d, e, f>>) = <<b, c, d, e, f>> /\ Tail(<<a, b, c, d, e, f>>) # <<>>
  OBVIOUS

\* The concatenations the handlers are written with: energizedAtUs_, then drive(true).
LEMMA Concat1And3 ==
  ASSUME NEW a, NEW b, NEW c, NEW d
  PROVE  <<a>> \o <<b, c, d>> = <<a, b, c, d>>
<1> DEFINE S == {a, b, c, d}  s == <<a>>  t == <<b, c, d>>  u == <<a, b, c, d>>
<1>1. s \in Seq(S) /\ t \in Seq(S) /\ u \in Seq(S)
  OBVIOUS
<1>2. s \o t \in Seq(S) /\ Len(s \o t) = 4 /\ Len(u) = 4
  BY <1>1
<1>3. \A i \in 1 .. 4 : (s \o t)[i] = u[i]
  BY <1>1
<1> QED BY <1>1, <1>2, <1>3, SeqEqual

\* ENERGIZE's statements, then the cutoff.
LEMMA Concat4And1 ==
  ASSUME NEW a, NEW b, NEW c, NEW d, NEW e
  PROVE  <<a, b, c, d>> \o <<e>> = <<a, b, c, d, e>>
<1> DEFINE S == {a, b, c, d, e}  s == <<a, b, c, d>>  t == <<e>>  u == <<a, b, c, d, e>>
<1>1. s \in Seq(S) /\ t \in Seq(S) /\ u \in Seq(S)
  OBVIOUS
<1>2. s \o t \in Seq(S) /\ Len(s \o t) = 5 /\ Len(u) = 5
  BY <1>1
<1>3. \A i \in 1 .. 5 : (s \o t)[i] = u[i]
  BY <1>1
<1> QED BY <1>1, <1>2, <1>3, SeqEqual

\* RELEASE's statements, then the cutoff.
LEMMA Concat3And1 ==
  ASSUME NEW a, NEW b, NEW c, NEW d
  PROVE  <<a, b, c>> \o <<d>> = <<a, b, c, d>>
<1> DEFINE S == {a, b, c, d}  s == <<a, b, c>>  t == <<d>>  u == <<a, b, c, d>>
<1>1. s \in Seq(S) /\ t \in Seq(S) /\ u \in Seq(S)
  OBVIOUS
<1>2. s \o t \in Seq(S) /\ Len(s \o t) = 4 /\ Len(u) = 4
  BY <1>1
<1>3. \A i \in 1 .. 4 : (s \o t)[i] = u[i]
  BY <1>1
<1> QED BY <1>1, <1>2, <1>3, SeqEqual

\* CLEAR_FAULT's statements, then the cutoff.
LEMMA Concat2And1 ==
  ASSUME NEW a, NEW b, NEW c
  PROVE  <<a, b>> \o <<c>> = <<a, b, c>>
<1> DEFINE S == {a, b, c}  s == <<a, b>>  t == <<c>>  u == <<a, b, c>>
<1>1. s \in Seq(S) /\ t \in Seq(S) /\ u \in Seq(S)
  OBVIOUS
<1>2. s \o t \in Seq(S) /\ Len(s \o t) = 3 /\ Len(u) = 3
  BY <1>1
<1>3. \A i \in 1 .. 3 : (s \o t)[i] = u[i]
  BY <1>1
<1> QED BY <1>1, <1>2, <1>3, SeqEqual

\* drive(false), then the latching of the fault.
LEMMA Concat3And3 ==
  ASSUME NEW a, NEW b, NEW c, NEW d, NEW e, NEW f
  PROVE  <<a, b, c>> \o <<d, e, f>> = <<a, b, c, d, e, f>>
<1> DEFINE S == {a, b, c, d, e, f}  s == <<a, b, c>>  t == <<d, e, f>>  u == <<a, b, c, d, e, f>>
<1>1. s \in Seq(S) /\ t \in Seq(S) /\ u \in Seq(S)
  OBVIOUS
<1>2. s \o t \in Seq(S) /\ Len(s \o t) = 6 /\ Len(u) = 6
  BY <1>1
<1>3. \A i \in 1 .. 6 : (s \o t)[i] = u[i]
  BY <1>1
<1> QED BY <1>1, <1>2, <1>3, SeqEqual

-----------------------------------------------------------------------------
(* The points of the handlers                                              *)

\* The device as the running handler found it.
Found ==
  INSTANCE Solenoid
    WITH rState <- before.rState, rError <- before.rError,
         rEnergized <- before.rEnergized, ioCoil <- before.ioCoil,
         pending <- before.pending, now <- before.now, held <- before.held,
         reported <- before.reported, energizedAtUs <- before.energizedAtUs

\* The state a cleared fault leaves.
Cleared == IF before.rEnergized THEN "BUSY" ELSE "IDLE"

\* The statements, by name.
CoilOff == Set("ioCoil", FALSE)
CoilOn == Set("ioCoil", TRUE)
TruthOff == Set("rEnergized", FALSE)
TruthOn == Set("rEnergized", TRUE)
Busy == Set("rState", "BUSY")
Idle == Set("rState", "IDLE")
Errored == Set("rState", "ERRORED")
ShowCleared == Set("rState", Cleared)
NoFault == Set("rError", "NONE")
Fault == Set("rError", "ON_TIME_EXCEEDED")
TakeTime == Do("since")
LookAtLimit == Do("limit")
Cutoff == Do("cutoff")
Tell == Do("report")

\* The attributes a handler writes.
Is(state, error, energized, coil) ==
  rState = state /\ rError = error /\ rEnergized = energized /\ ioCoil = coil

\* begin(), statement by statement.
InBegin ==
  /\ reported = "NONE" /\ now = before.now /\ held = before.held
  /\ energizedAtUs = before.energizedAtUs
  /\ \/ /\ todo = <<CoilOff, TruthOff, LookAtLimit>>
        /\ Is(before.rState, before.rError, before.rEnergized, before.ioCoil)
     \/ /\ todo = <<TruthOff, LookAtLimit>>
        /\ Is(before.rState, before.rError, before.rEnergized, FALSE)
     \/ /\ todo = <<LookAtLimit>>
        /\ Is(before.rState, before.rError, FALSE, FALSE)
     \/ /\ todo = <<NoFault, Idle>>
        /\ Is(before.rState, before.rError, FALSE, FALSE)
        /\ pending = "NONE" /\ cnfMaxOnTimeMs # 0
     \/ /\ todo = <<Idle>>
        /\ Is(before.rState, "NONE", FALSE, FALSE)
        /\ pending = "NONE" /\ cnfMaxOnTimeMs # 0

\* update(t) has taken the request and read the clock.
InUpdate ==
  /\ before.rState # "OFFLINE" /\ pending = "NONE"
  /\ gap \in 0 .. MaxStep /\ now = Plus(before.now, gap, TimeMod)
  /\ held = before.held /\ before.rEnergized \in BOOLEAN

\* case CMD_ENERGIZE
InEnergize ==
  /\ Found!SwitchesOn /\ reported = "NONE"
  /\ \/ /\ todo = <<TakeTime, CoilOn, TruthOn,
                    Busy, Cutoff>>
        /\ Is(before.rState, before.rError, before.rEnergized, before.ioCoil)
        /\ energizedAtUs = before.energizedAtUs
     \/ /\ todo = <<CoilOn, TruthOn, Busy, Cutoff>>
        /\ Is(before.rState, before.rError, before.rEnergized, before.ioCoil)
        /\ energizedAtUs = now
     \/ /\ todo = <<TruthOn, Busy, Cutoff>>
        /\ Is(before.rState, before.rError, before.rEnergized, TRUE)
        /\ energizedAtUs = now
     \/ /\ todo = <<Busy, Cutoff>>
        /\ Is(before.rState, before.rError, TRUE, TRUE)
        /\ energizedAtUs = now

\* case CMD_RELEASE
InRelease ==
  /\ Found!SwitchesOff /\ reported = "NONE" /\ energizedAtUs = before.energizedAtUs
  /\ \/ /\ todo = <<CoilOff, TruthOff, Idle, Cutoff>>
        /\ Is(before.rState, before.rError, before.rEnergized, before.ioCoil)
     \/ /\ todo = <<TruthOff, Idle, Cutoff>>
        /\ Is(before.rState, before.rError, before.rEnergized, FALSE)
     \/ /\ todo = <<Idle, Cutoff>>
        /\ Is(before.rState, before.rError, FALSE, FALSE)

\* case CMD_CLEAR_FAULT
InClear ==
  /\ before.pending = "CLEAR_FAULT" /\ reported = "NONE"
  /\ energizedAtUs = before.energizedAtUs
  /\ \/ /\ todo = <<NoFault, ShowCleared, Cutoff>>
        /\ Is(before.rState, before.rError, before.rEnergized, before.ioCoil)
     \/ /\ todo = <<ShowCleared, Cutoff>>
        /\ Is(before.rState, "NONE", before.rEnergized, before.ioCoil)

\* The drive once the command is applied.
CoilAfterCommand ==
  IF Found!SwitchesOn \/ Found!SwitchesOff THEN Found!OnAfterCommand ELSE before.ioCoil

\* Before the protective cutoff.
AtCutoff ==
  /\ todo = <<Cutoff>> /\ reported = "NONE"
  /\ Is(Found!StateAfterCommand, Found!ErrorAfterCommand, Found!OnAfterCommand, CoilAfterCommand)
  /\ energizedAtUs = Found!Since(now)

\* In its body.
InTrip ==
  /\ Found!Expired(now) /\ energizedAtUs = Found!Since(now)
  /\ reported = "NONE"
  /\ \/ /\ todo = <<CoilOff, TruthOff, Idle,
                    Fault, Errored, Tell>>
        /\ Is(Found!StateAfterCommand, Found!ErrorAfterCommand, TRUE, CoilAfterCommand)
     \/ /\ todo = <<TruthOff, Idle,
                    Fault, Errored, Tell>>
        /\ Is(Found!StateAfterCommand, Found!ErrorAfterCommand, TRUE, FALSE)
     \/ /\ todo = <<Idle,
                    Fault, Errored, Tell>>
        /\ Is(Found!StateAfterCommand, Found!ErrorAfterCommand, FALSE, FALSE)
     \/ /\ todo = <<Fault, Errored, Tell>>
        /\ Is("IDLE", Found!ErrorAfterCommand, FALSE, FALSE)
     \/ /\ todo = <<Errored, Tell>>
        /\ Is("IDLE", "ON_TIME_EXCEEDED", FALSE, FALSE)
     \/ /\ todo = <<Tell>>
        /\ Is("ERRORED", "ON_TIME_EXCEEDED", FALSE, FALSE)

\* Between calls, or at a point of a handler.
Points ==
  \/ todo = <<>> /\ rEnergized \in BOOLEAN
  \/ InBegin
  \/ InUpdate /\ (InEnergize \/ InRelease \/ InClear \/ AtCutoff \/ InTrip)

-----------------------------------------------------------------------------
(* One statement                                                           *)

\* What Set and Do put into a statement.
LEMMA Statements ==
  ASSUME NEW a, NEW v
  PROVE  Set(a, v).do = "write" /\ Set(a, v).to = a /\ Set(a, v).value = v /\ Do(a).do = a
  BY DEF Set, Do

\* No call starts while a handler runs.
LEMMA RunningStep ==
  ASSUME Running, WNext
  PROVE  Write \/ CheckLimit \/ RecordSince \/ CheckCutoff \/ Report
  BY DEF WNext, CallBegin, CallUpdate, Call

\* What a running handler never touches.
LEMMA Untouched ==
  ASSUME Running, WNext
  PROVE  UNCHANGED <<before, gap, now, cnfMaxOnTimeMs, wCommand>>
  BY RunningStep DEF Write, CheckLimit, RecordSince, CheckCutoff, Report

\* A write of one attribute.
LEMMA WriteRuns ==
  ASSUME NEW a, NEW v, Running, Head(todo) = Set(a, v), WNext
  PROVE  /\ rState'     = IF a = "rState" THEN v ELSE rState
         /\ rError'     = IF a = "rError" THEN v ELSE rError
         /\ rEnergized' = IF a = "rEnergized" THEN v ELSE rEnergized
         /\ ioCoil'     = IF a = "ioCoil" THEN v ELSE ioCoil
         /\ todo' = Tail(todo)
         /\ UNCHANGED <<pending, energizedAtUs, reported>>
         /\ HeldNow
<1>1. Head(todo).do = "write"
  BY Statements
<1>2. Write
  BY <1>1, RunningStep DEF CheckLimit, RecordSince, CheckCutoff, Report, Current
<1> QED BY <1>2, Statements DEF Write

\* The other statements.
LEMMA DoRuns ==
  ASSUME NEW s, Running, Head(todo) = Do(s), WNext
  PROVE  /\ s = "limit" => CheckLimit
         /\ s = "since" => RecordSince
         /\ s = "cutoff" => CheckCutoff
         /\ s = "report" => Report
<1>1. Head(todo).do = s
  BY Statements
<1> QED BY <1>1, RunningStep DEF Write, CheckLimit, RecordSince, CheckCutoff, Report, Current

\* The ghost waits for the end of the handler.
LEMMA HeldWaits ==
  ASSUME HeldNow, todo' # <<>>
  PROVE  held' = held
  BY DEF HeldNow

\* What the handler found does not change while it runs.
LEMMA FoundStays ==
  ASSUME UNCHANGED <<before, now, cnfMaxOnTimeMs>>
  PROVE  /\ Found!SwitchesOn' = Found!SwitchesOn
         /\ Found!SwitchesOff' = Found!SwitchesOff
         /\ Found!OnAfterCommand' = Found!OnAfterCommand
         /\ Found!StateAfterCommand' = Found!StateAfterCommand
         /\ Found!ErrorAfterCommand' = Found!ErrorAfterCommand
         /\ CoilAfterCommand' = CoilAfterCommand
         /\ Found!Since(now)' = Found!Since(now)
         /\ Found!Expired(now)' = Found!Expired(now)
         /\ Cleared' = Cleared
  BY DEF Found!SwitchesOn, Found!SwitchesOff, Found!OnAfterCommand, Found!StateAfterCommand,
         Found!ErrorAfterCommand, CoilAfterCommand, Found!Since, Found!Expired, Cleared,
         Found!LimitUs, Found!Minus

-----------------------------------------------------------------------------
(* From point to point                                                     *)

\* What all points of update(t) have in common.
LEMMA UpdateStays ==
  ASSUME InUpdate, Running, WNext, pending' = pending, held' = held
  PROVE  InUpdate'
  BY Untouched DEF InUpdate

\* A write with statements left after it.
LEMMA WriteOn ==
  ASSUME NEW a, NEW v, Running, Head(todo) = Set(a, v), WNext, Tail(todo) # <<>>
  PROVE  /\ rState'     = IF a = "rState" THEN v ELSE rState
         /\ rError'     = IF a = "rError" THEN v ELSE rError
         /\ rEnergized' = IF a = "rEnergized" THEN v ELSE rEnergized
         /\ ioCoil'     = IF a = "ioCoil" THEN v ELSE ioCoil
         /\ todo' = Tail(todo)
         /\ UNCHANGED <<pending, energizedAtUs, held, reported, before, now, cnfMaxOnTimeMs>>
  BY WriteRuns, HeldWaits, Untouched

\* The statements of case CMD_ENERGIZE.
LEMMA EnergizeStep ==
  ASSUME InUpdate, InEnergize, WNext
  PROVE  InUpdate' /\ (InEnergize \/ AtCutoff)'
<1>0. Found!SwitchesOn /\ before.rEnergized = FALSE /\ reported = "NONE"
  BY DEF InEnergize, InUpdate, Found!SwitchesOn
<1>1. CASE /\ todo = <<TakeTime, CoilOn, TruthOn, Busy, Cutoff>>
           /\ Is(before.rState, before.rError, before.rEnergized, before.ioCoil)
  <2>1. Running /\ Head(todo) = TakeTime /\ Tail(todo) = <<CoilOn, TruthOn, Busy, Cutoff>>
    BY <1>1, Five DEF Running
  <2>2. RecordSince
    BY <2>1, DoRuns DEF TakeTime
  <2>3. InUpdate'
    BY <2>1, <2>2, UpdateStays DEF RecordSince
  <2>4. InEnergize'
    BY <1>0, <1>1, <2>1, <2>2, FoundStays DEF RecordSince, InEnergize, Is
  <2> QED BY <2>3, <2>4
<1>2. CASE /\ todo = <<CoilOn, TruthOn, Busy, Cutoff>>
           /\ Is(before.rState, before.rError, before.rEnergized, before.ioCoil)
           /\ energizedAtUs = now
  <2>1. /\ Running /\ Head(todo) = CoilOn
        /\ Tail(todo) = <<TruthOn, Busy, Cutoff>> /\ Tail(todo) # <<>>
    BY <1>2, Four DEF Running
  <2>2. /\ InUpdate' /\ ioCoil' = TRUE /\ todo' = Tail(todo)
        /\ UNCHANGED <<rState, rError, rEnergized, energizedAtUs, held, reported,
                       before, now, cnfMaxOnTimeMs, pending>>
    BY <2>1, WriteOn, UpdateStays DEF CoilOn
  <2> QED BY <1>0, <1>2, <2>1, <2>2, FoundStays DEF InEnergize, Is
<1>3. CASE /\ todo = <<TruthOn, Busy, Cutoff>>
           /\ Is(before.rState, before.rError, before.rEnergized, TRUE)
           /\ energizedAtUs = now
  <2>1. /\ Running /\ Head(todo) = TruthOn
        /\ Tail(todo) = <<Busy, Cutoff>> /\ Tail(todo) # <<>>
    BY <1>3, Three DEF Running
  <2>2. /\ InUpdate' /\ rEnergized' = TRUE /\ todo' = Tail(todo)
        /\ UNCHANGED <<rState, rError, ioCoil, energizedAtUs, held, reported,
                       before, now, cnfMaxOnTimeMs, pending>>
    BY <2>1, WriteOn, UpdateStays DEF TruthOn
  <2> QED BY <1>0, <1>3, <2>1, <2>2, FoundStays DEF InEnergize, Is
<1>4. CASE /\ todo = <<Busy, Cutoff>>
           /\ Is(before.rState, before.rError, TRUE, TRUE)
           /\ energizedAtUs = now
  <2>1. /\ Running /\ Head(todo) = Busy
        /\ Tail(todo) = <<Cutoff>> /\ Tail(todo) # <<>>
    BY <1>4, Two DEF Running
  <2>2. /\ InUpdate' /\ rState' = "BUSY" /\ todo' = Tail(todo)
        /\ UNCHANGED <<rError, rEnergized, ioCoil, energizedAtUs, held, reported,
                       before, now, cnfMaxOnTimeMs, pending>>
    BY <2>1, WriteOn, UpdateStays DEF Busy
  <2>3. /\ Found!StateAfterCommand = "BUSY" /\ Found!ErrorAfterCommand = before.rError
        /\ Found!OnAfterCommand = TRUE /\ CoilAfterCommand = TRUE /\ Found!Since(now) = now
    BY <1>0 DEF Found!SwitchesOn, Found!SwitchesOff, Found!StateAfterCommand, Found!ErrorAfterCommand,
       Found!OnAfterCommand, CoilAfterCommand, Found!Since
  <2> QED BY <1>0, <1>4, <2>1, <2>2, <2>3, FoundStays DEF AtCutoff, Is
<1> QED BY <1>1, <1>2, <1>3, <1>4 DEF InEnergize

\* The statements of case CMD_RELEASE.
LEMMA ReleaseStep ==
  ASSUME InUpdate, InRelease, WNext
  PROVE  InUpdate' /\ (InRelease \/ AtCutoff)'
<1>0. Found!SwitchesOff /\ before.rEnergized = TRUE /\ reported = "NONE" /\ energizedAtUs = before.energizedAtUs
  BY DEF InRelease, InUpdate, Found!SwitchesOff
<1>1. CASE /\ todo = <<CoilOff, TruthOff, Idle, Cutoff>>
           /\ Is(before.rState, before.rError, before.rEnergized, before.ioCoil)
  <2>1. /\ Running /\ Head(todo) = CoilOff
        /\ Tail(todo) = <<TruthOff, Idle, Cutoff>> /\ Tail(todo) # <<>>
    BY <1>1, Four DEF Running
  <2>2. /\ InUpdate' /\ ioCoil' = FALSE /\ todo' = Tail(todo)
        /\ UNCHANGED <<rState, rError, rEnergized, energizedAtUs, held, reported,
                       before, now, cnfMaxOnTimeMs, pending>>
    BY <2>1, WriteOn, UpdateStays DEF CoilOff
  <2> QED BY <1>0, <1>1, <2>1, <2>2, FoundStays DEF InRelease, Is
<1>2. CASE /\ todo = <<TruthOff, Idle, Cutoff>>
           /\ Is(before.rState, before.rError, before.rEnergized, FALSE)
  <2>1. /\ Running /\ Head(todo) = TruthOff
        /\ Tail(todo) = <<Idle, Cutoff>> /\ Tail(todo) # <<>>
    BY <1>2, Three DEF Running
  <2>2. /\ InUpdate' /\ rEnergized' = FALSE /\ todo' = Tail(todo)
        /\ UNCHANGED <<rState, rError, ioCoil, energizedAtUs, held, reported,
                       before, now, cnfMaxOnTimeMs, pending>>
    BY <2>1, WriteOn, UpdateStays DEF TruthOff
  <2> QED BY <1>0, <1>2, <2>1, <2>2, FoundStays DEF InRelease, Is
<1>3. CASE /\ todo = <<Idle, Cutoff>>
           /\ Is(before.rState, before.rError, FALSE, FALSE)
  <2>1. /\ Running /\ Head(todo) = Idle
        /\ Tail(todo) = <<Cutoff>> /\ Tail(todo) # <<>>
    BY <1>3, Two DEF Running
  <2>2. /\ InUpdate' /\ rState' = "IDLE" /\ todo' = Tail(todo)
        /\ UNCHANGED <<rError, rEnergized, ioCoil, energizedAtUs, held, reported,
                       before, now, cnfMaxOnTimeMs, pending>>
    BY <2>1, WriteOn, UpdateStays DEF Idle
  <2>3. /\ Found!StateAfterCommand = "IDLE" /\ Found!ErrorAfterCommand = before.rError
        /\ Found!OnAfterCommand = FALSE /\ CoilAfterCommand = FALSE /\ Found!Since(now) = before.energizedAtUs
    BY <1>0 DEF Found!SwitchesOn, Found!SwitchesOff, Found!StateAfterCommand, Found!ErrorAfterCommand,
       Found!OnAfterCommand, CoilAfterCommand, Found!Since
  <2> QED BY <1>0, <1>3, <2>1, <2>2, <2>3, FoundStays DEF AtCutoff, Is
<1> QED BY <1>1, <1>2, <1>3 DEF InRelease

\* The statements of case CMD_CLEAR_FAULT.
LEMMA ClearStep ==
  ASSUME InUpdate, InClear, WNext
  PROVE  InUpdate' /\ (InClear \/ AtCutoff)'
<1>0. /\ before.pending = "CLEAR_FAULT" /\ before.rEnergized \in BOOLEAN
      /\ reported = "NONE" /\ energizedAtUs = before.energizedAtUs
  BY DEF InClear, InUpdate
<1>1. CASE /\ todo = <<NoFault, ShowCleared, Cutoff>>
           /\ Is(before.rState, before.rError, before.rEnergized, before.ioCoil)
  <2>1. /\ Running /\ Head(todo) = NoFault
        /\ Tail(todo) = <<ShowCleared, Cutoff>> /\ Tail(todo) # <<>>
    BY <1>1, Three DEF Running
  <2>2. /\ InUpdate' /\ rError' = "NONE" /\ todo' = Tail(todo)
        /\ UNCHANGED <<rState, rEnergized, ioCoil, energizedAtUs, held, reported,
                       before, now, cnfMaxOnTimeMs, pending>>
    BY <2>1, WriteOn, UpdateStays DEF NoFault
  <2> QED BY <1>0, <1>1, <2>1, <2>2, FoundStays DEF InClear, ShowCleared, Is
<1>2. CASE /\ todo = <<ShowCleared, Cutoff>>
           /\ Is(before.rState, "NONE", before.rEnergized, before.ioCoil)
  <2>1. /\ Running /\ Head(todo) = ShowCleared
        /\ Tail(todo) = <<Cutoff>> /\ Tail(todo) # <<>>
    BY <1>2, Two DEF Running
  <2>2. /\ InUpdate' /\ rState' = Cleared /\ todo' = Tail(todo)
        /\ UNCHANGED <<rError, rEnergized, ioCoil, energizedAtUs, held, reported,
                       before, now, cnfMaxOnTimeMs, pending>>
    BY <2>1, WriteOn, UpdateStays DEF ShowCleared
  <2>3. /\ Found!StateAfterCommand = Cleared /\ Found!ErrorAfterCommand = "NONE"
        /\ Found!OnAfterCommand = before.rEnergized /\ CoilAfterCommand = before.ioCoil
        /\ Found!Since(now) = before.energizedAtUs
    BY <1>0 DEF Found!SwitchesOn, Found!SwitchesOff, Found!StateAfterCommand, Found!ErrorAfterCommand,
       Found!OnAfterCommand, CoilAfterCommand, Found!Since, Cleared
  <2> QED BY <1>0, <1>2, <2>1, <2>2, <2>3, FoundStays DEF AtCutoff, Is
<1> QED BY <1>1, <1>2 DEF InClear

-----------------------------------------------------------------------------
(* The end of a handler is its step in Solenoid                            *)

\* While a handler runs the device as it is seen from outside is the one the
\* handler found.
LEMMA WholeIsFound ==
  ASSUME Running
  PROVE  /\ Whole!SwitchesOn = Found!SwitchesOn
         /\ Whole!SwitchesOff = Found!SwitchesOff
         /\ Whole!OnAfterCommand = Found!OnAfterCommand
         /\ Whole!StateAfterCommand = Found!StateAfterCommand
         /\ Whole!ErrorAfterCommand = Found!ErrorAfterCommand
         /\ \A t : Whole!Since(t) = Found!Since(t)
         /\ \A t : Whole!Expired(t) = Found!Expired(t)
  BY DEF At, Running,
     Whole!SwitchesOn, Found!SwitchesOn, Whole!SwitchesOff, Found!SwitchesOff,
     Whole!OnAfterCommand, Found!OnAfterCommand, Whole!StateAfterCommand, Found!StateAfterCommand,
     Whole!ErrorAfterCommand, Found!ErrorAfterCommand, Whole!Since, Found!Since,
     Whole!Expired, Found!Expired, Whole!LimitUs, Found!LimitUs, Whole!Minus, Found!Minus

\* The last statement of update(t) leaves what ScanOnline leaves.
LEMMA ScanDone ==
  ASSUME InUpdate, Running, todo' = <<>>, HeldNow,
         UNCHANGED <<now, pending, cnfMaxOnTimeMs, wCommand, gap>>,
         energizedAtUs' = Found!Since(now),
         ioCoil' = IF Found!Expired(now) THEN FALSE ELSE CoilAfterCommand,
         rEnergized' = (Found!OnAfterCommand /\ ~Found!Expired(now)),
         rError' = IF Found!Expired(now) THEN "ON_TIME_EXCEEDED" ELSE Found!ErrorAfterCommand,
         rState' = IF Found!Expired(now) THEN "ERRORED" ELSE Found!StateAfterCommand,
         reported' = IF Found!Expired(now) THEN "ON_TIME_EXCEEDED" ELSE "NONE"
  PROVE  Whole!Scan(gap)
<1>1. ~Running'
  BY DEF Running
<1>2. /\ before.rState # "OFFLINE" /\ pending = "NONE" /\ held = before.held
      /\ now = Whole!Plus(before.now, gap, TimeMod)
  BY DEF InUpdate, Plus, Whole!Plus
<1>3. held' = IF before.rEnergized /\ Found!OnAfterCommand /\ ~Found!Expired(now)
                THEN IF before.held + gap < TimeMod THEN before.held + gap ELSE TimeMod
                ELSE 0
  BY <1>2 DEF HeldNow
<1>4. Whole!HeldAfter(now, gap) = held'
  BY <1>3, WholeIsFound DEF Whole!HeldAfter, At
<1>5. Whole!ScanOnline(gap)
  <2> DEFINE t == Whole!Plus(At("now", now), gap, TimeMod)
  <2>1. t = now /\ At("rState", rState) # "OFFLINE" /\ At("ioCoil", ioCoil) = before.ioCoil
    BY <1>2 DEF At
  <2>2. Whole!Expired(t) = Found!Expired(now) /\ Whole!Since(t) = Found!Since(now)
    BY <2>1, WholeIsFound
  <2>3. /\ At("now", now)' = now /\ At("pending", pending)' = "NONE"
        /\ At("energizedAtUs", energizedAtUs)' = energizedAtUs'
        /\ At("ioCoil", ioCoil)' = ioCoil' /\ At("rEnergized", rEnergized)' = rEnergized'
        /\ At("rError", rError)' = rError' /\ At("rState", rState)' = rState'
        /\ At("reported", reported)' = reported' /\ At("held", held)' = held'
    BY <1>1, <1>2 DEF At
  <2> HIDE DEF t
  <2>4. ioCoil' = IF Found!Expired(now) THEN FALSE
                  ELSE IF Found!SwitchesOn \/ Found!SwitchesOff THEN Found!OnAfterCommand
                  ELSE before.ioCoil
    BY DEF CoilAfterCommand
  <2>5. Whole!HeldAfter(t, gap) = held'
    BY <1>4, <2>1
  <2>6. At("energizedAtUs", energizedAtUs)' = Whole!Since(t) /\ At("held", held)' = Whole!HeldAfter(t, gap)
    BY <2>2, <2>3, <2>5
  <2>7. At("ioCoil", ioCoil)' = IF Whole!Expired(t) THEN FALSE
                                ELSE IF Whole!SwitchesOn \/ Whole!SwitchesOff THEN Whole!OnAfterCommand
                                ELSE At("ioCoil", ioCoil)
    <3>1. CASE Found!Expired(now)
      BY <2>2, <2>3, <2>4, <3>1
    <3>2. CASE ~Found!Expired(now) /\ (Found!SwitchesOn \/ Found!SwitchesOff)
      <4>1. ioCoil' = Found!OnAfterCommand
        BY <2>4, <3>2
      <4> QED BY <2>2, <2>3, <3>2, <4>1, WholeIsFound
    <3>3. CASE ~Found!Expired(now) /\ ~(Found!SwitchesOn \/ Found!SwitchesOff)
      <4>1. ioCoil' = before.ioCoil
        BY <2>4, <3>3
      <4> QED BY <2>1, <2>2, <2>3, <3>3, <4>1, WholeIsFound
    <3> QED BY <3>1, <3>2, <3>3
  <2>8. At("rEnergized", rEnergized)' = (Whole!OnAfterCommand /\ ~Whole!Expired(t))
    BY <2>2, <2>3, WholeIsFound
  <2>9. /\ At("rError", rError)' = IF Whole!Expired(t) THEN "ON_TIME_EXCEEDED" ELSE Whole!ErrorAfterCommand
        /\ At("rState", rState)' = IF Whole!Expired(t) THEN "ERRORED" ELSE Whole!StateAfterCommand
        /\ At("reported", reported)' = IF Whole!Expired(t) THEN "ON_TIME_EXCEEDED" ELSE "NONE"
    BY <2>2, <2>3, WholeIsFound
  <2> USE DEF t
  <2> QED BY <2>1, <2>3, <2>6, <2>7, <2>8, <2>9 DEF Whole!ScanOnline
<1> QED BY <1>5 DEF Whole!Scan

\* The last statement of begin() leaves what Begin leaves.
LEMMA BeginDone ==
  ASSUME Running, todo' = <<>>, reported = "NONE",
         ioCoil' = FALSE, rEnergized' = FALSE, pending' = "NONE", held' = 0,
         now' = before.now, energizedAtUs' = before.energizedAtUs,
         IF cnfMaxOnTimeMs = 0
           THEN rError' = before.rError /\ rState' = before.rState
           ELSE rError' = "NONE" /\ rState' = "IDLE",
         UNCHANGED <<reported, cnfMaxOnTimeMs, wCommand>>
  PROVE  Whole!Begin
  BY DEF Running, At, Whole!Begin

\* The condition of the protective cutoff.
LEMMA CutoffStep ==
  ASSUME InUpdate, AtCutoff, WNext
  PROVE  \/ InUpdate' /\ InTrip'
         \/ todo' = <<>> /\ rEnergized' \in BOOLEAN /\ Whole!Scan(gap)
<1>1. Running /\ Head(todo) = Cutoff
  BY One DEF AtCutoff, Running
<1>2. CheckCutoff
  BY <1>1, DoRuns DEF Cutoff
<1>3. Tripped <=> Found!Expired(now)
  BY DEF Tripped, AtCutoff, Is, Found!Expired, Found!LimitUs, LimitUs, Minus, Found!Minus
<1>4. Found!OnAfterCommand \in BOOLEAN
  BY DEF InUpdate, Found!OnAfterCommand
<1>5. CASE Found!Expired(now)
  <2>1. todo' = <<CoilOff, TruthOff, Idle, Fault, Errored, Tell>>
    <3>1. Trip = <<CoilOff, TruthOff, Idle>> \o <<Fault, Errored, Tell>>
      BY DEF Trip, Drive, CoilOff, TruthOff, Idle, Fault, Errored, Tell
    <3> QED BY <1>2, <1>3, <1>5, <3>1, Concat3And3 DEF CheckCutoff
  <2>2. todo' # <<>>
    BY <2>1, Six
  <2>3. held' = held /\ pending' = pending
    BY <1>2, <2>2, HeldWaits DEF CheckCutoff
  <2>4. InUpdate'
    BY <1>1, <2>3, UpdateStays
  <2>5. Found!OnAfterCommand = TRUE
    BY <1>4, <1>5 DEF Found!Expired
  <2>6. InTrip'
    BY <1>2, <1>5, <2>1, <2>5, FoundStays DEF CheckCutoff, AtCutoff, InTrip, Is
  <2> QED BY <2>4, <2>6
<1>6. CASE ~Found!Expired(now)
  <2>1. todo' = <<>>
    BY <1>2, <1>3, <1>6 DEF CheckCutoff
  <2>2. Whole!Scan(gap)
    BY <1>1, <1>2, <1>4, <1>6, <2>1, ScanDone DEF CheckCutoff, AtCutoff, Is
  <2> QED BY <1>2, <1>4, <2>1, <2>2 DEF CheckCutoff, AtCutoff, Is
<1> QED BY <1>5, <1>6

\* The body of the protective cutoff.
LEMMA TripStep ==
  ASSUME InUpdate, InTrip, WNext
  PROVE  \/ InUpdate' /\ InTrip'
         \/ todo' = <<>> /\ rEnergized' \in BOOLEAN /\ Whole!Scan(gap)
<1>0. Found!Expired(now) /\ energizedAtUs = Found!Since(now) /\ reported = "NONE"
  BY DEF InTrip
<1>1. CASE /\ todo = <<CoilOff, TruthOff, Idle, Fault, Errored, Tell>>
           /\ Is(Found!StateAfterCommand, Found!ErrorAfterCommand, TRUE, CoilAfterCommand)
  <2>1. /\ Running /\ Head(todo) = CoilOff
        /\ Tail(todo) = <<TruthOff, Idle, Fault, Errored, Tell>> /\ Tail(todo) # <<>>
    BY <1>1, Six DEF Running
  <2>2. /\ InUpdate' /\ ioCoil' = FALSE /\ todo' = Tail(todo)
        /\ UNCHANGED <<rState, rError, rEnergized, energizedAtUs, held, reported,
                       before, now, cnfMaxOnTimeMs, pending>>
    BY <2>1, WriteOn, UpdateStays DEF CoilOff
  <2> QED BY <1>0, <1>1, <2>1, <2>2, FoundStays DEF InTrip, Is
<1>2. CASE /\ todo = <<TruthOff, Idle, Fault, Errored, Tell>>
           /\ Is(Found!StateAfterCommand, Found!ErrorAfterCommand, TRUE, FALSE)
  <2>1. /\ Running /\ Head(todo) = TruthOff
        /\ Tail(todo) = <<Idle, Fault, Errored, Tell>> /\ Tail(todo) # <<>>
    BY <1>2, Five DEF Running
  <2>2. /\ InUpdate' /\ rEnergized' = FALSE /\ todo' = Tail(todo)
        /\ UNCHANGED <<rState, rError, ioCoil, energizedAtUs, held, reported,
                       before, now, cnfMaxOnTimeMs, pending>>
    BY <2>1, WriteOn, UpdateStays DEF TruthOff
  <2> QED BY <1>0, <1>2, <2>1, <2>2, FoundStays DEF InTrip, Is
<1>3. CASE /\ todo = <<Idle, Fault, Errored, Tell>>
           /\ Is(Found!StateAfterCommand, Found!ErrorAfterCommand, FALSE, FALSE)
  <2>1. /\ Running /\ Head(todo) = Idle
        /\ Tail(todo) = <<Fault, Errored, Tell>> /\ Tail(todo) # <<>>
    BY <1>3, Four DEF Running
  <2>2. /\ InUpdate' /\ rState' = "IDLE" /\ todo' = Tail(todo)
        /\ UNCHANGED <<rError, rEnergized, ioCoil, energizedAtUs, held, reported,
                       before, now, cnfMaxOnTimeMs, pending>>
    BY <2>1, WriteOn, UpdateStays DEF Idle
  <2> QED BY <1>0, <1>3, <2>1, <2>2, FoundStays DEF InTrip, Is
<1>4. CASE /\ todo = <<Fault, Errored, Tell>>
           /\ Is("IDLE", Found!ErrorAfterCommand, FALSE, FALSE)
  <2>1. /\ Running /\ Head(todo) = Fault
        /\ Tail(todo) = <<Errored, Tell>> /\ Tail(todo) # <<>>
    BY <1>4, Three DEF Running
  <2>2. /\ InUpdate' /\ rError' = "ON_TIME_EXCEEDED" /\ todo' = Tail(todo)
        /\ UNCHANGED <<rState, rEnergized, ioCoil, energizedAtUs, held, reported,
                       before, now, cnfMaxOnTimeMs, pending>>
    BY <2>1, WriteOn, UpdateStays DEF Fault
  <2> QED BY <1>0, <1>4, <2>1, <2>2, FoundStays DEF InTrip, Is
<1>5. CASE /\ todo = <<Errored, Tell>>
           /\ Is("IDLE", "ON_TIME_EXCEEDED", FALSE, FALSE)
  <2>1. /\ Running /\ Head(todo) = Errored
        /\ Tail(todo) = <<Tell>> /\ Tail(todo) # <<>>
    BY <1>5, Two DEF Running
  <2>2. /\ InUpdate' /\ rState' = "ERRORED" /\ todo' = Tail(todo)
        /\ UNCHANGED <<rError, rEnergized, ioCoil, energizedAtUs, held, reported,
                       before, now, cnfMaxOnTimeMs, pending>>
    BY <2>1, WriteOn, UpdateStays DEF Errored
  <2> QED BY <1>0, <1>5, <2>1, <2>2, FoundStays DEF InTrip, Is
<1>6. CASE /\ todo = <<Tell>>
           /\ Is("ERRORED", "ON_TIME_EXCEEDED", FALSE, FALSE)
  <2>1. Running /\ Head(todo) = Tell /\ Tail(todo) = <<>>
    BY <1>6, One DEF Running
  <2>2. Report
    BY <2>1, DoRuns DEF Tell
  <2>3. Whole!Scan(gap)
    BY <1>0, <1>6, <2>1, <2>2, ScanDone DEF Report, Is
  <2> QED BY <1>6, <2>1, <2>2, <2>3 DEF Report, Is
<1> QED BY <1>1, <1>2, <1>3, <1>4, <1>5, <1>6 DEF InTrip

\* The statements of begin().
LEMMA BeginStep ==
  ASSUME InBegin, WNext
  PROVE  \/ InBegin'
         \/ todo' = <<>> /\ rEnergized' \in BOOLEAN /\ Whole!Begin
<1>0. /\ reported = "NONE" /\ now = before.now /\ held = before.held
      /\ energizedAtUs = before.energizedAtUs
  BY DEF InBegin
<1>1. CASE /\ todo = <<CoilOff, TruthOff, LookAtLimit>>
           /\ Is(before.rState, before.rError, before.rEnergized, before.ioCoil)
  <2>1. /\ Running /\ Head(todo) = CoilOff
        /\ Tail(todo) = <<TruthOff, LookAtLimit>> /\ Tail(todo) # <<>>
    BY <1>1, Three DEF Running
  <2>2. /\ ioCoil' = FALSE /\ todo' = Tail(todo)
        /\ UNCHANGED <<rState, rError, rEnergized, energizedAtUs, held, reported,
                       before, now, cnfMaxOnTimeMs, pending>>
    BY <2>1, WriteOn DEF CoilOff
  <2> QED BY <1>0, <1>1, <2>1, <2>2, FoundStays DEF InBegin, Is
<1>2. CASE /\ todo = <<TruthOff, LookAtLimit>>
           /\ Is(before.rState, before.rError, before.rEnergized, FALSE)
  <2>1. /\ Running /\ Head(todo) = TruthOff
        /\ Tail(todo) = <<LookAtLimit>> /\ Tail(todo) # <<>>
    BY <1>2, Two DEF Running
  <2>2. /\ rEnergized' = FALSE /\ todo' = Tail(todo)
        /\ UNCHANGED <<rState, rError, ioCoil, energizedAtUs, held, reported,
                       before, now, cnfMaxOnTimeMs, pending>>
    BY <2>1, WriteOn DEF TruthOff
  <2> QED BY <1>0, <1>2, <2>1, <2>2, FoundStays DEF InBegin, Is
<1>3. CASE /\ todo = <<LookAtLimit>>
           /\ Is(before.rState, before.rError, FALSE, FALSE)
  <2>1. Running /\ Head(todo) = LookAtLimit
    BY <1>3, One DEF Running
  <2>2. CheckLimit /\ UNCHANGED <<cnfMaxOnTimeMs, wCommand, before, now>>
    BY <2>1, DoRuns, Untouched DEF LookAtLimit
  <2>3. CASE cnfMaxOnTimeMs = 0
    <3>1. todo' = <<>> /\ held' = 0
      BY <1>3, <2>2, <2>3 DEF CheckLimit, HeldNow, Is
    <3> QED BY <1>0, <1>3, <2>1, <2>2, <2>3, <3>1, BeginDone DEF CheckLimit, Is
  <2>4. CASE cnfMaxOnTimeMs # 0
    <3>1. todo' = <<NoFault, Idle>> /\ todo' # <<>>
      BY <2>2, <2>4, Two DEF CheckLimit, BeginOnline, NoFault, Idle
    <3>2. held' = held
      BY <2>2, <3>1, HeldWaits DEF CheckLimit
    <3> QED BY <1>0, <1>3, <2>2, <2>4, <3>1, <3>2 DEF CheckLimit, InBegin, Is
  <2> QED BY <2>3, <2>4
<1>4. CASE /\ todo = <<NoFault, Idle>>
           /\ Is(before.rState, before.rError, FALSE, FALSE)
           /\ pending = "NONE" /\ cnfMaxOnTimeMs # 0
  <2>1. /\ Running /\ Head(todo) = NoFault
        /\ Tail(todo) = <<Idle>> /\ Tail(todo) # <<>>
    BY <1>4, Two DEF Running
  <2>2. /\ rError' = "NONE" /\ todo' = Tail(todo)
        /\ UNCHANGED <<rState, rEnergized, ioCoil, energizedAtUs, held, reported,
                       before, now, cnfMaxOnTimeMs, pending>>
    BY <2>1, WriteOn DEF NoFault
  <2> QED BY <1>0, <1>4, <2>1, <2>2, FoundStays DEF InBegin, Is
<1>5. CASE /\ todo = <<Idle>>
           /\ Is(before.rState, "NONE", FALSE, FALSE)
           /\ pending = "NONE" /\ cnfMaxOnTimeMs # 0
  <2>1. Running /\ Head(todo) = Idle /\ Tail(todo) = <<>>
    BY <1>5, One DEF Running
  <2>2. /\ rState' = "IDLE" /\ todo' = <<>> /\ HeldNow
        /\ UNCHANGED <<rError, rEnergized, ioCoil, pending, energizedAtUs, reported, now,
                       cnfMaxOnTimeMs, wCommand>>
    BY <2>1, WriteRuns, Untouched DEF Idle
  <2>3. held' = 0
    BY <1>5, <2>2 DEF HeldNow, Is
  <2> QED BY <1>0, <1>5, <2>1, <2>2, <2>3, BeginDone DEF Is
<1> QED BY <1>1, <1>2, <1>3, <1>4, <1>5 DEF InBegin

-----------------------------------------------------------------------------
(* Calls                                                                   *)

\* What a call finds is the device as it is.
LEMMA CallFinds ==
  ASSUME before' = Device
  PROVE  /\ before'.rState = rState /\ before'.rError = rError
         /\ before'.rEnergized = rEnergized /\ before'.ioCoil = ioCoil
         /\ before'.pending = pending /\ before'.now = now /\ before'.held = held
         /\ before'.energizedAtUs = energizedAtUs /\ before'.reported = reported
         /\ Found!SwitchesOn' = SwitchesOn
         /\ Found!SwitchesOff' = SwitchesOff
  BY DEF Device, Found!SwitchesOn, Found!SwitchesOff, SwitchesOn, SwitchesOff

\* A call of begin() starts at its first statement.
LEMMA CallBeginStep ==
  ASSUME CallBegin
  PROVE  InBegin'
<1>1. todo' = <<CoilOff, TruthOff, LookAtLimit>>
  BY DEF CallBegin, BeginSafe, CoilOff, TruthOff, LookAtLimit
<1>2. before' = Device
  BY DEF CallBegin
<1> QED BY <1>1, <1>2, CallFinds DEF CallBegin, InBegin, Is

\* A call of update(t) starts at the first statement of its command.
LEMMA CallUpdateStep ==
  ASSUME NEW d \in 0 .. MaxStep, CallUpdate(d), rEnergized \in BOOLEAN
  PROVE  InUpdate' /\ (InEnergize \/ InRelease \/ InClear \/ AtCutoff)'
<1>1. before' = Device /\ todo' = Handle(pending) \o <<Cutoff>>
  BY DEF CallUpdate, Cutoff
<1>2. InUpdate'
  BY <1>1, CallFinds DEF CallUpdate, InUpdate
<1>3. /\ Is(before.rState, before.rError, before.rEnergized, before.ioCoil)'
      /\ energizedAtUs' = before'.energizedAtUs /\ reported' = "NONE"
  BY <1>1, CallFinds DEF CallUpdate, Is
<1>4. CASE SwitchesOn
  <2>1. Handle(pending) = <<TakeTime>> \o <<CoilOn, TruthOn, Busy>>
    BY <1>4 DEF Handle, SwitchesOn, Drive, TakeTime, CoilOn, TruthOn, Busy
  <2>2. todo' = <<TakeTime, CoilOn, TruthOn, Busy, Cutoff>>
    <3>1. <<TakeTime>> \o <<CoilOn, TruthOn, Busy>> = <<TakeTime, CoilOn, TruthOn, Busy>>
      BY Concat1And3
    <3>2. <<TakeTime, CoilOn, TruthOn, Busy>> \o <<Cutoff>>
            = <<TakeTime, CoilOn, TruthOn, Busy, Cutoff>>
      BY Concat4And1
    <3> QED BY <1>1, <2>1, <3>1, <3>2
  <2>3. Found!SwitchesOn'
    BY <1>1, <1>4, CallFinds
  <2>4. InEnergize'
    BY <1>3, <2>2, <2>3 DEF InEnergize, TakeTime, CoilOn, TruthOn, Busy, Cutoff
  <2> QED BY <1>2, <2>4
<1>5. CASE SwitchesOff
  <2>1. Handle(pending) = <<CoilOff, TruthOff, Idle>>
    BY <1>5 DEF Handle, SwitchesOff, Drive, CoilOff, TruthOff, Idle
  <2>2. todo' = <<CoilOff, TruthOff, Idle, Cutoff>>
    BY <1>1, <2>1, Concat3And1
  <2> QED BY <1>1, <1>2, <1>3, <1>5, <2>2, CallFinds DEF InRelease
<1>6. CASE pending = "CLEAR_FAULT"
  <2>1. Cleared' = IF rEnergized THEN "BUSY" ELSE "IDLE"
    BY <1>1, CallFinds DEF Cleared
  <2>2. Handle(pending) = <<NoFault, ShowCleared'>>
    BY <1>6, <2>1 DEF Handle, NoFault, ShowCleared
  <2>3. todo' = <<NoFault, ShowCleared', Cutoff>>
    BY <1>1, <2>2, Concat2And1
  <2> QED BY <1>1, <1>2, <1>3, <1>6, <2>3, CallFinds DEF InClear, NoFault, Cutoff
<1>7. CASE ~SwitchesOn /\ ~SwitchesOff /\ pending # "CLEAR_FAULT"
  <2>1. Handle(pending) = <<>>
    BY <1>7 DEF Handle, SwitchesOn, SwitchesOff
  <2>2. todo' = <<Cutoff>>
    BY <1>1, <2>1
  <2>3. /\ Found!StateAfterCommand' = rState /\ Found!ErrorAfterCommand' = rError
        /\ Found!OnAfterCommand' = rEnergized /\ CoilAfterCommand' = ioCoil
        /\ Found!Since(now)' = energizedAtUs
    BY <1>1, <1>7, CallFinds DEF Found!StateAfterCommand, Found!ErrorAfterCommand,
       Found!OnAfterCommand, CoilAfterCommand, Found!Since
  <2> QED BY <1>1, <1>2, <1>3, <2>2, <2>3, CallFinds DEF CallUpdate, AtCutoff, Is, Cutoff
<1> QED BY <1>4, <1>5, <1>6, <1>7

\* A handler that is one write, or none, is seen from outside as it is.
LEMMA CallIsStep ==
  ASSUME Call
  PROVE  Whole!Next /\ todo' = <<>> /\ rEnergized' = rEnergized
<1>1. ~Running /\ ~Running' /\ todo' = <<>>
  BY DEF Call, Running
<1>2. ASSUME NEW d \in 0 .. MaxStep, ScanOffline(d) PROVE Whole!Next /\ rEnergized' = rEnergized
  <2>1. Whole!ScanOffline(d)
    BY <1>1, <1>2 DEF ScanOffline, Whole!ScanOffline, At, Plus, Whole!Plus
  <2> QED BY <1>2, <2>1 DEF ScanOffline, Whole!Next, Whole!Scan
<1>3. ASSUME NEW c \in Commands \cup {Unlisted}, SetCommand(c) PROVE Whole!Next /\ rEnergized' = rEnergized
  <2>1. Whole!SetCommand(c)
    BY <1>1, <1>3 DEF SetCommand, Accept, Accepts, Whole!SetCommand, Whole!Accept, Whole!Accepts, At
  <2> QED BY <1>3, <2>1 DEF SetCommand, Accept, Whole!Next, Commands, Whole!Commands, Unlisted, Whole!Unlisted
<1>4. ASSUME NEW c \in Commands \ {"NONE"}, Request(c) PROVE Whole!Next /\ rEnergized' = rEnergized
  <2>1. Whole!Request(c)
    BY <1>1, <1>4 DEF Request, Accept, Accepts, Whole!Request, Whole!Accept, Whole!Accepts, At
  <2> QED BY <1>4, <2>1 DEF Request, Accept, Whole!Next, Commands, Whole!Commands
<1>5. ASSUME NEW v \in Limits, SetLimit(v) PROVE Whole!Next /\ rEnergized' = rEnergized
  <2>1. Whole!SetLimit(v)
    BY <1>1, <1>5 DEF SetLimit, Whole!SetLimit, At
  <2> QED BY <1>5, <2>1 DEF SetLimit, Whole!Next
<1> QED BY <1>1, <1>2, <1>3, <1>4, <1>5 DEF Call

-----------------------------------------------------------------------------
(* The handlers, seen from outside                                         *)

\* At every point of a handler there are statements left.
LEMMA PointsRun ==
  /\ InBegin => Running
  /\ InEnergize \/ InRelease \/ InClear \/ AtCutoff \/ InTrip => Running
<1>1. InBegin => Running
  <2>1. /\ <<CoilOff, TruthOff, LookAtLimit>> # <<>> /\ <<TruthOff, LookAtLimit>> # <<>>
        /\ <<LookAtLimit>> # <<>> /\ <<NoFault, Idle>> # <<>> /\ <<Idle>> # <<>>
    BY One, Two, Three
  <2> QED BY <2>1, Zenon DEF InBegin, Running
<1>2. InEnergize => Running
  <2>1. /\ <<TakeTime, CoilOn, TruthOn, Busy, Cutoff>> # <<>>
        /\ <<CoilOn, TruthOn, Busy, Cutoff>> # <<>> /\ <<TruthOn, Busy, Cutoff>> # <<>>
        /\ <<Busy, Cutoff>> # <<>>
    BY Two, Three, Four, Five
  <2> QED BY <2>1, Zenon DEF InEnergize, Running
<1>3. InRelease => Running
  <2>1. /\ <<CoilOff, TruthOff, Idle, Cutoff>> # <<>>
        /\ <<TruthOff, Idle, Cutoff>> # <<>> /\ <<Idle, Cutoff>> # <<>>
    BY Two, Three, Four
  <2> QED BY <2>1, Zenon DEF InRelease, Running
<1>4. InClear => Running
  BY Two, Three DEF InClear, Running
<1>5. AtCutoff => Running
  BY One DEF AtCutoff, Running
<1>6. InTrip => Running
  <2>1. /\ <<CoilOff, TruthOff, Idle, Fault, Errored, Tell>> # <<>>
        /\ <<TruthOff, Idle, Fault, Errored, Tell>> # <<>>
        /\ <<Idle, Fault, Errored, Tell>> # <<>>
        /\ <<Fault, Errored, Tell>> # <<>> /\ <<Errored, Tell>> # <<>> /\ <<Tell>> # <<>>
    BY One, Two, Three, Four, Five, Six
  <2> QED BY <2>1, Zenon DEF InTrip, Running
<1> QED BY <1>1, <1>2, <1>3, <1>4, <1>5, <1>6

\* The same of the next state.
LEMMA PointsRunNext ==
  /\ InBegin' => Running'
  /\ (InEnergize \/ InRelease \/ InClear \/ AtCutoff \/ InTrip)' => Running'
  BY PointsRun, PTL

\* From one statement to the next nothing happens outside.
LEMMA Inside ==
  ASSUME Running, Running', UNCHANGED <<before, cnfMaxOnTimeMs, wCommand>>
  PROVE  UNCHANGED Whole!vars
  BY DEF Whole!vars, At

\* Nor when a call starts: it finds the device as it is.
LEMMA CallInside ==
  ASSUME ~Running, Running', before' = Device, UNCHANGED <<cnfMaxOnTimeMs, wCommand>>
  PROVE  UNCHANGED Whole!vars
  BY CallFinds DEF Whole!vars, At

\* A call, or a handler without statements.
LEMMA CallsStep ==
  ASSUME ~Running, WNext, rEnergized \in BOOLEAN
  PROVE  Points' /\ [Whole!Next]_(Whole!vars)
<1>1. CASE CallBegin
  <2>1. InBegin' /\ Running'
    BY <1>1, CallBeginStep, PointsRunNext
  <2> QED BY <1>1, <2>1, CallInside DEF CallBegin, Points
<1>2. ASSUME NEW d \in 0 .. MaxStep, CallUpdate(d) PROVE Points' /\ [Whole!Next]_(Whole!vars)
  <2>1. InUpdate' /\ (InEnergize \/ InRelease \/ InClear \/ AtCutoff)'
    BY <1>2, CallUpdateStep
  <2>2. Running'
    BY <2>1, PointsRunNext
  <2> QED BY <1>2, <2>1, <2>2, CallInside DEF CallUpdate, Points
<1>3. CASE Call
  BY <1>3, CallIsStep DEF Points
<1>4. ~Write /\ ~CheckLimit /\ ~RecordSince /\ ~CheckCutoff /\ ~Report
  BY DEF Write, CheckLimit, RecordSince, CheckCutoff, Report, Current
<1> QED BY <1>1, <1>2, <1>3, <1>4 DEF WNext

\* A statement: inside the handler, or its last one.
LEMMA StatementsStep ==
  ASSUME Running, Points, WNext
  PROVE  Points' /\ [Whole!Next]_(Whole!vars)
<1>1. UNCHANGED <<before, cnfMaxOnTimeMs, wCommand, gap>>
  BY Untouched
<1>2. CASE InBegin
  <2>1. CASE InBegin'
    BY <1>1, <2>1, PointsRunNext, Inside DEF Points
  <2>2. CASE todo' = <<>> /\ rEnergized' \in BOOLEAN /\ Whole!Begin
    BY <2>2 DEF Points, Whole!Next
  <2> QED BY <1>2, <2>1, <2>2, BeginStep
<1>3. CASE InUpdate /\ (InEnergize \/ InRelease \/ InClear \/ AtCutoff \/ InTrip)
  <2>1. CASE InUpdate' /\ (InEnergize \/ InRelease \/ InClear \/ AtCutoff \/ InTrip)'
    BY <1>1, <2>1, PointsRunNext, Inside DEF Points
  <2>2. CASE todo' = <<>> /\ rEnergized' \in BOOLEAN /\ Whole!Scan(gap)
    BY <1>3, <2>2 DEF Points, InUpdate, Whole!Next
  <2> QED BY <1>3, <2>1, <2>2, EnergizeStep, ReleaseStep, ClearStep, CutoffStep, TripStep
<1> QED BY <1>2, <1>3 DEF Points, Running

\* Every step keeps to the points, and is a step of Solenoid or none.
LEMMA PointsStep == Points /\ [WNext]_writeVars => Points' /\ [Whole!Next]_(Whole!vars)
<1> SUFFICES ASSUME Points, [WNext]_writeVars PROVE Points' /\ [Whole!Next]_(Whole!vars)
  OBVIOUS
<1>1. CASE WNext /\ Running
  BY <1>1, StatementsStep
<1>2. CASE WNext /\ ~Running
  BY <1>2, CallsStep, PointsRun DEF Points
<1>3. CASE UNCHANGED writeVars
  <2>1. UNCHANGED <<rState, rError, rEnergized, ioCoil, cnfMaxOnTimeMs, wCommand, pending,
                    energizedAtUs, now, held, reported, todo, before, gap>>
    BY <1>3 DEF writeVars, vars
  <2>2. /\ InBegin => InBegin'
        /\ InUpdate => InUpdate'
    BY <2>1 DEF InBegin, InUpdate, Is
  <2>3. /\ InEnergize => InEnergize'
        /\ InRelease => InRelease'
    BY <2>1, FoundStays DEF InEnergize, InRelease, Is
  <2>4. InClear => InClear'
    BY <2>1, FoundStays DEF InClear, ShowCleared, Is
  <2>5. AtCutoff => AtCutoff'
    BY <2>1, FoundStays DEF AtCutoff, Is
  <2>6. InTrip => InTrip'
    BY <2>1, FoundStays DEF InTrip, Is
  <2>7. Points'
    BY <2>1, <2>2, <2>3, <2>4, <2>5, <2>6 DEF Points
  <2>8. UNCHANGED Whole!vars
    BY <2>1 DEF Whole!vars, At, Running
  <2> QED BY <2>7, <2>8
<1> QED BY <1>1, <1>2, <1>3

\* Nothing has been called yet.
LEMMA PointsInit == WInit => Points /\ Whole!Init
  BY DEF WInit, Init, Points, Whole!Init, At, Running

\* SolenoidDevice's handlers, attribute by attribute, are the steps of
\* Solenoid: what is true of the device there is true between two calls.
THEOREM HandlersMade == WSpec => WritesMakeTheHandlers
<1> QED BY PointsInit, PointsStep, PTL DEF WSpec, WritesMakeTheHandlers, Whole!Spec

-----------------------------------------------------------------------------
(* What an observer sees between two statements                            *)

\* The theorems about Solenoid, of the device between two calls.
WholeP == INSTANCE SolenoidProofs
            WITH rState <- At("rState", rState), rError <- At("rError", rError),
                 rEnergized <- At("rEnergized", rEnergized), ioCoil <- At("ioCoil", ioCoil),
                 pending <- At("pending", pending), now <- At("now", now),
                 held <- At("held", held), reported <- At("reported", reported),
                 energizedAtUs <- At("energizedAtUs", energizedAtUs)

\* The assumption under which they were proved.
LEMMA WholeConstants == WholeP!SolenoidAssumption
  BY SolenoidAssumption DEF SolenoidAssumption, WholeP!SolenoidAssumption

\* They speak of an instance of their own, with the definitions of Whole.
LEMMA SameScan ==
  ASSUME NEW d
  PROVE  Whole!Scan(d) <=> WholeP!Scan(d)
  BY Zenon DEF Whole!Scan, WholeP!Scan, Whole!ScanOnline, WholeP!ScanOnline,
     Whole!ScanOffline, WholeP!ScanOffline, Whole!Plus, WholeP!Plus, Whole!Minus, WholeP!Minus,
     Whole!Expired, WholeP!Expired, Whole!OnAfterCommand, WholeP!OnAfterCommand,
     Whole!Since, WholeP!Since, Whole!SwitchesOn, WholeP!SwitchesOn,
     Whole!SwitchesOff, WholeP!SwitchesOff, Whole!LimitUs, WholeP!LimitUs,
     Whole!ErrorAfterCommand, WholeP!ErrorAfterCommand,
     Whole!StateAfterCommand, WholeP!StateAfterCommand, Whole!HeldAfter, WholeP!HeldAfter

\* So the specifications are the same.
LEMMA SameSpec == Whole!Spec <=> WholeP!Spec
<1>1. Whole!Next <=> WholeP!Next
  BY SameScan, Zenon DEF Whole!Next, WholeP!Next, Whole!Begin, WholeP!Begin,
     Whole!SetCommand, WholeP!SetCommand, Whole!Request, WholeP!Request,
     Whole!Accept, WholeP!Accept, Whole!Accepts, WholeP!Accepts,
     Whole!SetLimit, WholeP!SetLimit,
     Whole!Commands, WholeP!Commands, Whole!Unlisted, WholeP!Unlisted
<1>2. [Whole!Next]_(Whole!vars) <=> [WholeP!Next]_(WholeP!vars)
  BY <1>1 DEF Whole!vars, WholeP!vars
<1>3. Whole!Init <=> WholeP!Init
  BY DEF Whole!Init, WholeP!Init
<1> QED BY <1>2, <1>3, PTL DEF Whole!Spec, WholeP!Spec

\* "energized implies online and not faulted" when the handler started, or
\* now when none runs.
SafeBetweenCalls ==
  /\ At("ioCoil", ioCoil) = At("rEnergized", rEnergized)
  /\ At("rEnergized", rEnergized)
       => At("rState", rState) = "BUSY" /\ At("rError", rError) = "NONE"

\* A handler finds a safe device: the CoilSafety of Solenoid, through the
\* refinement.
LEMMA PointsInvariant == WSpec => [](Points /\ SafeBetweenCalls)
<1>1. WholeP!Spec => []WholeP!EnergizedOnlineUnfaulted
  BY WholeP!CoilSafety, WholeConstants
<1>2. WholeP!EnergizedOnlineUnfaulted => SafeBetweenCalls
  BY DEF WholeP!EnergizedOnlineUnfaulted, SafeBetweenCalls
<1> QED BY <1>1, <1>2, HandlersMade, SameSpec, PointsInit, PointsStep, PTL
        DEF WSpec, WritesMakeTheHandlers

\* The same, by what the handler found and by what the command makes of it.
LEMMA FoundSafe ==
  ASSUME SafeBetweenCalls, Running
  PROVE  /\ before.ioCoil = before.rEnergized
         /\ before.rEnergized => before.rState = "BUSY" /\ before.rError = "NONE"
  BY DEF SafeBetweenCalls, At

\* A coil that is on after the command is so on a device without a fault.
LEMMA CommandSafe ==
  ASSUME SafeBetweenCalls, Running, InUpdate
  PROVE  /\ Found!OnAfterCommand \in BOOLEAN /\ CoilAfterCommand = Found!OnAfterCommand
         /\ Found!OnAfterCommand
              => Found!StateAfterCommand = "BUSY" /\ Found!ErrorAfterCommand = "NONE"
<1>1. CASE Found!SwitchesOn
  BY <1>1 DEF Found!SwitchesOn, Found!SwitchesOff, Found!OnAfterCommand, CoilAfterCommand,
     Found!StateAfterCommand, Found!ErrorAfterCommand
<1>2. CASE Found!SwitchesOff
  BY <1>2 DEF Found!SwitchesOn, Found!SwitchesOff, Found!OnAfterCommand, CoilAfterCommand,
     Found!StateAfterCommand, Found!ErrorAfterCommand
<1>3. CASE ~Found!SwitchesOn /\ ~Found!SwitchesOff
  <2>1. /\ Found!OnAfterCommand = before.rEnergized /\ CoilAfterCommand = before.ioCoil
        /\ before.rEnergized \in BOOLEAN
    BY <1>3 DEF InUpdate, Found!OnAfterCommand, CoilAfterCommand
  <2> QED BY <1>3, <2>1, FoundSafe DEF Found!StateAfterCommand, Found!ErrorAfterCommand
<1> QED BY <1>1, <1>2, <1>3

\* Every point of a handler that found a safe device is safe.
LEMMA PointsSafe == Points /\ SafeBetweenCalls => EnergizedSafeAtEveryWrite
<1> SUFFICES ASSUME Points, SafeBetweenCalls PROVE EnergizedSafeAtEveryWrite
  OBVIOUS
<1>1. CASE todo = <<>>
  BY <1>1 DEF SafeBetweenCalls, At, Running, EnergizedSafeAtEveryWrite
<1>2. CASE InBegin
  BY <1>2, PointsRun, FoundSafe DEF InBegin, Is, EnergizedSafeAtEveryWrite
<1>3. CASE InUpdate /\ InEnergize
  BY <1>3, PointsRun, FoundSafe DEF InUpdate, InEnergize, Found!SwitchesOn, Is, EnergizedSafeAtEveryWrite
<1>4. CASE InUpdate /\ InRelease
  BY <1>4, PointsRun, FoundSafe DEF InUpdate, InRelease, Is, EnergizedSafeAtEveryWrite
<1>5. CASE InUpdate /\ InClear
  BY <1>5, PointsRun, FoundSafe DEF InUpdate, InClear, Is, EnergizedSafeAtEveryWrite
<1>6. CASE InUpdate /\ AtCutoff
  BY <1>6, PointsRun, CommandSafe DEF AtCutoff, Is, EnergizedSafeAtEveryWrite
<1>7. CASE InUpdate /\ InTrip
  BY <1>7, PointsRun, CommandSafe DEF InTrip, Is, Found!Expired, EnergizedSafeAtEveryWrite
<1> QED BY <1>1, <1>2, <1>3, <1>4, <1>5, <1>6, <1>7 DEF Points

\* No link hook, whichever write runs it, reads a coil that is driven, or said
\* to be, on a device that is offline or has a fault latched.
THEOREM SafeAtEveryWrite == WSpec => []EnergizedSafeAtEveryWrite
  BY PointsInvariant, PointsSafe, PTL

\* The next statement shows a state, of a fault and a coil that are as it says.
ShowsState(state) ==
  /\ Head(todo) = Set("rState", state)
  /\ rEnergized \in BOOLEAN /\ ioCoil = rEnergized
  /\ state = IF rError # "NONE" THEN "ERRORED" ELSE IF rEnergized THEN "BUSY" ELSE "IDLE"

\* The next statement tells the sink of the fault that is shown.
TellsFault ==
  /\ Head(todo) = Tell
  /\ rError = "ON_TIME_EXCEEDED" /\ rState = "ERRORED" /\ ~ioCoil /\ ~rEnergized

\* The statements nobody is promised anything about.
Others == {CoilOff, CoilOn, TruthOff, TruthOn, NoFault, Fault, TakeTime, LookAtLimit, Cutoff}

\* A running handler is at one of the three.
AtAnyPoint ==
  \/ \E state \in {"IDLE", "BUSY", "ERRORED"} : ShowsState(state)
  \/ TellsFault
  \/ Head(todo) \in Others

\* At every point of begin().
LEMMA BeginPoints == InBegin => AtAnyPoint
<1> SUFFICES ASSUME InBegin PROVE AtAnyPoint
  OBVIOUS
<1>1. CASE todo = <<CoilOff, TruthOff, LookAtLimit>>
  BY <1>1, Three DEF AtAnyPoint, Others
<1>2. CASE todo = <<TruthOff, LookAtLimit>>
  BY <1>2, Two DEF AtAnyPoint, Others
<1>3. CASE todo = <<LookAtLimit>>
  BY <1>3, One DEF AtAnyPoint, Others
<1>4. CASE todo = <<NoFault, Idle>>
  BY <1>4, Two DEF AtAnyPoint, Others
<1>5. CASE todo = <<Idle>> /\ Is(before.rState, "NONE", FALSE, FALSE)
  <2>1. Head(todo) = Set("rState", "IDLE")
    BY <1>5, One DEF Idle
  <2> QED BY <1>5, <2>1 DEF AtAnyPoint, ShowsState, Is
<1> QED BY <1>1, <1>2, <1>3, <1>4, <1>5 DEF InBegin

\* At every point of the commands.
LEMMA CommandPoints ==
  ASSUME SafeBetweenCalls, Running, InUpdate, InEnergize \/ InRelease \/ InClear
  PROVE  AtAnyPoint
<1>1. CASE InEnergize
  <2>1. CASE todo = <<TakeTime, CoilOn, TruthOn, Busy, Cutoff>>
    BY <2>1, Five DEF AtAnyPoint, Others
  <2>2. CASE todo = <<CoilOn, TruthOn, Busy, Cutoff>>
    BY <2>2, Four DEF AtAnyPoint, Others
  <2>3. CASE todo = <<TruthOn, Busy, Cutoff>>
    BY <2>3, Three DEF AtAnyPoint, Others
  <2>4. CASE todo = <<Busy, Cutoff>> /\ Is(before.rState, before.rError, TRUE, TRUE)
    <3>1. Head(todo) = Set("rState", "BUSY")
      BY <2>4, Two DEF Busy
    <3> QED BY <1>1, <2>4, <3>1 DEF AtAnyPoint, ShowsState, Is, InEnergize, Found!SwitchesOn
  <2> QED BY <1>1, <2>1, <2>2, <2>3, <2>4 DEF InEnergize
<1>2. CASE InRelease
  <2>1. CASE todo = <<CoilOff, TruthOff, Idle, Cutoff>>
    BY <2>1, Four DEF AtAnyPoint, Others
  <2>2. CASE todo = <<TruthOff, Idle, Cutoff>>
    BY <2>2, Three DEF AtAnyPoint, Others
  <2>3. CASE todo = <<Idle, Cutoff>> /\ Is(before.rState, before.rError, FALSE, FALSE)
    <3>1. Head(todo) = Set("rState", "IDLE")
      BY <2>3, Two DEF Idle
    <3>2. before.rError = "NONE"
      BY <1>2, FoundSafe DEF InRelease, Found!SwitchesOff
    <3> QED BY <2>3, <3>1, <3>2 DEF AtAnyPoint, ShowsState, Is
  <2> QED BY <1>2, <2>1, <2>2, <2>3 DEF InRelease
<1>3. CASE InClear
  <2>1. CASE todo = <<NoFault, ShowCleared, Cutoff>>
    BY <2>1, Three DEF AtAnyPoint, Others
  <2>2. CASE /\ todo = <<ShowCleared, Cutoff>>
             /\ Is(before.rState, "NONE", before.rEnergized, before.ioCoil)
    <3>1. Head(todo) = Set("rState", Cleared)
      BY <2>2, Two DEF ShowCleared
    <3>2. Cleared \in {"IDLE", "BUSY"} /\ before.rEnergized \in BOOLEAN
      BY DEF Cleared, InUpdate
    <3> QED BY <2>2, <3>1, <3>2, FoundSafe DEF AtAnyPoint, ShowsState, Is, Cleared
  <2> QED BY <1>3, <2>1, <2>2 DEF InClear
<1> QED BY <1>1, <1>2, <1>3

\* At every point of the cutoff.
LEMMA CutoffPoints ==
  ASSUME SafeBetweenCalls, Running, InUpdate, AtCutoff \/ InTrip
  PROVE  AtAnyPoint
<1>1. CASE AtCutoff
  <2>1. Head(todo) = Cutoff
    BY <1>1, One DEF AtCutoff
  <2> QED BY <2>1 DEF AtAnyPoint, Others
<1>2. CASE InTrip
  <2>0. Found!ErrorAfterCommand = "NONE"
    BY <1>2, CommandSafe DEF InTrip, Found!Expired
  <2>1. CASE todo = <<CoilOff, TruthOff, Idle, Fault, Errored, Tell>>
    BY <2>1, Six DEF AtAnyPoint, Others
  <2>2. CASE todo = <<TruthOff, Idle, Fault, Errored, Tell>>
    BY <2>2, Five DEF AtAnyPoint, Others
  <2>3. CASE /\ todo = <<Idle, Fault, Errored, Tell>>
             /\ Is(Found!StateAfterCommand, Found!ErrorAfterCommand, FALSE, FALSE)
    <3>1. Head(todo) = Set("rState", "IDLE")
      BY <2>3, Four DEF Idle
    <3> QED BY <2>0, <2>3, <3>1 DEF AtAnyPoint, ShowsState, Is
  <2>4. CASE todo = <<Fault, Errored, Tell>>
    BY <2>4, Three DEF AtAnyPoint, Others
  <2>5. CASE todo = <<Errored, Tell>> /\ Is("IDLE", "ON_TIME_EXCEEDED", FALSE, FALSE)
    <3>1. Head(todo) = Set("rState", "ERRORED")
      BY <2>5, Two DEF Errored
    <3> QED BY <2>5, <3>1 DEF AtAnyPoint, ShowsState, Is
  <2>6. CASE todo = <<Tell>> /\ Is("ERRORED", "ON_TIME_EXCEEDED", FALSE, FALSE)
    <3>1. Head(todo) = Tell
      BY <2>6, One
    <3> QED BY <2>6, <3>1 DEF AtAnyPoint, TellsFault, Is
  <2> QED BY <1>2, <2>1, <2>2, <2>3, <2>4, <2>5, <2>6 DEF InTrip
<1> QED BY <1>1, <1>2

\* What one statement shows, if it shows anything.
SeenWhole ==
  /\ Current("write") /\ Head(todo).to = "rState"
       => StatePrecedence' /\ (ioCoil = rEnergized)'
  /\ Current("report") => /\ rError = "ON_TIME_EXCEEDED" /\ rState = "ERRORED"
                          /\ ~ioCoil /\ ~rEnergized

\* Each kind of statement shows what it should.
LEMMA PointSeenWhole ==
  ASSUME Running, AtAnyPoint, WNext
  PROVE  SeenWhole
<1>1. ASSUME NEW state \in {"IDLE", "BUSY", "ERRORED"}, ShowsState(state) PROVE SeenWhole
  <2>1. /\ rState' = state /\ UNCHANGED <<rError, rEnergized, ioCoil>>
    BY <1>1, WriteRuns DEF ShowsState
  <2>2. ~Current("report")
    BY <1>1, Statements DEF ShowsState, Current
  <2> QED BY <1>1, <2>1, <2>2 DEF ShowsState, SeenWhole, StatePrecedence
<1>2. CASE TellsFault
  <2>1. ~Current("write")
    BY <1>2, Statements DEF TellsFault, Tell, Current
  <2> QED BY <1>2, <2>1 DEF TellsFault, SeenWhole
<1>3. CASE Head(todo) \in Others
  <2>1. ~(Current("write") /\ Head(todo).to = "rState") /\ ~Current("report")
    BY <1>3 DEF Others, Current, Set, Do, CoilOff, CoilOn, TruthOff, TruthOn, NoFault, Fault,
       TakeTime, LookAtLimit, Cutoff
  <2> QED BY <2>1 DEF SeenWhole
<1> QED BY <1>1, <1>2, <1>3 DEF AtAnyPoint

\* A write of rState shows a device that already is what it says, and the
\* error sink is called when the fault it is told of is shown and the coil off.
THEOREM SeenWholeAlways == WSpec => ObserversSeeItWhole
<1>1. Points /\ SafeBetweenCalls /\ [WNext]_writeVars => [SeenWhole]_writeVars
  <2> SUFFICES ASSUME Points, SafeBetweenCalls, WNext PROVE SeenWhole
    OBVIOUS
  <2>1. CASE Running
    <3>1. AtAnyPoint
      BY <2>1, BeginPoints, CommandPoints, CutoffPoints DEF Points, Running
    <3> QED BY <2>1, <3>1, PointSeenWhole
  <2>2. CASE ~Running
    BY <2>2 DEF SeenWhole, Current
  <2> QED BY <2>1, <2>2
<1> QED BY <1>1, PointsInvariant, PTL DEF WSpec, ObserversSeeItWhole, SeenWhole
=============================================================================
