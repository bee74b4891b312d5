--------------------------- MODULE SolenoidWrites ---------------------------
(***************************************************************************)
(* SolenoidDevice (src/src/SolenoidDevice.h), one attribute write at a     *)
(* time.  Every UpdateValue() runs the attribute's link hooks before it    *)
(* returns, and a hook may read any attribute of the device: what begin()  *)
(* and update(t) leave half done between two writes is seen.  Solenoid has *)
(* each handler as one step; here it is a list of statements, and the two  *)
(* are shown to agree whenever no handler is running.                      *)
(***************************************************************************)
EXTENDS Solenoid, Sequences

VARIABLES
  todo,     \* the statements the running handler still has to execute
  before,   \* ghost: the device as the running handler found it
  gap       \* ghost: the time between the last two calls of update(t)

writeVars == <<vars, todo, before, gap>>

Device == [rState |-> rState, rError |-> rError, rEnergized |-> rEnergized,
           ioCoil |-> ioCoil, pending |-> pending, now |-> now, held |-> held,
           energizedAtUs |-> energizedAtUs, reported |-> reported]

WInit == Init /\ todo = <<>> /\ before = Device /\ gap = 0

Running == todo # <<>>

-----------------------------------------------------------------------------
(* Statements                                                              *)

Set(attribute, value) == [do |-> "write", to |-> attribute, value |-> value]
Do(statement) == [do |-> statement]

\* Mutant: the state is written before what it stands for.
Drive_StateFirst(on) ==
  <<Set("rState", IF on THEN "BUSY" ELSE "IDLE"), Set("ioCoil", on), Set("rEnergized", on)>>
\* drive(on)
Drive(on) ==
  <<Set("ioCoil", on), Set("rEnergized", on), Set("rState", IF on THEN "BUSY" ELSE "IDLE")>>

\* begin(), up to its look at the limit and from there.
BeginSafe == <<Set("ioCoil", FALSE), Set("rEnergized", FALSE), Do("limit")>>
BeginOnline == <<Set("rError", "NONE"), Set("rState", "IDLE")>>

\* The switch of update(t).
Handle(cmd) ==
  CASE cmd = "ENERGIZE" /\ rError = "NONE" /\ ~rEnergized -> <<Do("since")>> \o Drive(TRUE)
    [] cmd = "RELEASE" /\ rEnergized                      -> Drive(FALSE)
    [] cmd = "CLEAR_FAULT" ->
         <<Set("rError", "NONE"), Set("rState", IF rEnergized THEN "BUSY" ELSE "IDLE")>>
    [] OTHER -> <<>>

\* Mutant: the fault is latched while the coil is on.
Trip_FaultFirst ==
  <<Set("rError", "ON_TIME_EXCEEDED")>> \o Drive(FALSE) \o <<Set("rState", "ERRORED"), Do("report")>>
\* The body of the protective cutoff.
Trip ==
  Drive(FALSE) \o <<Set("rError", "ON_TIME_EXCEEDED"), Set("rState", "ERRORED"), Do("report")>>

-----------------------------------------------------------------------------
(* Their execution                                                         *)

\* When a call of update(t) is over the ghost has the coil's true on-time.
HeldNow ==
  held' = IF todo' # <<>> THEN held
          ELSE IF before.rEnergized /\ rEnergized'
            THEN IF held + gap < TimeMod THEN held + gap ELSE TimeMod
          ELSE 0

Current(statement) == Running /\ Head(todo).do = statement

\* UpdateValue() of one attribute.
Write ==
  /\ Current("write")
  /\ LET w == Head(todo) IN
       /\ rState'     = IF w.to = "rState" THEN w.value ELSE rState
       /\ rError'     = IF w.to = "rError" THEN w.value ELSE rError
       /\ rEnergized' = IF w.to = "rEnergized" THEN w.value ELSE rEnergized
       /\ ioCoil'     = IF w.to = "ioCoil" THEN w.value ELSE ioCoil
  /\ todo' = Tail(todo)
  /\ UNCHANGED <<cnfMaxOnTimeMs, wCommand, pending, energizedAtUs, now, reported, before, gap>>
  /\ HeldNow

\* pending_ = CMD_NONE; if (cnfMaxOnTimeMs.Get() == 0) return false
CheckLimit ==
  /\ Current("limit")
  /\ pending' = "NONE"
  /\ todo' = IF cnfMaxOnTimeMs = 0 THEN <<>> ELSE BeginOnline
  /\ UNCHANGED <<rState, rError, rEnergized, ioCoil, cnfMaxOnTimeMs, wCommand,
                 energizedAtUs, now, reported, before, gap>>
  /\ HeldNow

\* energizedAtUs_ = t.us
RecordSince ==
  /\ Current("since")
  /\ energizedAtUs' = now
  /\ todo' = Tail(todo)
  /\ UNCHANGED <<rState, rError, rEnergized, ioCoil, cnfMaxOnTimeMs, wCommand,
                 pending, now, held, reported, before, gap>>

\* Mutant: the coil is looked at before the command's writes.
Tripped_Before == before.rEnergized /\ Minus(now, energizedAtUs, TimeMod) >= LimitUs
Tripped == rEnergized /\ Minus(now, energizedAtUs, TimeMod) >= LimitUs

\* The condition of the protective cutoff, after the command's writes.
CheckCutoff ==
  /\ Current("cutoff")
  /\ todo' = IF Tripped THEN Trip ELSE <<>>
  /\ UNCHANGED <<rState, rError, rEnergized, ioCoil, cnfMaxOnTimeMs, wCommand,
                 pending, energizedAtUs, now, reported, before, gap>>
  /\ HeldNow

\* reportError(rError)
Report ==
  /\ Current("report")
  /\ reported' = rError
  /\ todo' = Tail(todo)
  /\ UNCHANGED <<rState, rError, rEnergized, ioCoil, cnfMaxOnTimeMs, wCommand,
                 pending, energizedAtUs, now, before, gap>>
  /\ HeldNow

-----------------------------------------------------------------------------
(* Calls: none while another runs                                          *)

CallBegin ==
  /\ ~Running
  /\ todo' = BeginSafe
  /\ before' = Device
  /\ reported' = "NONE"
  /\ UNCHANGED <<rState, rError, rEnergized, ioCoil, cnfMaxOnTimeMs, wCommand,
                 pending, energizedAtUs, now, held, gap>>

\* update(t), d microseconds after the previous one: the request is taken.
CallUpdate(d) ==
  /\ ~Running /\ rState # "OFFLINE"
  /\ now' = Plus(now, d, TimeMod)
  /\ pending' = "NONE"
  /\ todo' = Handle(pending) \o <<Do("cutoff")>>
  /\ before' = Device
  /\ gap' = d
  /\ reported' = "NONE"
  /\ UNCHANGED <<rState, rError, rEnergized, ioCoil, cnfMaxOnTimeMs, wCommand,
                 energizedAtUs, held>>

\* Handlers that write no attribute, or one: as in Solenoid.
Call ==
  /\ ~Running
  /\ \/ \E d \in 0..MaxStep : ScanOffline(d)
     \/ \E c \in Commands \cup {Unlisted} : SetCommand(c)
     \/ \E c \in Commands \ {"NONE"} : Request(c)
     \/ \E v \in Limits : SetLimit(v)
  /\ before' = Device'
  /\ UNCHANGED <<todo, gap>>

WNext ==
  \/ Write \/ CheckLimit \/ RecordSince \/ CheckCutoff \/ Report
  \/ CallBegin \/ (\E d \in 0..MaxStep : CallUpdate(d)) \/ Call

WSpec == WInit /\ [][WNext]_writeVars

-----------------------------------------------------------------------------
(* Properties                                                              *)

\* "energized implies online and not faulted" at every single write, not
\* only between handlers: no hook sees the coil driven, or said to be, on a
\* device that is offline or has its fault latched.
EnergizedSafeAtEveryWrite ==
  ioCoil \/ rEnergized => rState # "OFFLINE" /\ rError = "NONE"

\* Whoever looks between two writes sees a device that is whole.  At each
\* write of rState the fault and the coil are already what the new state says
\* (the precedence of enumDeviceState, "applied whenever it updates rState");
\* and the error sink is called when the device already shows the fault it
\* is told of, and the coil is off.
ObserversSeeItWhole ==
  [][/\ Current("write") /\ Head(todo).to = "rState"
          => StatePrecedence' /\ (ioCoil = rEnergized)'
     /\ Current("report") => /\ rError = "ON_TIME_EXCEEDED" /\ rState = "ERRORED"
                             /\ ~ioCoil /\ ~rEnergized]_writeVars

\* The device as it is when no handler runs.
At(field, value) == IF Running THEN before[field] ELSE value

Whole == INSTANCE Solenoid
           WITH rState <- At("rState", rState), rError <- At("rError", rError),
                rEnergized <- At("rEnergized", rEnergized), ioCoil <- At("ioCoil", ioCoil),
                pending <- At("pending", pending), now <- At("now", now),
                held <- At("held", held), reported <- At("reported", reported),
                energizedAtUs <- At("energizedAtUs", energizedAtUs)

\* Statement by statement, each handler does what its step in Solenoid does:
\* every property of Solenoid is one of the device between two calls.
WritesMakeTheHandlers == Whole!Spec
=============================================================================
