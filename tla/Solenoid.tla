------------------------------ MODULE Solenoid ------------------------------
(***************************************************************************)
(* SolenoidDevice (src/src/SolenoidDevice.h): begin(), the scan update(t), *)
(* the w callback Set_wCommand() and the C++ requests energize(),          *)
(* release() and clearFault().                                             *)
(*                                                                         *)
(* Every handler is one step: the framework runs the write callbacks and   *)
(* the scan under its tree lock, so they never overlap.                    *)
(*                                                                         *)
(* Time is the uint64_t of UdiTime, with TimeMod values; the device's only *)
(* use of it is an unsigned difference.  The ghost variable `held` is the  *)
(* true on-time of the coil, which the device must recover from that       *)
(* difference; no handler reads it.                                        *)
(***************************************************************************)
EXTENDS Unsigned

CONSTANTS
  TimeMod,    \* number of values of UdiTime::us (2^64 in the code)
  UsPerMs,    \* microseconds in a millisecond (1000 in the code)
  Limits,     \* the values cnfMaxOnTimeMs is set to, in milliseconds
  MaxStep     \* the longest time between two scans, in microseconds

\* The products of a 32-bit limit and 1000 plus one scan gap fit 64 bits.
ASSUME SolenoidAssumption ==
  /\ TimeMod \in Nat \ {0}
  /\ UsPerMs \in Nat \ {0}
  /\ MaxStep \in Nat \ {0}
  /\ Limits \subseteq Nat
  /\ MaxStep < TimeMod
  /\ \A l \in Limits : l * UsPerMs \in Nat /\ l * UsPerMs + MaxStep < TimeMod

VARIABLES
  rState,           \* the machine state, an r attribute
  rError,           \* the latched fault, an r attribute
  rEnergized,       \* the truth about the coil, an r attribute
  ioCoil,           \* the coil drive, an io OUT attribute
  cnfMaxOnTimeMs,   \* the rated on-time, a setup attribute
  wCommand,         \* the last command written and accepted, a w attribute
  pending,          \* pending_: the latched request
  energizedAtUs,    \* energizedAtUs_: the scan that switched the coil on
  now,              \* us of the latest scan (the caller's clock)
  held,             \* ghost: true on-time at the latest scan
  reported          \* the code the latest handler call passed to reportError

vars == <<rState, rError, rEnergized, ioCoil, cnfMaxOnTimeMs, wCommand,
          pending, energizedAtUs, now, held, reported>>

States   == {"OFFLINE", "IDLE", "BUSY", "ERRORED"}
Errors   == {"NONE", "ON_TIME_EXCEEDED"}
Commands == {"NONE", "ENERGIZE", "RELEASE", "CLEAR_FAULT"}
Unlisted == "UNLISTED"    \* any other value of the uint8_t command
Time     == 0 .. TimeMod - 1

TypeOK ==
  /\ rState \in States
  /\ rError \in Errors
  /\ rEnergized \in BOOLEAN
  /\ ioCoil \in BOOLEAN
  /\ cnfMaxOnTimeMs \in Limits \cup {0}
  /\ wCommand \in Commands
  /\ pending \in Commands
  /\ energizedAtUs \in Time
  /\ now \in Time
  /\ held \in Nat
  /\ reported \in Errors \cup {"NOT_ONLINE"}

\* A device as constructed: every attribute at its default, and the setup
\* without one at zero.
Init ==
  /\ rState = "OFFLINE"
  /\ rError = "NONE"
  /\ rEnergized = FALSE
  /\ ioCoil = FALSE
  /\ cnfMaxOnTimeMs = 0
  /\ wCommand = "NONE"
  /\ pending = "NONE"
  /\ energizedAtUs = 0
  /\ now = 0
  /\ held = 0
  /\ reported = "NONE"

-----------------------------------------------------------------------------
(* begin()                                                                 *)

\* Mutant: begin() forgets the r attribute.
Begin_KeepsEnergized ==
  /\ ioCoil' = FALSE
  /\ pending' = "NONE"
  /\ IF cnfMaxOnTimeMs = 0
       THEN UNCHANGED <<rError, rState>>
       ELSE rError' = "NONE" /\ rState' = "IDLE"
  /\ held' = 0
  /\ reported' = "NONE"
  /\ UNCHANGED <<rEnergized, cnfMaxOnTimeMs, wCommand, energizedAtUs, now>>

\* begin(): the outputs are made safe first; without a limit it then stops
\* and leaves rState and rError as they were.
Begin ==
  /\ ioCoil' = FALSE
  /\ rEnergized' = FALSE
  /\ pending' = "NONE"
  /\ IF cnfMaxOnTimeMs = 0
       THEN UNCHANGED <<rError, rState>>
       ELSE rError' = "NONE" /\ rState' = "IDLE"
  /\ held' = 0
  /\ reported' = "NONE"
  /\ UNCHANGED <<cnfMaxOnTimeMs, wCommand, energizedAtUs, now>>

-----------------------------------------------------------------------------
(* update(t), in the order of the code: the latched command, then the      *)
(* protective cutoff.                                                      *)

\* case CMD_ENERGIZE takes effect.
SwitchesOn == pending = "ENERGIZE" /\ rError = "NONE" /\ ~rEnergized

\* case CMD_RELEASE takes effect.
SwitchesOff == pending = "RELEASE" /\ rEnergized

\* Mutants: the time of switching on is never recorded; every ENERGIZE
\* records it, of a coil that is already on too.
Since_NotRecorded(t) == energizedAtUs
Since_EveryEnergize(t) ==
  IF pending = "ENERGIZE" /\ rError = "NONE" THEN t ELSE energizedAtUs

\* rEnergized and energizedAtUs_ once the command is applied at time t.
OnAfterCommand == (rEnergized \/ SwitchesOn) /\ ~SwitchesOff
Since(t) == IF SwitchesOn THEN t ELSE energizedAtUs

\* Mutants: ClearFault leaves the state; it ends in IDLE with the coil on.
StateAfterCommand_NoClear ==
  CASE SwitchesOn  -> "BUSY"
    [] SwitchesOff -> "IDLE"
    [] OTHER       -> rState
StateAfterCommand_ClearToIdle ==
  CASE SwitchesOn                                   -> "BUSY"
    [] SwitchesOff \/ pending = "CLEAR_FAULT"       -> "IDLE"
    [] OTHER                                        -> rState

\* rError and rState once the command is applied.
ErrorAfterCommand == IF pending = "CLEAR_FAULT" THEN "NONE" ELSE rError
StateAfterCommand ==
  CASE SwitchesOn                -> "BUSY"
    [] SwitchesOff               -> "IDLE"
    [] pending = "CLEAR_FAULT"   -> IF rEnergized THEN "BUSY" ELSE "IDLE"
    [] OTHER                     -> rState

\* cnfMaxOnTimeMs * 1000 in 64 bits.
LimitUs == cnfMaxOnTimeMs * UsPerMs

\* Mutants: one microsecond late; without looking at the coil.
Expired_Late(t) == OnAfterCommand /\ Minus(t, Since(t), TimeMod) > LimitUs
Expired_AnyCoil(t) == Minus(t, Since(t), TimeMod) >= LimitUs

\* The cutoff condition, an unsigned difference of two samples.
Expired(t) == OnAfterCommand /\ Minus(t, Since(t), TimeMod) >= LimitUs

\* The ghost: d more microseconds on for a coil that was on and stays on.  It
\* stops counting at TimeMod, beyond every limit, to stay finite.
HeldAfter(t, d) ==
  IF rEnergized /\ OnAfterCommand /\ ~Expired(t)
    THEN IF held + d < TimeMod THEN held + d ELSE TimeMod
    ELSE 0

\* update(t) of an online device, d microseconds after the previous scan.
ScanOnline(d) ==
  LET t == Plus(now, d, TimeMod) IN
  /\ rState # "OFFLINE"
  /\ now' = t
  /\ pending' = "NONE"
  /\ energizedAtUs' = Since(t)
  /\ ioCoil' = IF Expired(t) THEN FALSE
               ELSE IF SwitchesOn \/ SwitchesOff THEN OnAfterCommand
               ELSE ioCoil
  /\ rEnergized' = (OnAfterCommand /\ ~Expired(t))
  /\ rError' = IF Expired(t) THEN "ON_TIME_EXCEEDED" ELSE ErrorAfterCommand
  /\ rState' = IF Expired(t) THEN "ERRORED" ELSE StateAfterCommand
  /\ reported' = IF Expired(t) THEN "ON_TIME_EXCEEDED" ELSE "NONE"
  /\ held' = HeldAfter(t, d)
  /\ UNCHANGED <<cnfMaxOnTimeMs, wCommand>>

\* update(t) of an offline device returns at once: a latched request stays.
ScanOffline(d) ==
  /\ rState = "OFFLINE"
  /\ now' = Plus(now, d, TimeMod)
  /\ reported' = "NONE"
  /\ UNCHANGED <<rState, rError, rEnergized, ioCoil, cnfMaxOnTimeMs,
                 wCommand, pending, energizedAtUs, held>>

Scan(d) == ScanOnline(d) \/ ScanOffline(d)

-----------------------------------------------------------------------------
(* Requests                                                                *)

\* Mutants: an unlisted command gets through; a fault does not matter.
Accepts_Unlisted(c) ==
  \/ c = "ENERGIZE" /\ rState # "OFFLINE" /\ rError = "NONE"
  \/ c = "CLEAR_FAULT" /\ rState # "OFFLINE"
  \/ c \in {"RELEASE", "NONE", Unlisted}
Accepts_WhileFaulted(c) ==
  \/ c \in {"ENERGIZE", "CLEAR_FAULT"} /\ rState # "OFFLINE"
  \/ c \in {"RELEASE", "NONE"}

\* accept(c) returns true.
Accepts(c) ==
  \/ c = "ENERGIZE" /\ rState # "OFFLINE" /\ rError = "NONE"
  \/ c = "CLEAR_FAULT" /\ rState # "OFFLINE"
  \/ c \in {"RELEASE", "NONE"}

\* accept(c): latch what can run, report an ENERGIZE that came too early.
Accept(c) ==
  /\ pending' = IF Accepts(c) /\ c # "NONE" THEN c ELSE pending
  /\ reported' = IF c = "ENERGIZE" /\ rState = "OFFLINE"
                   THEN "NOT_ONLINE" ELSE "NONE"
  /\ UNCHANGED <<rState, rError, rEnergized, ioCoil, cnfMaxOnTimeMs,
                 energizedAtUs, now, held>>

\* Set_wCommand(c): the attribute keeps an accepted command only.
SetCommand(c) ==
  /\ Accept(c)
  /\ wCommand' = IF Accepts(c) THEN c ELSE wCommand

\* energize(), release(), clearFault(): the same latch, no attribute.
Request(c) ==
  /\ Accept(c)
  /\ UNCHANGED wCommand

\* cnfMaxOnTimeMs.UpdateValue(v), or a write to the setup.
SetLimit(v) ==
  /\ cnfMaxOnTimeMs' = v
  /\ reported' = "NONE"
  /\ UNCHANGED <<rState, rError, rEnergized, ioCoil, wCommand, pending,
                 energizedAtUs, now, held>>

-----------------------------------------------------------------------------
Next ==
  \/ Begin
  \/ \E d \in 0..MaxStep : Scan(d)
  \/ \E c \in Commands \cup {Unlisted} : SetCommand(c)
  \/ \E c \in Commands \ {"NONE"} : Request(c)
  \/ \E v \in Limits : SetLimit(v)

Spec == Init /\ [][Next]_vars

\* The loop calls update(t) every period and its clock moves on.
TimeAdvances == \E d \in 1..MaxStep : Scan(d)
FairSpec == Spec /\ WF_vars(TimeAdvances)

-----------------------------------------------------------------------------
(* Properties                                                              *)

\* "energized implies online and not faulted, so the state follows it": the
\* coil is driven exactly while rEnergized says so, and then the device is
\* BUSY with no fault latched, whatever mix of requests, restarts and limit
\* changes came before.
EnergizedOnlineUnfaulted ==
  /\ ioCoil = rEnergized
  /\ rEnergized => rState = "BUSY" /\ rError = "NONE"

\* A fault is latched exactly while the state is ERRORED: none is cleared
\* without the state, and no state survives its fault.
ErroredIffFault == rState = "ERRORED" <=> rError # "NONE"

\* No request outlives the condition it was accepted under: a latched
\* ENERGIZE is never left over to a device that has gone into a fault, and
\* never waits in a device that is not online.  The guard of case
\* CMD_ENERGIZE is there because "a fault may have latched since"; this says
\* that none can have, so that the guard never refuses an accepted request:
\* accept() takes none while a fault is latched, update() empties the latch
\* before its cutoff, and begin() empties it too.
NoStaleEnergize ==
  pending = "ENERGIZE" => rState # "OFFLINE" /\ rError = "NONE"

\* The unsigned difference the cutoff tests is the true on-time, also after
\* the counter has wrapped and however long ago the coil was switched on.
MeasuredTimeIsTrue ==
  rEnergized => held = Minus(now, energizedAtUs, TimeMod)

\* While a coil stays on nothing restarts its timer (a repeated ENERGIZE,
\* or a RELEASE overtaken by an ENERGIZE in the same period).
TimerNeverRestarts ==
  [][rEnergized /\ rEnergized' => energizedAtUs' = energizedAtUs]_vars

\* A fault reaches the error sink in the very call that latches it, once:
\* later scans of a faulted device say nothing.
ReportedExactlyWhenLatched ==
  [][reported' = "ON_TIME_EXCEEDED" <=> rError = "NONE" /\ rError' # "NONE"]_vars

\* A coil that was switched on does not stay on for ever, whatever is
\* requested and however the limit is moved meanwhile.
CoilIsReleased == rEnergized ~> ~rEnergized

\* An online device shows its fault, else whether its coil is on.
StatePrecedence ==
  rState # "OFFLINE" => rState = IF rError # "NONE" THEN "ERRORED"
                                 ELSE IF rEnergized THEN "BUSY" ELSE "IDLE"

\* "A device that is not online is OFFLINE ...; an online device with a
\* latched error is ERRORED regardless of activity" (enumDeviceState), and
\* BUSY only while it is executing something: no request, scan, change of
\* the limit or begin() spoils that, but a begin() that fails on a device
\* already online, which leaves BUSY behind with its coil off.
PrecedenceKeptByHandlers ==
  [][StatePrecedence /\ ~(Begin /\ cnfMaxOnTimeMs = 0) => StatePrecedence']_vars

\* The doc of enumDeviceState: ST_OFFLINE is "begin() not called / not
\* successful".
FailedBeginIsOffline ==
  [][Begin /\ cnfMaxOnTimeMs = 0 => rState' = "OFFLINE"]_vars

-----------------------------------------------------------------------------
(* The promise this implements                                             *)

Phase == CASE rState = "OFFLINE" -> "offline"
           [] rError # "NONE"    -> "tripped"
           [] rEnergized         -> "on"
           [] OTHER              -> "off"

Guard == INSTANCE CoilGuard
           WITH phase <- Phase, limit <- LimitUs,
                LimitValues <- {l * UsPerMs : l \in Limits}

\* SolenoidDevice implements CoilGuard: it measures the on-time it promises,
\* cuts at the limit and not before, and stays off until the fault is cleared.
ImplementsGuard == Guard!Spec
=============================================================================
