------------------------------ MODULE CoilGuard -----------------------------
(***************************************************************************)
(* What SolenoidDevice promises about its coil, with no command latch, no  *)
(* state word and no clock arithmetic: an intermittent-duty coil that is   *)
(* never held on for a whole rated on-time, is not cut before it, and      *)
(* stays off after a cut until somebody acknowledges the fault.            *)
(*                                                                         *)
(* `held` is the TRUE time the coil has been on, at the last scan.  The    *)
(* implementation never stores it: it has to recover it from two samples   *)
(* of a counter (module Solenoid).                                         *)
(***************************************************************************)
EXTENDS Naturals

CONSTANTS
  LimitValues,   \* rated on-times, in microseconds; 0 is "not configured"
  MaxStep        \* the longest time between two scans

VARIABLES
  phase,   \* the coil: "offline", "off", "on" or "tripped"
  held,    \* true continuous on-time of the coil, 0 while it is off
  limit    \* the rated on-time in force

vars == <<phase, held, limit>>

Init ==
  /\ phase = "offline"
  /\ held = 0
  /\ limit = 0

\* The limit may be changed at any time, with the coil on as well.
SetLimit(v) ==
  /\ limit' = v
  /\ UNCHANGED <<phase, held>>

\* A successful begin(): online, coil off, any fault forgotten.
Start ==
  /\ limit # 0
  /\ phase' = "off"
  /\ held' = 0
  /\ UNCHANGED limit

\* A begin() refused for want of a limit still makes the coil safe first.
RefusedStart ==
  /\ limit = 0
  /\ phase' = IF phase = "on" THEN "off" ELSE phase
  /\ held' = 0
  /\ UNCHANGED limit

\* The coil is switched on.  A limit of zero is reached at once.
SwitchOn ==
  /\ phase = "off"
  /\ phase' = IF limit = 0 THEN "tripped" ELSE "on"
  /\ held' = 0

\* A requested release, which may come however long the coil has been on.
SwitchOff ==
  /\ phase = "on"
  /\ phase' = "off"
  /\ held' = 0

\* d more microseconds on, short of the limit.
StayOn(d) ==
  /\ phase = "on"
  /\ held + d < limit
  /\ phase' = "on"
  /\ held' = held + d

\* The protective cutoff: only when the limit is reached, never before.
Trip(d) ==
  /\ phase = "on"
  /\ held + d >= limit
  /\ phase' = "tripped"
  /\ held' = 0

\* Fault acknowledged.
Clear ==
  /\ phase = "tripped"
  /\ phase' = "off"
  /\ held' = 0

\* One scan, d microseconds after the previous one.
Pass(d) ==
  /\ SwitchOn \/ SwitchOff \/ StayOn(d) \/ Trip(d) \/ Clear
  /\ UNCHANGED limit

Next ==
  \/ \E v \in LimitValues : SetLimit(v)
  \/ Start
  \/ RefusedStart
  \/ \E d \in 0..MaxStep : Pass(d)

Spec == Init /\ [][Next]_vars
=============================================================================
