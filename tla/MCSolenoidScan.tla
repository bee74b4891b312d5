--------------------------- MODULE MCSolenoidScan ---------------------------
(***************************************************************************)
(* Instances of SolenoidScan for TLC: a raw counter of 4 values, time of   *)
(* 6, samples at most 2 apart, pin writes at most 1 after their sample,    *)
(* limits of 2 and 3 microseconds.  The period counter is one value wide:  *)
(* nothing here reads it.                                                  *)
(***************************************************************************)
EXTENDS SolenoidScan

MCRawMod == 4
MCTimeMod == 6
MCCycleMod == 1
MCUsPerMs == 1
MCLimits == {2, 3}
MCMaxGap == 2
MCMaxLatency == 1

\* begin() of a device that is already online, as an application that
\* restarts its devices would call it.
Restart ==
  /\ step = "sample"
  /\ Dev!Begin
  /\ UNCHANGED <<clkVars, ioVars>>

RestartSpec == Init /\ [][Next \/ Restart]_vars
=============================================================================
