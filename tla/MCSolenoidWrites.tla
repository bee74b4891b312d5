-------------------------- MODULE MCSolenoidWrites --------------------------
(* The instance of MCSolenoid, write by write.                             *)
EXTENDS SolenoidWrites

MCTimeMod == 7
MCUsPerMs == 2
MCMaxStep == 2
MCLimits == {0, 1, 2}

=============================================================================
