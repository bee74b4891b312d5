SPECIFICATION FairSpec
CONSTANTS
  RawMod <- MCRawMod
  TimeMod <- MCTimeMod
  CycleMod <- MCCycleMod
  UsPerMs <- MCUsPerMs
  Limits <- MCLimits
  MaxGap <- MCMaxGap
  MaxLatency <- MCMaxLatency
INVARIANTS
  TypeOK
  PinOnTimeBounded
  PinIsTheCoil
PROPERTIES
  KeepsSolenoidAssumption
  PinGoesLow
