SPECIFICATION RestartSpec
CONSTANTS
  RawMod <- MCRawMod
  TimeMod <- MCTimeMod
  CycleMod <- MCCycleMod
  UsPerMs <- MCUsPerMs
  Limits <- MCLimits
  MaxGap <- MCMaxGap
  MaxLatency <- MCMaxLatency
INVARIANT PinOnTimeBounded
