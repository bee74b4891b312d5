SPECIFICATION OncePerWrapSpec
CONSTANTS
  RawMod <- MCRawMod
  TimeMod <- MCTimeMod
  CycleMod <- MCCycleMod
  MaxGap <- MCMaxGap
INVARIANT ClockIsTrue
