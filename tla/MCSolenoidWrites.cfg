SPECIFICATION WSpec
CONSTANTS
  TimeMod <- MCTimeMod
  UsPerMs <- MCUsPerMs
  MaxStep <- MCMaxStep
  Limits <- MCLimits
INVARIANTS EnergizedSafeAtEveryWrite
PROPERTIES ObserversSeeItWhole WritesMakeTheHandlers
