SPECIFICATION Spec
CONSTANTS
  TimeMod <- MCTimeMod
  UsPerMs <- MCUsPerMs
  MaxStep <- MCMaxStep
  Limits <- AnyLimits
PROPERTY FailedBeginIsOffline
