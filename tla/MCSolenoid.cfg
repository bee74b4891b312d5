SPECIFICATION FairSpec
CONSTANTS
  TimeMod <- MCTimeMod
  UsPerMs <- MCUsPerMs
  MaxStep <- MCMaxStep
  Limits <- AnyLimits
INVARIANTS
  TypeOK
  EnergizedOnlineUnfaulted
  ErroredIffFault
  NoStaleEnergize
  MeasuredTimeIsTrue
PROPERTIES
  TimerNeverRestarts
  ReportedExactlyWhenLatched
  PrecedenceKeptByHandlers
  ImplementsGuard
  CoilIsReleased
