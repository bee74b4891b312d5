SPECIFICATION MCFairSpec
CONSTANTS
  TimeMod = 20
  UsPerMs = 2
  MsMod = 16
  MAX_ON_MS = 4
  MinDelay = 1
  MaxDelay = 2
  MaxPrint = 1
  SAFE_PULSE_MS = 1
  Margin = 2
  Pause = 1
  LastPause = 2
  StatusEvery = 3
  PulseEvery = 10
  Boot = 18
  UsPerSec = 5
  Seconds = 3
  MaxGap = 2
  ResyncEvery = 0
  MaxCommands = 2
INVARIANTS
  ShownAsAnnounced
  WallFollowsRtc
PROPERTIES
  PulsesKeepTime
  CyclesKeepTime
  ClockComesToFollow
