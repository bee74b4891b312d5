SPECIFICATION MCFairSpec
CONSTANTS
  RawMod <- MCRawMod
  TimeMod <- MCTimeMod
  CycleMod <- MCCycleMod
  MaxGap <- MCMaxGap
  MaxUs <- MCMaxUs
  Epochs <- MCEpochs
  MaxLines <- MCMaxLines
  UsPerMs <- MCUsPerMs
  MsMod <- MCMsMod
  UsPerSec <- MCUsPerSec
  SecPerMin <- MCSecPerMin
  MinPerHour <- MCMinPerHour
  HourPerDay <- MCHourPerDay
  LastInstant <- MCLastInstant
  FirstYear <- MCFirstYear
  LastYear <- MCLastYear
  WalkedYears <- MCWalkedYears
  Sizes <- MCSizes
  Threads = {scan, writer}
  Sinks = {serial, capture}
  Context <- MCContext
  Null = nullptr
  Quiet = TRUE
  arm = arm
  joint = joint
  tool = tool
  drive = drive
  servo = servo
  Devices <- MCDevices
  Root = arm
  Needs <- MCNeeds
  From <- MCFrom
  Wanted <- MCWanted
  Lists <- MCLists
  MountValues <- MCMountValues
  Grows <- MCGrows
  Hosts <- MCHosts
  MaxArgs = 32
  MaxItems = 2
  MaxCapacity = 3
  Decls <- MCDecls
  Mounts <- MCUnitMounts
  Chosen <- MCChosen
INVARIANTS
  ClockIsTrue
  StepsReconcileStamps
  MsDifferenceIsElapsed
  FormatsTheInstant
  CalledWithItsContext
  DescribedAsDeclared
  StartRightly
PROPERTIES
  DtIsTrueGap
  HeardByTheInstalled
  StartEnds
