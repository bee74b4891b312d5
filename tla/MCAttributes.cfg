SPECIFICATION MCFairSpec
CONSTANTS
  out = out
  term = term
  coilPin = coilPin
  label = label
  toTerm = toTerm
  toLabel = toLabel
  toPin = toPin
  once = once
  termOnce = termOnce
  watcher = watcher
  Null = Null
  Attrs <- MCAttrs
  Roots <- MCRoots
  Hooks <- MCHooks
  Source <- MCSource
  Behaviour <- MCBehaviour
  Target <- MCTarget
  Type <- MCType
  Values <- MCValues
  NarrowMod <- MCNarrowMod
  M8 <- MCM8
  M16 <- MCM16
  M32 <- MCM32
  FloatExact <- MCFloatExact
  Length <- MCLength
  Reals <- MCReals
  Texts <- MCTexts
  Chars <- MCChars
  MaxLen = 4
  Capacity <- MCCapacity
  DefaultText <- MCDefaultText
  Enum <- MCEnum
  MaxArgs = 4
INVARIANTS
  WellFormed
  LinkedValuesAgree
  NumbersArrive
  TextsArrive
  WordsTakenApart
PROPERTIES
  EveryHookOnceInOrder
  WritesEnd
