SPECIFICATION ValueSpec
CONSTANTS
  M8 <- MCM8
  M16 <- MCM16
  M32 <- MCM32
  FloatExact <- MCFloatExact
  Length <- MCTwo
  Reals <- MCReals
  Texts <- MCTexts
INVARIANT EveryNumberSurvivesLinks
