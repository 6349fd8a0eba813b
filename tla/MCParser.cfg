SPECIFICATION FairSpec
CONSTANTS
  CellCount = 4
  Sources <- MCSources
  FirstCapacity = 1
  AllocMayFail = TRUE
  MCLength = 5
INVARIANTS
  BlocksFitTheirArrays
  ArraysOwnedOnce
  BlocksAreCanonical
  BuiltFromSource
  AnswersRightly
  BuildsParseSource
PROPERTY
  Answers
