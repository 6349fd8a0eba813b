SPECIFICATION MCSpec
CONSTANTS
  CellCount = 4
  MultiplyMaxOffsets = 256
  ScanReturnPass = TRUE
  MaxNesting = 8
  Programs <- MCPrograms
  AllocMayFail = TRUE
  MCLength = 5
  MCTape = 3
INVARIANTS
  JustifiedSoFar
  MeaningKept
  EndsOptimized
PROPERTY
  Optimizes
