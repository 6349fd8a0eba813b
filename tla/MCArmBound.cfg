SPECIFICATION MCSpec
CONSTANTS
  CellCount = 4
  TapeSize = 18
  RefSize = 18
  Node <- MCNode
  Programs <- MCPrograms
  Inputs <- MCInputs
  Scopes <- Cleared
  BaseHint = 64
  MinCodeSize = 1024
  MaxImm = 12
  MaxBack = 4
  MultiplyMaxOffsets = 256
  ScanReturnPass = TRUE
  MaxNesting = 8
  ShortLength = 4
  Fuel = 400
INVARIANT
  OnlyFaultsFail
