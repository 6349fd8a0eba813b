SPECIFICATION MCSpec
CONSTANTS
  CellCount = 4
  TapeSize = 18
  RefSize = 18
  Node <- MCNode
  Programs <- MCPrograms
  Inputs <- MCInputs
  Scopes <- Cleared
  BaseHint = 64
  MinCodeSize = 1024
  TailsToo = FALSE
  MultiplyMaxOffsets = 256
  ScanReturnPass = FALSE
  MaxNesting = 8
  ShortLength = 2
  Fuel = 400
INVARIANT ErrorsAreReported
