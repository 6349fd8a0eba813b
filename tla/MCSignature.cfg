SPECIFICATION MCSpec
CONSTANTS
  CellCount = 4
  TapeSize = 6
  RefSize = 6
  Node <- MCNode
  Programs <- MCPrograms
  Inputs <- MCInputs
  AllocMayFail = FALSE
  SignatureRoom = 4
  MultiplyMaxOffsets = 256
  ScanReturnPass = TRUE
  MaxNesting = 8
  ShortLength = 4
  Fuel = 150
INVARIANT OnlyFaultsFail
