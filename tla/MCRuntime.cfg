SPECIFICATION MCSpec
CONSTANTS
  CellCount = 4
  TapeSize = 6
  RefSize = 6
  Node <- MCNode
  Programs <- MCPrograms
  Inputs <- MCInputs
  AllocMayFail = TRUE
  SignatureRoom = 8192
  MultiplyMaxOffsets = 256
  ScanReturnPass = TRUE
  MaxNesting = 8
  ShortLength = 4
  Fuel = 150
INVARIANTS
  TypeOK
  CallStackOK
  OnlyTheTapeIsTouched
  NonnullCounterIsNonzero
  IfBodiesRunOnce
  ProfileAddsUp
PROPERTIES
  MeansWhatItSays
  Terminates
