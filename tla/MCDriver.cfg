SPECIFICATION Spec
CONSTANTS
  SourceFiles <- MCSourceSet
  WellFormed <- Balanced
  Parse <- ParseSource
  Optimize <- OptimizeBlock
  MultiplyStats <- MultiplyReport
  SegmentStats <- SegmentReport
  ControlStats <- ControlReport
  SignaturesFit <- ControlCollects
  CellCount = 4
  RefSize = 6
  MultiplyMaxOffsets = 256
  ScanReturnPass = FALSE
  MaxNesting = 8
  SignatureSize = 12
  ShortLength = 3
  Fuel = 400
INVARIANTS
  TypeOK
  NothingMisused
  NothingLeaks
  CodeIsReady
  ExitTellsFailure
  ConvertibleLoopsAreConverted
  EveryNodeIsReported
