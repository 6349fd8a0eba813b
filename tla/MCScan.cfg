SPECIFICATION ScanFairSpec
CONSTANTS
  CellCount = 2
  TapeSize = 18
  Tapes <- MCTapes
  Steps <- MCSteps
INVARIANTS
  ReadsOnTape
  PathSoFar
  ActsAsOneStep
PROPERTIES
  Returns
