SPECIFICATION MCSpec
CONSTANTS
  Half = 16
  Multiplied <- Tables
  Reversed <- Invertible
  Io2Rvas <- MCIo2Rvas
  PreprocessRifts <- MCPreprocessRifts
  PeRifts <- MCPeRifts
  CliRifts <- MCCliRifts
  RefLens = {1, 6}
  RowCounts = {2, 4}
  HeapMaps <- Heaps
  Rows = {1, 2, 3, 5}
  MaxSets = 3
INVARIANT ReturnsProduct
INVARIANT IntervalsApart
INVARIANT ReturnsInverse
INVARIANT ReducesToMajorities
INVARIANT CopiesFromOrigins
PROPERTY OperationsReturn
CHECK_DEADLOCK FALSE
