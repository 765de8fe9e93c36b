SPECIFICATION FairSpec
CONSTANTS
  Bytes <- MCBytes
  References <- MCReferences
  Rifts <- MCRifts
  TargetSizes = {0, 3, 4}
  RawOffsets <- MCRawOffsets
  MatchLengths = {2, 3, 5}
  OffsetBias = 2
INVARIANT PositionTracksOutput
INVARIANT ProvenanceIsTrue
PROPERTY ReanchorsEveryByte
PROPERTY Returns
PROPERTY ImplementsDeltaBuffer
CHECK_DEADLOCK FALSE
