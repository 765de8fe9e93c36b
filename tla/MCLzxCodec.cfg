SPECIFICATION FairSpec
CONSTANTS
  Bytes = {0, 1}
  References <- MCReferences
  Rifts <- MCRifts
  Targets <- MCTargets
  MaxTarget = 6
  OffsetBias = 2
  MaxRawDistance = 6
  MaxMatch = 5
  SegmentSize = 2
  MaxSegments = 3
INVARIANT TablesInStep
INVARIANT LruInStep
INVARIANT SourceCopyIsSingleSegment
PROPERTY RoundTrips
CHECK_DEADLOCK FALSE
