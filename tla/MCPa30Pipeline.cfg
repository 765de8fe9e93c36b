SPECIFICATION Spec
CONSTANTS
  Images <- MCImages
  CopyParts <- MCCopyParts
  MaxTargetSize = 1
  Words = 4
INVARIANTS ReturnsTargetOrRefuses ReconstructsUnlessExcused ManagedStateNeverDropped
CHECK_DEADLOCK FALSE
