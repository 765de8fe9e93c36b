SPECIFICATION Spec
CONSTANTS
  Images <- StampImages
  CopyParts <- MCCopyParts
  MaxTargetSize = 1
  Words = 4
INVARIANT OwnDeltaReconstructs
CHECK_DEADLOCK FALSE
