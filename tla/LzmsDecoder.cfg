SPECIFICATION FairSpec
CONSTANTS
  ByteSize = 3
  Offsets = {1, 3}
  Powers = {0, 1}
  Lengths = {1, 4, 7}
  Sizes = {0, 1, 6, 7}
  MaxSize = 6
INVARIANT StaysInBuffer
PROPERTY DoublingRepeats
CHECK_DEADLOCK FALSE
