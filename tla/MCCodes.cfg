SPECIFICATION Spec
CONSTANTS
  MaxCodewordLen = 2
  WordBits = 4
  RebuildFreq = 4
  Sentinel = 9
  OutputSizes = {1, 2, 4, 9}
  Offsets = {1, 3, 6}
  MaxValues = 8
  MaxLen = 4
  MaxRun = 7
  Formats <- MCFormats
  MaxHashLen = 33
  Deltas <- MCDeltas
  MaxCodeLen = 16
  MaxSegments = 4
  RawOffsets <- MCRawOffsets
  MatchLengths <- MCMatchLengths
  IntBits = 16
  MaxItems = 3
  StreamItems <- MCStreamItems
  Half = 16
  RiftBits = 5
  Byte = 16
  NumBytes = 2
  MinMatch = 0
  BsSources <- MCBsSources
  BsTargets <- MCBsTargets
  Procs = {"p1", "p2"}
  Builds = {"a", "b"}
  MaxRuns = 3
  ByteValues = 16
  WideBytes = 2
  HalfBytes = 1
  IdWindow = 9
  MaxTranslation = 9
  TailLen = 5
  Call = 1
  Jump = 2
  RexOr4 = 3
  Rex = 4
  Group = 8
  Lock = 10
  Lea = 6
  Load = 7
  Indirect = 9
  AddImm = 11
  RipModRm = 5
  LeaModRms = {5, 13}
  LoadModRms = {5}
  CodeBuffers <- MCCodeBuffers
PROPERTY RebuildsForItsWindow
INVARIANT ContentsArrive
INVARIANT ReadsTheMatch
INVARIANT TakesWhatWasPut
INVARIANT DiffRebuilds
PROPERTY BlocksAdvance
INVARIANT FilterUndoes
INVARIANT EnvelopeArrives
INVARIANT FormatArrives
INVARIANT ManifestsGetTheirBase
CHECK_DEADLOCK FALSE
