SPECIFICATION Spec
CONSTANTS
  Word = 8
  Denominator = 4
  NumContexts = 2
  InitialWindows <- AllWindows
  MaxDecisions = 7
INVARIANT DecodesWhatWasCoded
INVARIANT CarryHasRoom
INVARIANT CodeStaysInRange
INVARIANT ReadsOwnWords
CHECK_DEADLOCK FALSE
