SPECIFICATION FairSpec
CONSTANTS
  ByteSize = 2
  Powers = {0, 1}
  MinMatch = 2
  MaxData = 9
INVARIANT OneItemFollows
INVARIANT QueuesInStep
PROPERTY RoundTrips
CHECK_DEADLOCK FALSE
