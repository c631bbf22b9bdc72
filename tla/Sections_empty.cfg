SPECIFICATION Spec
CONSTANTS
  EncodedLengths <- MCEncodedLengths
  Calls <- EmptyCalls
INVARIANT EveryTableSums
CHECK_DEADLOCK FALSE
