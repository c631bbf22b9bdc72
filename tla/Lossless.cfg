SPECIFICATION Spec
CONSTANTS
  EncodedLengths <- MCEncodedLengths
  Calls <- RetryCalls
INVARIANT Lossless
CHECK_DEADLOCK FALSE
