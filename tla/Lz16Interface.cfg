SPECIFICATION Spec
CONSTANTS
  EncodedLengths <- MCEncodedLengths
  Calls <- MCCalls
INVARIANTS
  SectionsFound
  NothingOverwritten
  EncoderInBuffer
  LosslessWithRoom
CHECK_DEADLOCK FALSE
