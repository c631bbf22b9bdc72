SPECIFICATION Spec
CONSTANTS
  WORD32 = 32
  RANS64_L = 16
  prob_scale = 8
  Powers = {1, 2, 4, 8}
  SymbolCount = 3
  MaxLen = 5
INVARIANTS
  Normalised
  RoundTrip
PROPERTIES
  ReciprocalExact
CHECK_DEADLOCK FALSE
