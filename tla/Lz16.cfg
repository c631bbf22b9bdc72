SPECIFICATION Spec
CONSTANTS
  Inputs <- MCInputs
  Levels = {1, 2, 3, 4}
  Hash <- MCHash
  HashSizes = {1, 3, 1000}
  MYMATCHOFFSET_MAX = 24
INVARIANTS
  TablesBehind
  BlockLossless
  InsideBuffers
CHECK_DEADLOCK FALSE
