SPECIFICATION Spec
CONSTANTS
  SymbolCount = 4
  target_total = 16384
  Counts <- MCCounts
  Lengths = {100, 16384, 65536}
  Edges = {0, 1, 2, 63, 64, 252, 256, 16383, 16384}
INVARIANTS
  StealSucceeds
  TableSound
  SameTable
CHECK_DEADLOCK FALSE
