SPECIFICATION Spec
CONSTANTS
  Item = {a, b}
  maxlen = 3
INVARIANTS
  TypeOK
  IndexInv
PROPERTIES
  ImplementsFifo
