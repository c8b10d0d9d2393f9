SPECIFICATION Spec
CONSTANTS
  Client = {c1, c2}
  MaxLen = 2
  MAX_NUM_CONNECTIONS = 4
  UIntMod = 8
  MayAbort = {}
  None = None
SYMMETRY Symmetry
INVARIANTS CurLenPositive
CHECK_DEADLOCK FALSE
