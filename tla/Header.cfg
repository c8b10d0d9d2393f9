SPECIFICATION TableSpec
CONSTANTS
  Keys = {k1, k2}
  Values = {v1, v2}
  NULL = NULL
  DEFAULT_NHDRS = 2
  NoValue = NoValue
  MaxSlots = 5
INVARIANTS OneSlotPerKey SlotLeft
PROPERTIES ImplementsHeaderMap
CHECK_DEADLOCK FALSE
