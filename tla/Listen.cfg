SPECIFICATION FairSpec
CONSTANTS
  Client = {c1, c2, c3}
  MaxLen = 2
  MAX_NUM_CONNECTIONS = 3
  UIntMod = 8
  MayAbort = {c1, c2, c3}
  None = None
INVARIANTS QueueInv QueueSound AcceptedInOrder NoLostWakeup ClosedCleanly
PROPERTIES EstablishedIsAccepted
CHECK_DEADLOCK FALSE
