SPECIFICATION Spec
CONSTANTS
  B = 4
  N = 4
INVARIANTS SentIsValid SegmentChecked
CHECK_DEADLOCK FALSE
