SPECIFICATION Spec
CONSTANTS
  STCP_MSS = 2
  SENDER_WINDOW = 2
  SeqMod = 10
  InitialSeqs = {7}
  WriteSizes = {1, 3}
  ReadSizes = {1}
  MaxWritten <- ThreeAndOne
  Closers = {"active", "passive"}
  MayCrash = {"active"}
  GarbageWindows <- NoneOrAll
INVARIANTS InOrder EofComplete StreamInv
PROPERTIES ImplementsByteStream
CHECK_DEADLOCK FALSE
