SPECIFICATION FairSpec
CONSTANTS
  STCP_MSS = 1
  SENDER_WINDOW = 4
  SeqMod = 64
  InitialSeqs = {7}
  WriteSizes = {1, 2}
  ReadSizes = {1}
  MaxWritten <- TwoAndOne
  Closers = {"active"}
  MayCrash = {}
  GarbageWindows <- OpenGarbage

PROPERTIES CloseTerminates
CHECK_DEADLOCK FALSE
