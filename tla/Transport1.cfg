SPECIFICATION FairSpec1
CONSTANTS
  STCP_MSS = 2
  SENDER_WINDOW = 3
  SeqMod = 5
  InitialSeqs = {0}
  WriteSizes = {2, 3}
  ReadSizes = {3}
  MaxWritten <- ThreeAndTwo
  Closers = {"active", "passive"}
  MayCrash = {}
INVARIANTS CloseInv WindowRespected AbortsAtEnd
PROPERTIES UncrossedCloseEnds DataDelivered ImplementsByteStream
CHECK_DEADLOCK FALSE
