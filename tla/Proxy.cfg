SPECIFICATION FairSpec
CONSTANTS
  Client = {c1, c2}
  Requests <- MCRequests
  BufSize = 2
  MaxChunks = 2
  StaleEnds <- MCStaleEnds
  MayFail = {c1}
  MayLeave = {c1}
  MaxProcesses = 2
  None = None
  Keys <- MCKeys
  Values <- MCValues
  NULL = NULL
  DEFAULT_NHDRS = 2
INVARIANTS ProxyInv ReplyIsResponse SocketsReleased HeadersPassedOn
PROPERTIES CompleteIsServed
CHECK_DEADLOCK FALSE
