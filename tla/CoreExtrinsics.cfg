SPECIFICATION FairSpec
CONSTANTS
  Pid = {p1, p2}
  ReservedPid = {r1}
  NoPid = NoPid
  Interface = {i1}
  Action <- AllActions
  MaxThreads = 1
  MaxId = 3
  MaxSize = 1
  MaxQueue = 1
INVARIANTS
  ResponseOnce
  ExtrinsicWaits
  RunQueueSound

  
  
