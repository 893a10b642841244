SPECIFICATION Spec
CONSTANTS
  Pid = {p1, p2}
  ReservedPid = {r1}
  NoPid = NoPid
  Interface = {i1}
  Action <- NoActions
  MaxThreads = 2
  MaxId = 2
  MaxSize = 1
  MaxQueue = 1
INVARIANTS
  UsedHaveEntry
