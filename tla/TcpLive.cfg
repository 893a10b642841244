SPECIFICATION FairSpec
CONSTANTS
  d = d
  p = p
  Stream = {d}
  Listening = {}
  SocketId = {1}
  Port = {p}
  MaxIn <- ThreeBytes
  MaxOut <- ThreeBytes
  Sizes = {1, 2}
  Buffer = 1
  None = None
CHECK_DEADLOCK FALSE
INVARIANTS
    BytesInOrder
PROPERTIES
    BytesArrive
    DroppedTaskEnds
