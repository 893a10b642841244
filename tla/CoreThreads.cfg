SPECIFICATION Spec
CONSTANTS
    Pid = {p1, p2}
    ReservedPid = {r1}
    NoPid = NoPid
    Interface = {i1}
    Action <- AllActions
    MaxThreads = 2
    MaxId = 2
    MaxSize = 2
    MaxQueue = 1
SYMMETRY Symmetry
CONSTRAINT Threading
INVARIANTS
    TypeOK
    NoMissedNotification
    SleepersListed
    OnlyToHandler
    DestroyedLast
