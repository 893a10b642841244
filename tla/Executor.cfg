CONSTANTS
    r1 = r1
    r2 = r2
    d1 = d1
    d2 = d2
    Remote <- MCRemote
    Device <- MCDevice
    ArmSource = {s1, s2, s3}
    NoOne = NoOne
SPECIFICATION MCSpec
INVARIANTS
    NoSleepOnEvent
PROPERTIES
    ImplementsEventLoop
    ArmImplementsEventLoop
