CONSTANTS
    Future = {f1, f2, f3}
    ClockValue = {2, 3, 4}
    ClockZero = 1
    MaxTsc = 5
    MaxDrops = 1
    Processors <- ProcessorsMC
    TimerBases = {"zero"}
    Second = 3
    BootMaxTsc = 17
    MaxU16 = 3
    MaxTicks = 10
    MemoryMaps <- MemoryMapsMC
    ToAvoid <- ToAvoidMC
    Megabyte = 3
    None = None
SPECIFICATION MCSpec
INVARIANT UnresponsiveOnly
CHECK_DEADLOCK FALSE
