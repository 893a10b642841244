SPECIFICATION FairSpec
CONSTANTS
    ld = ld
    cl = cl
    h1 = h1
    h2 = h2
    net = net
    time = time
    None = None
    Startup = {ld, cl}
    Program = {h1, h2}
    Main <- TwoMain
    Native <- TwoNatives
    Provides <- ProvidesDef
    Emits <- EmitsDef
    MayRegister <- MayRegisterDef
    MayUse <- MayUseDef
    MaxId = 4
CHECK_DEADLOCK FALSE
INVARIANTS
    LoaderPidSound
    LoadedOnce
    
    

    
