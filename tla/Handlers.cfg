SPECIFICATION MCSpec
CONSTANTS
    d = d
    l = l
    Stream = {d, l}
    Listening = {l}
    SocketId = {1, 2}
    Port = {p}
    MaxIn <- OneByte
    MaxOut <- OneByte
    Sizes = {1}
    Buffer = 1
    None = None
CHECK_DEADLOCK FALSE
INVARIANTS
    
    OneOperation
    
    NothingForgotten
    GrantedIsHeld
