SPECIFICATION FairSpec
CONSTANTS
    c1 = c1
    c2 = c2
    NoClient = NoClient
    Clients = {c1}
    Topics = {"asset:1"}
    SendCap = 1
    RegisterCap = 1
    UnregisterCap = 1
    BroadcastCap = 1
    MaxMessages = 2
PROPERTY
    FullBufferUnregistered
CHECK_DEADLOCK FALSE
