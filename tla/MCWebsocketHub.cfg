SPECIFICATION FairSpec
CONSTANTS
    c1 = c1
    c2 = c2
    NoClient = NoClient
    Clients = {c1, c2}
    Topics = {"asset:1", "asset:2"}
    SendCap = 1
    RegisterCap = 1
    UnregisterCap = 1
    BroadcastCap = 1
    MaxMessages = 2
INVARIANTS
    SubscriptionsAgree
    ChannelsUsedOpen
PROPERTIES
    DisconnectedClientsReleased
CHECK_DEADLOCK FALSE
