SPECIFICATION FairSpec
CONSTANTS
    c1 = c1
    c2 = c2
    Clients <- MCClients
    SendCap = 1
    BroadcastCap = 2
    MaxMsgs = 3
CHECK_DEADLOCK FALSE
INVARIANTS
    HubSound
PROPERTIES
    HubServed
