SPECIFICATION Spec
CONSTANTS
    u1 = u1
    u2 = u2
    s1 = s1
    s2 = s2
    l1 = l1
    l2 = l2
    Uid <- MCUid
    Sock <- MCSock
    Slot <- MCSlot
    NoUid = NoUid
    NoSock = NoSock
    PoolSize = 2
    MaxEvents = 2
    MaxShared = 0
    ShareLimit = 1
    MaxResets = 1
    Ssl = TRUE
SYMMETRY Symmetry
INVARIANTS
    TypeOK
    PassFindsItsClients
    RegisteredIsLive
    OpenIsAccounted
    EventsInOrder
    IamAgrees
    
PROPERTIES
    ImplementsSessions
CHECK_DEADLOCK FALSE
