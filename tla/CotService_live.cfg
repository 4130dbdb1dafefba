SPECIFICATION FairSpec
CONSTANTS
    u1 = u1
    u2 = u2
    s1 = s1
    s2 = s2
    l1 = l1
    l2 = l2
    Uid <- OneUid
    Sock <- MCSock
    Slot <- OneSlot
    NoUid = NoUid
    NoSock = NoSock
    PoolSize = 2
    MaxEvents = 1
    MaxShared = 1
    ShareLimit = 1
    MaxResets = 0
    Ssl = FALSE
PROPERTIES
    GoneIsRemoved
    BacklogIsServed
    LoopTurns
CHECK_DEADLOCK FALSE
