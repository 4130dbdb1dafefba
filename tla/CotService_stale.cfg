SPECIFICATION Spec
CONSTANTS
    u1 = u1
    u2 = u2
    s1 = s1
    s2 = s2
    l1 = l1
    l2 = l2
    Uid <- MCUid
    Sock <- MCSock
    Slot <- OneSlot
    NoUid = NoUid
    NoSock = NoSock
    PoolSize = 2
    MaxEvents = 2
    MaxShared = 0
    ShareLimit = 1
    MaxResets = 0
    Ssl = FALSE
PROPERTIES
    DisconnectsOnlyTheGone
CHECK_DEADLOCK FALSE
