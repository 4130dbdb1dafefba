SPECIFICATION Spec
CONSTANTS
    c1 = c1
    c2 = c2
    u1 = u1
    u2 = u2
    p1 = p1
    v1 = v1
    v2 = v2
    None = None
    Conn <- MCConn
    Uid <- MCUid
    WinTak <- MCWinTak
    Point <- MCPoint
    Version <- MCVersion
    Cap = 2
    MaxEvents = 1
INVARIANTS
    NoGhosts
CHECK_DEADLOCK FALSE
