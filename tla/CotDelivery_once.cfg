SPECIFICATION Spec
CONSTANTS
    tcp = tcp
    ssl = ssl
    rest = rest
    c1 = c1
    c2 = c2
    m1 = m1
    m2 = m2
    NoBody = NoBody
    Svc <- MCSvc
    Src <- MCSrc
    Client <- TwoClients
    Home <- TwoAtTcp
    Msg <- OneMsg
    Body <- MCBody
INVARIANTS
    AtMostOnce
CHECK_DEADLOCK FALSE
