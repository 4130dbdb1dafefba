SPECIFICATION FairSpec
CONSTANTS
    tcp = tcp
    ssl = ssl
    rest = rest
    c1 = c1
    c2 = c2
    m1 = m1
    m2 = m2
    NoBody = NoBody
    Svc <- MCSvc
    Src <- MCSrc
    Client <- TwoClients
    Home <- TwoAtTcp
    Msg <- MCMsg
    Body <- MCBody
INVARIANTS
    TypeOK
    SharedWasDelivered
    FirstCopiesInOrder
    CopiesBounded
PROPERTIES
    EveryServiceTakesIt
CHECK_DEADLOCK FALSE
