SPECIFICATION FairSpec
CONSTANTS
    ip1 = ip1
    ip2 = ip2
    NoProc = NoProc
    Ip <- MCIp
    DefaultIp = ip1
    Asks <- MCAsks
    MaxStarts = 3
    MaxCmds = 2
    MaxCrashes = 1
INVARIANTS
    TypeOK
    
    
    NoStaleAnswer
PROPERTIES
    RequestIsAnswered
CHECK_DEADLOCK FALSE
