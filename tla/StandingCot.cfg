SPECIFICATION Spec
CONSTANTS
    c1 = c1 tcp = tcp ssl = ssl
    Worker = {w1, w2}
    Svc = {tcp, ssl}
    Client = {c1}
    Home <- MCHome
    Emergency = {e1}
    Geo = {g1}
    Cot = {m1}
    Reach <- MCReach
    NoReq = NoReq
    MaxStimuli = 3
INVARIANTS
    TypeOK
    StoresAreExact
    
CHECK_DEADLOCK FALSE
SYMMETRY WorkerSymmetry
