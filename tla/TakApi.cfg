SPECIFICATION Spec
CONSTANTS
    m1 = m1 tm = tm k1 = k1 k2 = k2 a = a excheck = excheck
    p1 = p1 z1 = z1 c1 = c1 t1 = t1 t2 = t2 x1 = x1 x2 = x2 x3 = x3
    None = None
    NoData = NoData
    Apis = {https, http}
    Workers = {w1, w2}
    Missions <- MCMissions
    ClientMissions = {m1}
    TemplateMission = tm
    Clients <- MCClients
    ExCheckClient = excheck
    Contents <- MCContents
    Uids <- MCUids
    Data <- MCData
    Cots = {c1}
    ExtUids = {k1, k2}
    Templates = {t1, t2}
    Checklists <- MCChecklists
    Tasks <- MCTasks
    Loaded = {t1}
    Packages <- MCPackages
    InnerOf <- MCInnerOf
    TasksOf <- MCTasksOf
    HashLists <- MCHashLists
    MissionLists <- MCMissionLists
    Endpoints <- AllEndpoints
    MaxRequests = 3
    MaxVersion = 1
INVARIANTS
    TypeOK
    CreatedOnce
    RecordsAreBacked
    RecordedWhenQuiet
    MissionCotsResolve
    
    
CHECK_DEADLOCK FALSE
SYMMETRY ProcSymmetry
