SPECIFICATION Spec
CONSTANTS
    Roles = {"client", "server"}
    Feds = {f1}
    Conns = {c1, c2}
    Users = {u1}
    None = None
    MaxOf <- MCMaxOf
    MaxInputs = 5
INVARIANTS
    TypeOK
    FederatesAreWatched
    
    DeliveredInOrder

    
CHECK_DEADLOCK FALSE
