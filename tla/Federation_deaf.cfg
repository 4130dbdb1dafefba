SPECIFICATION Spec
CONSTANTS
    Roles = {"client"}
    Feds = {f1}
    Conns = {c1, c2}
    Users = {}
    None = None
    MaxOf <- DeafMaxOf
    MaxInputs = 5
PROPERTIES
    DataIsReceived
CHECK_DEADLOCK FALSE
