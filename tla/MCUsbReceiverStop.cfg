SPECIFICATION Spec
CONSTANTS
    Objects = {o1, o2}
    Busids = {b1, b2}
    NumPorts = 2
    MaxListLen = 2
    MaxLists = 1
    None = None
CHECK_DEADLOCK FALSE
INVARIANT StopDetachesAll
