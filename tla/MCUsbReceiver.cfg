SPECIFICATION Spec
CONSTANTS
    Objects = {o1, o2, o3, o4}
    Busids = {b1, b2}
    NumPorts = 2
    MaxListLen = 2
    MaxLists = 2
    None = None
SYMMETRY MCSymmetry
CHECK_DEADLOCK FALSE
INVARIANTS TypeOK PortsExclusive PortAccounting NoPortLeak 
