SPECIFICATION FairSpec
CONSTANTS
    Conns = {c1, c2}
    Fds = {3, 4}
    Devices = {d1}
    Requests = {"list", "heartbeat"}
    None = None
CHECK_DEADLOCK FALSE
INVARIANTS TypeOK ReadsOwnClient NoDescriptorLeak
PROPERTIES ClientReleased CloseReturns
