SPECIFICATION FairSpec
CONSTANTS
    Devices = {d1, d2}
    None = None
CHECK_DEADLOCK FALSE
INVARIANTS TypeOK ListedReady HandlesOwned TakenDownInOrder
PROPERTIES StopReturns ArrivalsTried
