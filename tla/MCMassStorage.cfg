SPECIFICATION Spec
CONSTANTS
    Configs <- MCConfigs
    Media <- MCMedia
    Max10 = 3
    MaxSessions = 2
    MaxChanges = 1
CHECK_DEADLOCK FALSE
INVARIANTS TypeOK EndpointsFound CapacityTrue
