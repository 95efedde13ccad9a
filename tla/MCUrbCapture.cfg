SPECIFICATION FairSpec
CONSTANTS
    Devices = {d1}
    Injector = inj
    Urbs <- MCUrbs
    MaxUrbs = 2
    MaxSessions = 2
INVARIANTS TypeOK NothingLost StoppedMeansJoined StatisticsAgree
PROPERTIES ImplementsChannel EveryUrbDelivered
