SPECIFICATION FairSpec
CONSTANTS
    Devices = {d1}
    Injector = inj
    Urbs <- MCOneUrb
    MaxUrbs = 2
    MaxSessions = 1
PROPERTY StopReturns
