SPECIFICATION HistorySpec
CONSTANTS
    g1 = g1
    g2 = g2
    t1 = t1
    t2 = t2
    a1 = a1
    a2 = a2
    none = none
    nobody = nobody
    nothing = nothing
    Groups = {g1}
    Transports = {t1}
    NoTransport = nobody
    GroupOf <- SoloGroupOf
    Index <- SoloInOrder
    Priority <- SoloInOrder
    UpThreshold <- SoloOnce
    DownThreshold <- SoloTwice
    MinHold <- Hold0
    MaxAge <- Age1
    Policy <- Keep
    Addresses = {a1, a2}
    NoAddr = none
    Specs <- SoloFixed
    Execs = {}
    NoState = nothing
    SaveEvery = 2
    MaxClock = 3
    MaxFaults = 1
PROPERTIES
    RestartDoesNotLaunder
