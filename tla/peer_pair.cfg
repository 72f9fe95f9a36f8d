SPECIFICATION FairHistorySpec
CONSTANTS
    g1 = g1
    g2 = g2
    t1 = t1
    t2 = t2
    a1 = a1
    a2 = a2
    none = none
    nobody = nobody
    nothing = nothing
    Groups = {g1}
    Transports = {t1, t2}
    NoTransport = nobody
    GroupOf <- PairGroupOf
    Index <- InOrder
    Priority <- InOrder
    UpThreshold <- Once
    DownThreshold <- Once
    MinHold <- Hold1
    MaxAge <- Age1
    Policy <- Keep
    Addresses = {a1, a2}
    NoAddr = none
    Specs <- Fixed
    Execs = {}
    NoState = nothing
    SaveEvery = 3
    MaxClock = 1
    MaxFaults = 1
INVARIANTS
    TypeOK
    DecisionIsCurrent
PROPERTIES
    UpgradesAreDamped
    BlockConverges
    WinnerSettles
