SPECIFICATION Spec
CONSTANTS
    g1 = g1
    g2 = g2
    t1 = t1
    t2 = t2
    a1 = a1
    a2 = a2
    none = none
    nobody = nobody
    nothing = nothing
    Groups = {g1, g2}
    Transports = {t1, t2}
    NoTransport = nobody
    GroupOf <- SplitGroupOf
    Index <- InOrder
    Priority <- InOrder
    UpThreshold <- Once
    DownThreshold <- Once
    MinHold <- TwoHold0
    MaxAge <- TwoAges
    Policy <- KeepAndDrop
    Addresses = {a1, a2}
    NoAddr = none
    Specs <- SplitEdited
    Execs = {t1}
    NoState = nothing
    SaveEvery = 2
    MaxClock = 1
    MaxFaults = 1
INVARIANTS
    RenderedIsCurrent
    BlockIsIntent
