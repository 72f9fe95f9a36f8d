SPECIFICATION FairHistorySpec
CONSTANTS
    g1 = g1
    t1 = t1
    t2 = t2
    e1 = e1
    e2 = e2
    r1 = r1
    r2 = r2
    nobody = nobody
    nothing = nothing
    main = main
    nogw = nogw
    Groups = {g1}
    NoTransport = nobody
    NoState = nothing
    Main = main
    NoGateway = nogw
    Base <- One
    Step <- One
    Transports = {t1, t2}
    GroupOf <- PairGroupOf
    Index <- InOrder
    Priority <- InOrder
    UpThreshold <- Once
    DownThreshold <- Once
    Devices = {e1}
    Device <- SharedDevice
    Gateways <- SharedGateways
    LeaseMetric <- SoloLease
    MinHold <- One
    SaveEvery = 1
    MaxClock = 1
    MaxFaults = 1
    MaxForeign = 1
    MaxTrouble = 1
PROPERTIES
    ChurnStops
