SPECIFICATION FairHistorySpec
CONSTANTS
    g1 = g1
    t1 = t1
    t2 = t2
    e1 = e1
    e2 = e2
    r1 = r1
    r2 = r2
    nobody = nobody
    nothing = nothing
    main = main
    nogw = nogw
    Groups = {g1}
    NoTransport = nobody
    NoState = nothing
    Main = main
    NoGateway = nogw
    Base <- One
    Step <- One
    Transports = {t1, t2}
    GroupOf <- PairGroupOf
    Index <- InOrder
    Priority <- InOrder
    UpThreshold <- Once
    DownThreshold <- Once
    Devices = {e1, e2}
    Device <- PairDevice
    Gateways <- PairGateways
    LeaseMetric <- PairLease
    MinHold <- Zero
    SaveEvery = 2
    MaxClock = 0
    MaxFaults = 1
    MaxForeign = 1
    MaxTrouble = 1
INVARIANTS
    WinnerHasEvidence
    RankedAfterApply
PROPERTIES
    NeverWithoutDefault
    OnlyMovesRoutes
    RoutesConverge
