CONSTANTS
    Workers = {w1, w2}
    NoWorker = NoWorker
    Never = Never
    SaveEvery = 2
    ShowEvery = 1
    Ttl = 2
    MaxVersion = 3
    MaxFaults = 1
SPECIFICATION FairSpec
INVARIANTS
    NothingIsDropped
    GreenIsRecent
PROPERTIES
    FilesLag
    CatchesUp
