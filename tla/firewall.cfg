SPECIFICATION FairHistorySpec
CONSTANTS
    old = old
    new = new
    bare = bare
    off = off
    absent = absent
    emptied = emptied
    nofile = nofile
    Gens = {old, new, bare}
    Guarded = {old, new}
    Off = off
    Absent = absent
    Emptied = emptied
    NoFile = nofile
    MaxDeploys = 2
    MaxMeddling = 1
    MaxFaults = 2
INVARIANTS
    ConfirmedIsKept
PROPERTIES
    RefinesSwitch
    NeverUnfirewalled
    RejectedStaysOut
    Repaired
    WindowCloses
