CONSTANTS
    w1 = w1
    w2 = w2
    Workers = {w1, w2}
    Interval <- const_Two
    Longest = 3
    WatchdogSec = 4
    TimeoutStartSec = 6
    TimeoutStopSec = 6
    Timeout <- const_One
    Slack = 2
    MinTtl = 3
    Coalescing = 2
    Contention = 1
    MaxFaults = 2
    MaxStops = 1
SPECIFICATION FairSpec
INVARIANTS
    HangsAreCut
    StatusStaysValid
PROPERTIES
    WellIsNotKilled
    ProbedForEver
