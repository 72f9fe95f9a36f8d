----------------------------- MODULE MCSupervision -----------------------------
EXTENDS Supervision
CONSTANTS w1, w2
const_One == [w \in {w1, w2} |-> 1]
const_Two == [w \in {w1, w2} |-> IF w = w1 THEN 4 ELSE 5]
\* With Interval <- const_Short, Longest = 3, MaxFaults = 0, Contention = 0,
\* MaxStops = 1 and TimeoutStopSec = 36, StopIsClean fails: a worker that is
\* overdue after every probe never looks at the flag.
const_Short == [w \in {w1} |-> 2]
=============================================================================
