\* More requests than connections, from start to exit.
SPECIFICATION FairSpec
CONSTANTS
    Requests = {r1, r2}
    MaxConns = 1
    MaxCalls = 2
INVARIANTS
    TypeOK
    ResourcesOutliveRequests
PROPERTY SignalStops
\* The process ends.
CHECK_DEADLOCK FALSE
