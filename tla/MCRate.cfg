\* One request at a time; any Redis call may fail.
CONSTANTS
    h1 = h1
    h2 = h2
    Handlers = {h1}
    Rate = 3
    Burst = 2
    TTL = 845
    Faults = {"redis", "expire"}
    Step = 169
    MaxLag = 169
    MaxTime = 1183
    MaxServed = 4
SPECIFICATION Spec
INVARIANTS
    TypeOK
    AdmissionBounded
    RefusedOnlyWhenSpent
\* The clock and the number of requests are bounded.
CHECK_DEADLOCK FALSE
