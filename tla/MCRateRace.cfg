\* Two requests at once; nothing fails.
CONSTANTS
    h1 = h1
    h2 = h2
    Handlers = {h1, h2}
    Rate = 3
    Burst = 2
    TTL = 845
    Faults = {}
    Step = 169
    MaxLag = 169
    MaxTime = 338
    MaxServed = 4
SPECIFICATION Spec
INVARIANTS
    AdmissionBounded
\* The clock and the number of requests are bounded.
CHECK_DEADLOCK FALSE
