\* Three create requests on two keys, a cancel and an update; no faults.
CONSTANTS
    p1 = p1
    p2 = p2
    p3 = p3
    k1 = k1
    k2 = k2
    cardBody = cardBody
    cryptoBody = cryptoBody
    wireBody = wireBody
    Null = Null
    PayoutIDs = {p1, p2, p3}
    Keys = {k1, k2}
    Bodies <- TwoRails
    RailOf <- RailOfTwoRails
    canonicalHash <- HashOfTwoRails
    Registry <- LocalRegistry
    Faults <- NoFaults
    Cancels = {c1}
    Updates = {u1, u2}
    DirectUpdates = FALSE
SYMMETRY PayoutSymmetry
SPECIFICATION Spec
INVARIANTS
    TypeOK
    AnswersAgreeWithKeys
    AtMostOneLiveCharge
    FailedMeansUnpaid
    StatsCountCalls
    FallbackFollowsRoute
PROPERTIES
    KeepsTheKeyPromise
\* Every request is answered once; then nothing is left to do.
CHECK_DEADLOCK FALSE
