\* Two create requests on one key, a cancel, an update, reads; lost calls, callers that go away, stops and restarts.
CONSTANTS
    p1 = p1
    p2 = p2
    p3 = p3
    k1 = k1
    k2 = k2
    cardBody = cardBody
    cryptoBody = cryptoBody
    wireBody = wireBody
    Null = Null
    PayoutIDs = {p1, p2}
    Keys = {k1}
    Bodies <- TwoRails
    RailOf <- RailOfTwoRails
    canonicalHash <- HashOfTwoRails
    Registry <- NoCryptoRegistry
    Faults <- CallerGone
    CalmFaults <- AnswerLost
    Losable = {p1, c1}
    Impatient = {p1, c1}
    Cancels = {c1}
    Updates = {u1}
    DirectUpdates = FALSE
    Watched = {p1}
SPECIFICATION GateSpec
INVARIANTS
    GateTypeOK
    BadGatewayHasACause
    StoppedIsClean
    ToldFailedIsUnpaid
PROPERTIES
    HttpKeepsTheKeyPromise
    ReadsDoNotGoBack
    DrainEnds
\* Every request is answered once; then nothing is left to do.
CHECK_DEADLOCK FALSE
