\* A create request; Stripe may execute a call and its answer be lost.
CONSTANTS
    p1 = p1
    p2 = p2
    p3 = p3
    k1 = k1
    k2 = k2
    cardBody = cardBody
    cryptoBody = cryptoBody
    wireBody = wireBody
    Null = Null
    PayoutIDs = {p1}
    Keys = {k1}
    Bodies <- TwoRails
    RailOf <- RailOfTwoRails
    canonicalHash <- HashOfTwoRails
    Registry <- LocalRegistry
    Faults <- AnswerLost
    Cancels = {}
    Updates = {}
    DirectUpdates = FALSE
SYMMETRY PayoutSymmetry
SPECIFICATION Spec
INVARIANTS
    RetryIsSafe
\* Every request is answered once; then nothing is left to do.
CHECK_DEADLOCK FALSE
