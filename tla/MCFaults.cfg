\* Two create requests, a cancel and an update, also by UUID; every fault.
CONSTANTS
    p1 = p1
    p2 = p2
    p3 = p3
    k1 = k1
    k2 = k2
    cardBody = cardBody
    cryptoBody = cryptoBody
    wireBody = wireBody
    Null = Null
    PayoutIDs = {p1, p2}
    Keys = {k1, k2}
    Bodies <- TwoRails
    RailOf <- RailOfTwoRails
    canonicalHash <- HashOfTwoRails
    Registry <- CardRegistry
    Faults <- AllFaults
    Cancels = {c1}
    Updates = {u1}
    DirectUpdates = TRUE
SYMMETRY PayoutSymmetry
SPECIFICATION Spec
INVARIANTS
    IndInv
    RowsAndKeysMatch
    OneSenderPerKey
    PaidTwiceOnlyIfLost
\* Every request is answered once; then nothing is left to do.
CHECK_DEADLOCK FALSE
