\* One payout, two cancels and three provider updates; every fault.
CONSTANTS
    p1 = p1
    p2 = p2
    p3 = p3
    k1 = k1
    k2 = k2
    cardBody = cardBody
    cryptoBody = cryptoBody
    wireBody = wireBody
    Null = Null
    PayoutIDs = {p1}
    Keys = {k1}
    Bodies <- AllRails
    RailOf <- RailOfAllRails
    canonicalHash <- HashOfAllRails
    Registry <- LocalRegistry
    Faults <- AllFaults
    Cancels = {c1, c2}
    Updates = {u1, u2, u3}
    DirectUpdates = FALSE
SPECIFICATION Spec
INVARIANTS
    RowNamesItsCharge
    CompletedMeansPaid
PROPERTIES
    CompletedIsFinal
    CanceledReopensTruthfully
    FollowsTheLifeCycle
\* Every request is answered once; then nothing is left to do.
CHECK_DEADLOCK FALSE
