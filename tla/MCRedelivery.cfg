\* One payout and two deliveries; no faults.
CONSTANTS
    p1 = p1
    p2 = p2
    p3 = p3
    k1 = k1
    k2 = k2
    cardBody = cardBody
    cryptoBody = cryptoBody
    wireBody = wireBody
    Null = Null
    PayoutIDs = {p1}
    Keys = {k1}
    Bodies <- OneBody
    RailOf <- RailOfOneBody
    canonicalHash <- HashOfOneBody
    Registry <- StripeRegistry
    Faults <- NoFaults
    Cancels = {}
    Updates = {u1, u2}
    DirectUpdates = FALSE
    HookFaults <- NoHookFaults
SYMMETRY DeliverySymmetry
SPECIFICATION HookSpec
INVARIANTS
    AcknowledgedIsApplied
\* Every request is answered once; then nothing is left to do.
CHECK_DEADLOCK FALSE
