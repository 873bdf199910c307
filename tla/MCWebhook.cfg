\* One payout, a cancel and three deliveries; every fault of the webhook service, crashes of the orchestrator.
CONSTANTS
    p1 = p1
    p2 = p2
    p3 = p3
    k1 = k1
    k2 = k2
    cardBody = cardBody
    cryptoBody = cryptoBody
    wireBody = wireBody
    Null = Null
    PayoutIDs = {p1}
    Keys = {k1}
    Bodies <- OneBody
    RailOf <- RailOfOneBody
    canonicalHash <- HashOfOneBody
    Registry <- StripeRegistry
    Faults <- CrashOnly
    Cancels = {c1}
    Updates = {u1, u2, u3}
    DirectUpdates = FALSE
    HookFaults <- AllHookFaults
SYMMETRY DeliverySymmetry
SPECIFICATION HookSpec
INVARIANTS
    HookTypeOK
    ForwardedAtMostOnce
    DropsAreReported
    AcknowledgedSuccessSticks
PROPERTIES
    ImplementsPayoutService
\* Every request is answered once; then nothing is left to do.
CHECK_DEADLOCK FALSE
