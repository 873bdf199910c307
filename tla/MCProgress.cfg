\* Two create requests on one key, a cancel and a delivery; calls and answers may be lost, the orchestrator may crash.
CONSTANTS
    p1 = p1
    p2 = p2
    p3 = p3
    k1 = k1
    k2 = k2
    cardBody = cardBody
    cryptoBody = cryptoBody
    wireBody = wireBody
    Null = Null
    PayoutIDs = {p1, p2}
    Keys = {k1}
    Bodies <- TwoRails
    RailOf <- RailOfTwoRails
    canonicalHash <- HashOfTwoRails
    Registry <- NoCryptoRegistry
    Faults <- LostAndCrash
    Cancels = {c1}
    Updates = {u1}
    DirectUpdates = FALSE
    HookFaults <- RpcFault
SPECIFICATION HookSpec
PROPERTIES
    EveryRequestAnswered
    CreatedIsResolved
    EveryDeliveryAnswered
\* Every request is answered once; then nothing is left to do.
CHECK_DEADLOCK FALSE
