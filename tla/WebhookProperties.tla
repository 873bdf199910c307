------------------------- MODULE WebhookProperties -------------------------
(***************************************************************************)
(* What the webhook service and the orchestrator have to keep right        *)
(* together.                                                               *)
(***************************************************************************)
EXTENDS Webhook, PayoutProperties

\* The orchestrator has started on delivery d's call.
Forwarded(d) == pc[d] # "idle"

Applied(d) == pc[d] = "done" /\ reply[d].code = "OK"

Acknowledged(d) == status[d] = 200 /\ Supported(event[d])

\* However often Stripe delivers an event, and however many deliveries run at
\* once, the orchestrator is called at most once for it, unless its key
\* expired while Stripe still redelivered (SETNX in IsProcessed).
ForwardedAtMostOnce ==
    \A d, f \in Deliveries :
        Forwarded(d) /\ Forwarded(f) /\ event[d] = event[f]
            => d = f \/ event[d] \in expired

\* An event Stripe was told to forget (200) was applied, or the delivery that
\* took its key is still at work, was answered 500 or was lost in a crash: no
\* event is dropped without a trace (the error paths of ServeHTTP).
DropsAreReported ==
    \A d \in Deliveries : Acknowledged(d) =>
        \E f \in Deliveries :
            /\ event[f] = event[d]
            /\ \/ Applied(f)
               \/ hook[f] \in {"expire", "forward", "await", "lost"}
               \/ status[f] = 500

\* Once a delivery of "payout_succeeded" is acknowledged because it was
\* applied, the payout is "completed" and stays so, whatever cancellations,
\* redeliveries, crashes and late writes of the sending request follow.
AcknowledgedSuccessSticks ==
    \A d \in Deliveries :
        status[d] = 200 /\ Applied(d) /\ event[d].type = "payment_intent_succeeded"
            => payouts[event[d].ref[2]].state = "completed"

\* Every delivery that arrives is answered, whatever the orchestrator says
\* (no crash of the webhook service).
EveryDeliveryAnswered ==
    \A d \in Deliveries : hook[d] # "idle" ~> hook[d] = "answered"

\* With the webhook service as the caller of ApplyProviderUpdate the
\* orchestrator does nothing that PayoutService does not allow: only what a
\* provider has emitted reaches it.
ImplementsPayoutService == Init /\ [][Next]_vars

\* docs/demo.md:162-163: retries are deduplicated and at-least-once delivery
\* is safe: an acknowledged event has been applied, or is being forwarded.
AcknowledgedIsApplied ==
    \A d \in Deliveries : Acknowledged(d) =>
        \E f \in Deliveries :
            /\ event[f] = event[d]
            /\ Applied(f) \/ hook[f] \in {"expire", "forward", "await"}

=============================================================================
