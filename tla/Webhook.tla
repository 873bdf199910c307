------------------------------ MODULE Webhook ------------------------------
(***************************************************************************)
(* The webhook service (services/webhook) between Stripe and the           *)
(* orchestrator of PayoutService: StripeWebhookHandler.ServeHTTP, the      *)
(* deduplication keys in Redis and the call of ApplyProviderUpdate.        *)
(*                                                                         *)
(* A delivery is one POST of an event by Stripe.  It makes at most one     *)
(* ApplyProviderUpdate call, so the delivery and that call share a name.   *)
(* Stripe delivers an event at least once, in any order, several           *)
(* deliveries of one event possibly at the same time; a POST it did not    *)
(* sign is answered 400 before anything is read and is not modelled.       *)
(* One step is one call to Redis or to the orchestrator.                   *)
(***************************************************************************)
EXTENDS PayoutService

CONSTANTS
    HookFaults     \* which faults may happen here, a subset of HookFault

VARIABLES
    hook,          \* hook[d]: what delivery d does next
    event,         \* event[d]: the Stripe event delivery d carries
    status,        \* status[d]: the HTTP status delivery d was answered with
    dedup,         \* events whose key "webhook:event:<id>" is in Redis
    expiring,      \* those of them whose key has a TTL
    expired        \* events whose key has expired at some time (history)

hookVars == <<hook, event, status, dedup, expiring, expired>>

allVars == <<vars, hookVars>>

Deliveries == Updates

(***************************************************************************)
(* "redis": a command fails, before or after it took effect.  "rpc": the   *)
(* call does not reach the orchestrator, or its answer is lost.  "expiry": *)
(* a key outlives its TTL and is gone while Stripe still redelivers.       *)
(* "hookcrash": the webhook process stops.                                 *)
(***************************************************************************)
HookFault == {"redis", "rpc", "expiry", "hookcrash"}

HookLabel == {"idle", "setnx", "expire", "forward", "await", "answered", "lost"}

ASSUME HookAssumption ==
    /\ HookFaults \subseteq HookFault
    /\ Null \notin {200, 500}

(***************************************************************************)
(* EventParser: the Stripe types that have a normalized type.              *)
(***************************************************************************)
mapEventType_CanceledFails ==
    [payment_intent_succeeded      |-> "payout_succeeded",
     payment_intent_payment_failed |-> "payout_failed",
     payment_intent_canceled       |-> "payout_failed"]

mapEventType ==
    [payment_intent_succeeded      |-> "payout_succeeded",
     payment_intent_payment_failed |-> "payout_failed",
     payment_intent_canceled       |-> "payout_canceled"]

Supported(e) == e.type \in DOMAIN mapEventType

Parse(e) == [ref |-> e.ref, status |-> mapEventType[e.type]]

(***************************************************************************)
(* External: what Stripe delivers.  An event's identity is its             *)
(* PaymentIntent and its type, which says what became of the charge; a     *)
(* charge also causes events of other types.                               *)
(***************************************************************************)
StripeMeaning ==
    [payment_intent_succeeded      |-> "payout_succeeded",
     payment_intent_payment_failed |-> "payout_failed",
     payment_intent_canceled       |-> "payout_canceled"]

StripeEvent == [ref  : ExternalID,
                type : DOMAIN StripeMeaning \cup {"payment_intent_created"}]

Emitted ==
    {e \in StripeEvent :
        IF e.type \in DOMAIN StripeMeaning
        THEN [ref |-> e.ref, status |-> StripeMeaning[e.type]] \in events
        ELSE e.ref[1] = "stripe" /\ charges[e.ref[2]]["stripe"] # "none"}

HookTypeOK ==
    /\ hook \in [Deliveries -> HookLabel]
    /\ event \in [Deliveries -> StripeEvent \cup {Null}]
    /\ status \in [Deliveries -> {200, 500} \cup {Null}]
    /\ dedup \subseteq StripeEvent
    /\ expiring \subseteq dedup
    /\ expired \subseteq StripeEvent

HookInit ==
    /\ Init
    /\ hook = [d \in Deliveries |-> "idle"]
    /\ event = [d \in Deliveries |-> Null]
    /\ status = [d \in Deliveries |-> Null]
    /\ dedup = {}
    /\ expiring = {}
    /\ expired = {}

Proceed(d, label) ==
    /\ hook' = [hook EXCEPT ![d] = label]
    /\ UNCHANGED status

Write(d, code) ==
    /\ hook' = [hook EXCEPT ![d] = "answered"]
    /\ status' = [status EXCEPT ![d] = code]

-----------------------------------------------------------------------------
(***************************************************************************)
(* Verify and parse; an unsupported type is acknowledged and ignored.      *)
(***************************************************************************)
Deliver(d) ==
    /\ hook[d] = "idle"
    /\ \E e \in Emitted :
          /\ event' = [event EXCEPT ![d] = e]
          /\ \/ Supported(e) /\ Proceed(d, "setnx")
             \/ ~Supported(e) /\ Write(d, 200)
    /\ UNCHANGED <<vars, dedup, expiring, expired>>

(***************************************************************************)
(* IsProcessed: SETNX.  A key that was there means a duplicate.            *)
(***************************************************************************)
SetNX_NotStored(d) ==
    /\ hook[d] = "setnx"
    /\ event[d] \notin dedup
    /\ Proceed(d, "expire")
    /\ UNCHANGED <<vars, event, dedup, expiring, expired>>

SetNX(d) ==
    /\ hook[d] = "setnx"
    /\ event[d] \notin dedup
    /\ dedup' = dedup \cup {event[d]}
    /\ Proceed(d, "expire")
    /\ UNCHANGED <<vars, event, expiring, expired>>

Duplicate(d) ==
    /\ hook[d] = "setnx"
    /\ event[d] \in dedup
    /\ Write(d, 200)
    /\ UNCHANGED <<vars, event, dedup, expiring, expired>>

DedupFails(d) ==
    /\ "redis" \in HookFaults
    /\ hook[d] = "setnx"
    /\ dedup' \in {dedup, dedup \cup {event[d]}}
    /\ Write(d, 500)
    /\ UNCHANGED <<vars, event, expiring, expired>>

(***************************************************************************)
(* IsProcessed: EXPIRE, whose result nobody looks at.                      *)
(***************************************************************************)
Expire(d) ==
    /\ hook[d] = "expire"
    /\ \/ expiring' = expiring \cup ({event[d]} \cap dedup)
       \/ "redis" \in HookFaults /\ UNCHANGED expiring
    /\ Proceed(d, "forward")
    /\ UNCHANGED <<vars, event, dedup, expired>>

(***************************************************************************)
(* forwardToOrchestrator: the orchestrator starts on the call, or the call *)
(* does not get there.                                                     *)
(***************************************************************************)
Forward(d) ==
    /\ hook[d] = "forward"
    /\ BeginApply(d, Parse(event[d]))
    /\ Proceed(d, "await")
    /\ UNCHANGED <<event, dedup, expiring, expired>>

NotReached(d) ==
    /\ "rpc" \in HookFaults
    /\ hook[d] = "forward"
    /\ Write(d, 500)
    /\ UNCHANGED <<vars, event, dedup, expiring, expired>>

(***************************************************************************)
(* The call returns.  Any error, the orchestrator's or gRPC's own (it      *)
(* crashed, the answer was lost), is answered 500.                         *)
(***************************************************************************)
Respond_IgnoresError(d) ==
    /\ hook[d] = "await"
    /\ pc[d] \in {"done", "lost"}
    /\ Write(d, 200)
    /\ UNCHANGED <<vars, event, dedup, expiring, expired>>

Respond_OnlyOK(d) ==
    /\ hook[d] = "await"
    /\ pc[d] = "done" /\ reply[d].code = "OK"
    /\ Write(d, 200)
    /\ UNCHANGED <<vars, event, dedup, expiring, expired>>

Respond_Accepted(d) ==
    /\ hook[d] = "await"
    /\ \/ pc[d] = "done" /\ reply[d].code = "OK" /\ Write(d, 202)
       \/ pc[d] = "done" /\ reply[d].code # "OK" /\ Write(d, 500)
       \/ pc[d] = "lost" /\ Write(d, 500)
    /\ UNCHANGED <<vars, event, dedup, expiring, expired>>

Respond(d) ==
    /\ hook[d] = "await"
    /\ \/ pc[d] = "done" /\ reply[d].code = "OK" /\ Write(d, 200)
       \/ pc[d] = "done" /\ reply[d].code # "OK" /\ Write(d, 500)
       \/ pc[d] = "lost" /\ Write(d, 500)
       \/ "rpc" \in HookFaults /\ Write(d, 500)
    /\ UNCHANGED <<vars, event, dedup, expiring, expired>>

HookStep(d) ==
    \/ SetNX(d) \/ Duplicate(d) \/ DedupFails(d)
    \/ Expire(d) \/ Forward(d) \/ NotReached(d) \/ Respond(d)

(***************************************************************************)
(* External: Redis drops a key whose TTL has passed.                       *)
(***************************************************************************)
KeyExpires ==
    /\ "expiry" \in HookFaults
    /\ \E e \in expiring :
          /\ dedup' = dedup \ {e}
          /\ expiring' = expiring \ {e}
          /\ expired' = expired \cup {e}
    /\ UNCHANGED <<vars, hook, event, status>>

HookCrash ==
    /\ "hookcrash" \in HookFaults
    /\ \E d \in Deliveries : hook[d] \notin {"idle", "answered", "lost"}
    /\ hook' = [d \in Deliveries |->
          IF hook[d] \in {"idle", "answered"} THEN hook[d] ELSE "lost"]
    /\ UNCHANGED <<vars, event, status, dedup, expiring, expired>>

(***************************************************************************)
(* The orchestrator and its other callers go on; ApplyProviderUpdate is    *)
(* only called by the webhook service.                                     *)
(***************************************************************************)
ServiceStep ==
    /\ \/ \E r \in Creates :
             \/ \E k \in Keys, b \in Bodies : BeginCreate(r, k, b)
             \/ CreateStep(r)
       \/ \E c \in Cancels :
             \/ \E id \in PayoutIDs : BeginCancel(c, id)
             \/ CancelStep(c)
       \/ \E u \in Updates : ApplyUpdate(u)
       \/ ProviderSettles
       \/ Crash
    /\ UNCHANGED hookVars

HookNext ==
    \/ \E d \in Deliveries : Deliver(d) \/ HookStep(d)
    \/ KeyExpires
    \/ HookCrash
    \/ ServiceStep

HookFairness ==
    /\ \A r \in Creates : WF_allVars(CreateStep(r) /\ UNCHANGED hookVars)
    /\ \A c \in Cancels : WF_allVars(CancelStep(c) /\ UNCHANGED hookVars)
    /\ \A u \in Updates : WF_allVars(ApplyUpdate(u) /\ UNCHANGED hookVars)
    /\ \A d \in Deliveries : WF_allVars(HookStep(d))

HookSpec == HookInit /\ [][HookNext]_allVars /\ HookFairness

=============================================================================
