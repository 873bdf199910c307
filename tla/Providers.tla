----------------------------- MODULE Providers -----------------------------
(***************************************************************************)
(* The provider side of a payout: the registry and the fallback loop of    *)
(* internal/provider, the success tracker, the Stripe and mock clients,    *)
(* and (external) what the providers themselves do with a charge.          *)
(*                                                                         *)
(* One iteration of the loop of SendPayoutWithFallback is one step: the    *)
(* client call and the update of the (mutex protected) tracker after it.   *)
(* attempts[id] is the loop's TriedProviders with the outcome of each try; *)
(* it is kept after the loop ends, so that properties can speak of it.     *)
(***************************************************************************)
EXTENDS PayoutStore, Sequences, Naturals, FiniteSets

CONSTANTS
    Registry,      \* Registry[rail]: the registered providers, in order
    Faults         \* which faults may happen, a subset of Fault

VARIABLES
    stats,         \* SuccessTracker.stats
    attempts,      \* attempts[id]: the tries made for payout id, in order
    charges,       \* charges[id][p]: what provider p did with payout id
    events         \* events the providers have emitted, never forgotten

providerVars == <<stats, attempts, charges, events>>

(***************************************************************************)
(* "db": a statement fails, before or after it took effect.  "unknown": a  *)
(* provider executes a call and the answer is lost (timeout, cancelled     *)
(* context, connection reset).  "crash": the orchestrator process stops    *)
(* and is started again.                                                   *)
(***************************************************************************)
Fault == {"db", "unknown", "crash"}

Outcome == {"ok", "declined", "unavailable", "unknown"}

ChargeState == {"none", "accepted", "succeeded", "failed", "canceled"}

Attempt == [provider : Provider, outcome : Outcome]

Event == [ref    : ExternalID,
          status : {"payout_succeeded", "payout_failed", "payout_canceled"}]

Counter == [success : Nat, fail : Nat]

(***************************************************************************)
(* Registry.GetProviders: the active providers of a rail, in registration  *)
(* order.  RoutingPriority, the algorithm the server is built with, uses   *)
(* that order as it is.                                                    *)
(***************************************************************************)
GetProviders(rail) == SelectSeq(Registry[rail], LAMBDA e : e.active)

(***************************************************************************)
(* Registry.GetByProvider searches every rail, inactive entries included.  *)
(***************************************************************************)
GetByProvider(p) ==
    \E rail \in Rail : \E i \in DOMAIN Registry[rail] : Registry[rail][i].provider = p

(***************************************************************************)
(* main.go registers the providers of a rail once, from the configuration; *)
(* a provider listed twice for a rail is not considered.                   *)
(***************************************************************************)
ASSUME RegistryAssumption ==
    /\ Faults \subseteq Fault
    /\ DOMAIN Registry = Rail
    /\ \A rail \in Rail :
          /\ GetProviders(rail) \in Seq([provider : Provider, active : BOOLEAN])
          /\ \A i, j \in 1 .. Len(GetProviders(rail)) :
                GetProviders(rail)[i].provider = GetProviders(rail)[j].provider => i = j

ProvidersInit ==
    /\ stats = [rp \in Rail \X Provider |-> [success |-> 0, fail |-> 0]]
    /\ attempts = [id \in PayoutIDs |-> <<>>]
    /\ charges = [id \in PayoutIDs |-> [p \in Provider |-> "none"]]
    /\ events = {}

ProvidersTypeOK ==
    /\ stats \in [Rail \X Provider -> Counter]
    /\ attempts \in [PayoutIDs -> Seq(Attempt)]
    /\ charges \in [PayoutIDs -> [Provider -> ChargeState]]
    /\ events \subseteq Event

-----------------------------------------------------------------------------
(***************************************************************************)
(* The clients.  The mocks answer from the process itself and never fail   *)
(* as main.go builds them.  Stripe declines (card, invalid request or      *)
(* idempotency error), is unavailable (API error that survived the SDK's   *)
(* retries) or leaves the outcome unknown.                                 *)
(***************************************************************************)
IsMock(p) == p \in {"crypto_sim", "mock_card"}

Outcomes(p) ==
    IF IsMock(p) THEN {"ok"}
    ELSE {"ok", "declined", "unavailable"} \cup (Faults \cap {"unknown"})

isRetryable_DeclineRetried(out) == out # "ok"

(***************************************************************************)
(* classifyError and isRetryable: only a decline is terminal; an error     *)
(* that is not Stripe's own is passed through and counts as retryable.     *)
(***************************************************************************)
isRetryable(out) == out \in {"unavailable", "unknown"}

RecordOutcome_OnlyRetryableFailures(rail, p, out) ==
    stats' = IF out = "ok" THEN [stats EXCEPT ![<<rail, p>>].success = @ + 1]
             ELSE IF isRetryable(out) THEN [stats EXCEPT ![<<rail, p>>].fail = @ + 1]
             ELSE stats

(***************************************************************************)
(* RecordSuccess and RecordFailure.                                        *)
(***************************************************************************)
RecordOutcome(rail, p, out) ==
    stats' = IF out = "ok" THEN [stats EXCEPT ![<<rail, p>>].success = @ + 1]
                           ELSE [stats EXCEPT ![<<rail, p>>].fail = @ + 1]

(***************************************************************************)
(* External: the charge a call leaves behind at the provider, and the      *)
(* events it causes.  A declined PaymentIntent exists and has failed.      *)
(***************************************************************************)
ChargeOf(out) ==
    CASE out \in {"ok", "unknown"} -> "accepted"
      [] out = "declined"          -> "failed"
      [] out = "unavailable"       -> "none"

EventOf(id, p, status) == [ref |-> <<p, id>>, status |-> status]

Live(id, p) == charges[id][p] \in {"accepted", "succeeded"}

(***************************************************************************)
(* One iteration of the fallback loop: the next provider of the route is   *)
(* called and the tracker updated.                                         *)
(***************************************************************************)
NextProvider(id, rail) == GetProviders(rail)[Len(attempts[id]) + 1].provider

HasNextProvider(id, rail) == Len(attempts[id]) < Len(GetProviders(rail))

TryProvider(id, rail, p, out) ==
    /\ attempts' = [attempts EXCEPT ![id] =
          Append(@, [provider |-> p, outcome |-> out])]
    /\ RecordOutcome(rail, p, out)
    /\ charges' = [charges EXCEPT ![id][p] = ChargeOf(out)]
    /\ events' = IF out = "declined"
                 THEN events \cup {EventOf(id, p, "payout_failed")}
                 ELSE events

(***************************************************************************)
(* After the loop: the provider in use and its external id, or the last    *)
(* provider tried (none when the rail has no active provider).             *)
(***************************************************************************)
LastProvider_First(id) ==
    IF attempts[id] = <<>> THEN Null ELSE attempts[id][1].provider

LastProvider(id) ==
    IF attempts[id] = <<>> THEN Null ELSE attempts[id][Len(attempts[id])].provider

(***************************************************************************)
(* External: a provider settles an accepted charge and says so.  Only      *)
(* Stripe has asynchronous results; the mocks never emit events.           *)
(***************************************************************************)
Settle(id, p) ==
    /\ charges[id][p] = "accepted"
    /\ ~IsMock(p)
    /\ \/ /\ charges' = [charges EXCEPT ![id][p] = "succeeded"]
          /\ events' = events \cup {EventOf(id, p, "payout_succeeded")}
       \/ /\ charges' = [charges EXCEPT ![id][p] = "failed"]
          /\ events' = events \cup {EventOf(id, p, "payout_failed")}
    /\ UNCHANGED <<stats, attempts>>

(***************************************************************************)
(* Orchestrator.CancelPayout with the provider and external id the caller  *)
(* read.  An open charge is canceled; Stripe may also be unavailable.  It  *)
(* refuses any other charge, and a payout without an external id.  The     *)
(* error only reaches the caller's log.                                    *)
(***************************************************************************)
Cancelable(id, p, ext) ==
    /\ GetByProvider(p)
    /\ ext # Null \/ IsMock(p)
    /\ charges[id][p] = "accepted"

CancelAtProvider(id, p, ext) ==
    /\ \/ /\ Cancelable(id, p, ext)
          /\ charges' = [charges EXCEPT ![id][p] = "canceled"]
          /\ events' = IF IsMock(p) THEN events
                       ELSE events \cup {EventOf(id, p, "payout_canceled")}
       \/ /\ ~Cancelable(id, p, ext) \/ ~IsMock(p)
          /\ UNCHANGED <<charges, events>>
    /\ UNCHANGED <<stats, attempts>>

(***************************************************************************)
(* A restart forgets the tracker.                                          *)
(***************************************************************************)
ForgetStats ==
    /\ stats' = [rp \in Rail \X Provider |-> [success |-> 0, fail |-> 0]]
    /\ UNCHANGED <<attempts, charges, events>>

=============================================================================
