-------------------------- MODULE PayoutProperties --------------------------
(***************************************************************************)
(* What PayoutService has to keep right.  Properties that need the absence *)
(* of a fault are checked where Faults leaves it out; the README says why. *)
(***************************************************************************)
EXTENDS PayoutService

Answered(r, code) == reply[r] # Null /\ reply[r].code = code

(***************************************************************************)
(* Idempotency.                                                            *)
(***************************************************************************)

\* A CreatePayout answered OK names the payout its key is bound to, and was
\* made with the body the key was bound with; AlreadyExists is only answered
\* when the key is bound with another body.  Hence two requests with one key
\* never get different payouts, whichever of them created it
\* (CreatePayout, the three branches after RunInTx).
AnswersAgreeWithKeys ==
    \A r \in Creates :
        /\ Answered(r, "OK") =>
              /\ Bound(key(r))
              /\ idempotency_keys[key(r)].payout_id = reply[r].payout
              /\ idempotency_keys[key(r)].request_hash = canonicalHash[body(r)]
        /\ Answered(r, "AlreadyExists") =>
              /\ Bound(key(r))
              /\ idempotency_keys[key(r)].request_hash # canonicalHash[body(r)]

\* A payout row exists iff exactly one key names it, and the key carries the
\* hash of that row's body: the optimistic INSERT of a losing request leaves
\* no row behind (errIdempotencyKeyExists and the rollback in RunInTx).
RowsAndKeysMatch ==
    /\ \A id \in PayoutIDs :
          Exists(id) <=> \E k \in Keys : Bound(k) /\ idempotency_keys[k].payout_id = id
    /\ \A k \in Keys : Bound(k) =>
          idempotency_keys[k].request_hash = canonicalHash[payouts[idempotency_keys[k].payout_id].body]
    /\ \A k, l \in Keys :
          Bound(k) /\ Bound(l) /\ idempotency_keys[k].payout_id = idempotency_keys[l].payout_id
             => k = l

\* Providers are called for the payout a key is bound to and for no other:
\* of all the requests that share a key, at most one ever sends money.
OneSenderPerKey ==
    \A r \in Creates : attempts[r] # <<>> =>
        /\ Bound(key(r))
        /\ idempotency_keys[key(r)] =
              [request_hash |-> canonicalHash[body(r)], payout_id |-> r]

(***************************************************************************)
(* Fallback.                                                               *)
(***************************************************************************)

\* The providers tried for a payout are those of its rail, in registration
\* order, each at most once; every try but the last failed with a retryable
\* error (the loop and the break of SendPayoutWithFallback).
FallbackFollowsRoute ==
    \A r \in Creates : attempts[r] # <<>> =>
        /\ Len(attempts[r]) <= Len(GetProviders(rail(r)))
        /\ \A i \in 1 .. Len(attempts[r]) :
              attempts[r][i].provider = GetProviders(rail(r))[i].provider
        /\ \A i \in 1 .. Len(attempts[r]) - 1 :
              attempts[r][i].outcome \in {"unavailable", "unknown"}

\* For one idempotency key at most one charge is open or paid over all
\* providers and payouts.  Needs that no provider executes a call whose
\* answer is lost.
LiveCharges(k) ==
    UNION {{<<r, p>> : p \in {q \in Provider : Live(r, q)}} :
              r \in {c \in Creates : req[c] # Null /\ key(c) = k}}

AtMostOneLiveCharge == \A k \in Keys : Cardinality(LiveCharges(k)) <= 1

\* Whatever else fails, the money of a key can only be sent twice through a call
\* whose answer was lost: if every provider call made for the payout a key is
\* bound to was answered, at most one charge is open or paid for the key, over
\* crashes, lost commits and statements, and losers that replay
\* (SendPayoutWithFallback behind the transaction of CreatePayout).
AnswersKnown(id) ==
    \A i \in 1 .. Len(attempts[id]) : attempts[id][i].outcome # "unknown"

PaidTwiceOnlyIfLost ==
    \A k \in Keys :
        Bound(k) /\ AnswersKnown(idempotency_keys[k].payout_id) =>
            Cardinality(LiveCharges(k)) <= 1

\* As long as the process lives, SuccessTracker has counted every provider
\* call exactly once, under its rail and provider, whatever the outcome and the
\* requests around it.  (The tracker's mutex makes a count one step; that it is
\* held is not what this checks.)
CallsTo(rl, p, ok) ==
    UNION {{<<r, i>> : i \in {j \in DOMAIN attempts[r] :
                                /\ attempts[r][j].provider = p
                                /\ (attempts[r][j].outcome = "ok") = ok}} :
              r \in {c \in Creates : attempts[c] # <<>> /\ rail(c) = rl}}

StatsCountCalls ==
    \A rl \in Rail, p \in Provider :
        /\ stats[<<rl, p>>].success = Cardinality(CallsTo(rl, p, TRUE))
        /\ stats[<<rl, p>>].fail = Cardinality(CallsTo(rl, p, FALSE))

(***************************************************************************)
(* Rows and charges.                                                       *)
(***************************************************************************)

\* The provider and external id of a row are those of the call that
\* succeeded for that very payout, and a payout in state "sent" has them:
\* the row can be found again when the provider reports (UpdatePayoutState
\* in sendPayoutWithOrchestrator, ApplyProviderUpdate, CancelPayout).
RowNamesItsCharge ==
    \A id \in PayoutIDs :
        /\ payouts[id].external_id # Null =>
              /\ payouts[id].external_id = <<payouts[id].provider, id>>
              /\ [provider |-> payouts[id].provider, outcome |-> "ok"]
                    \in {attempts[id][i] : i \in DOMAIN attempts[id]}
        /\ payouts[id].state = "sent" => payouts[id].external_id # Null

\* A payout is "completed" only when the provider named by its row has paid,
\* however late, doubled or reordered the notifications and cancellations.
CompletedMeansPaid ==
    \A id \in PayoutIDs : payouts[id].state = "completed" =>
        /\ payouts[id].provider # Null
        /\ charges[id][payouts[id].provider] = "succeeded"

\* A payout in state "failed" has no open or paid charge anywhere: the caller
\* may pay it by other means.  Needs that no answer of a provider is lost.
FailedMeansUnpaid ==
    \A id \in PayoutIDs : payouts[id].state = "failed" =>
        \A p \in Provider : ~Live(id, p)

\* No step takes a payout out of "completed": a cancel that read the row
\* before the provider reported, or a second notification, does not undo it.
CompletedIsFinal ==
    [][\A id \in PayoutIDs :
          payouts[id].state = "completed" => payouts'[id].state = "completed"]_vars

\* A canceled payout changes again only through the request that is still
\* sending it, or to the state its charge is really in (a notification that
\* overtook or followed the cancel).
CanceledReopensTruthfully ==
    [][\A id \in PayoutIDs :
          payouts[id].state = "canceled" /\ payouts'[id].state # "canceled"
             => \/ pc[id] \in {"record_sent", "record_failed"}
                \/ /\ payouts'[id].state = "completed"
                   /\ charges[id][payouts[id].provider] = "succeeded"
                \/ /\ payouts'[id].state = "failed"
                   /\ charges[id][payouts[id].provider] = "failed"]_vars

(***************************************************************************)
(* Progress.                                                               *)
(***************************************************************************)

\* Every request that reaches a handler is answered, unless the process stops:
\* no wait for a key lock, and no path through the fallback loop, lasts forever.
EveryRequestAnswered ==
    \A r \in Requests : pc[r] # "idle" ~> pc[r] \in {"done", "lost"}

\* A payout that was committed does not stay "created": it is recorded as
\* sent or failed, or canceled (no database fault, providers the schema knows),
\* unless the process stops before that.
CreatedIsResolved ==
    \A id \in PayoutIDs : Exists(id) ~> payouts[id].state # "created" \/ pc[id] = "lost"

(***************************************************************************)
(* The abstract specification.  The state is derived from the tables, the  *)
(* fallback history and the answers given.                                 *)
(***************************************************************************)
PayoutsSent == {id \in PayoutIDs : attempts[id] # <<>>}

AcceptedAnswers ==
    {<<key(r), canonicalHash[body(r)], reply[r].payout>> :
        r \in {c \in Creates : Answered(c, "OK")}}

RefusedAnswers ==
    {<<key(r), canonicalHash[body(r)]>> :
        r \in {c \in Creates : Answered(c, "AlreadyExists")}}

Abstract == INSTANCE IdempotentCreate WITH
    Key      <- Keys,
    Hash     <- {canonicalHash[b] : b \in Bodies},
    Payout   <- PayoutIDs,
    None     <- Null,
    meaning  <- idempotency_keys,
    sent     <- PayoutsSent,
    accepted <- AcceptedAnswers,
    refused  <- RefusedAnswers

\* CreatePayout, with its concurrency, faults and crashes, does nothing that
\* IdempotentCreate does not allow.
KeepsTheKeyPromise == Abstract!Spec

(***************************************************************************)
(* The abstract life of a payout.  Its charge is that of the provider the  *)
(* row names, from the moment the row has the external id.                 *)
(***************************************************************************)
ReferredProvider(id) ==
    IF payouts[id].external_id = Null THEN Null ELSE payouts[id].external_id[1]

ReferredCharge(id) ==
    IF payouts[id].external_id = Null THEN "none"
    ELSE charges[id][payouts[id].external_id[1]]

LifeCycle == INSTANCE PayoutLifeCycle WITH
    Payout   <- PayoutIDs,
    Provider <- Provider,
    None     <- Null,
    state    <- [id \in PayoutIDs |-> payouts[id].state],
    ref      <- [id \in PayoutIDs |-> ReferredProvider(id)],
    charge   <- [id \in PayoutIDs |-> ReferredCharge(id)]

\* Whatever handlers, faults and crashes do to a row, singly or against each
\* other, it lives the life PayoutLifeCycle describes: it is sent or given up
\* once, its reference never changes, it is never created again, and after a
\* settled charge it says what the charge says (all handlers that call
\* UpdatePayoutState or CancelPayoutIfCancelable).
FollowsTheLifeCycle == LifeCycle!Spec

(***************************************************************************)
(* The inductive invariant behind the theorems of PayoutServiceProofs.     *)
(***************************************************************************)
InTransaction == {"insert_key", "commit"}

Sending == {"send", "record_sent", "record_failed"}

\* Where a create request is determines whether its row exists and whether
\* its key is bound to it.
RequestInv ==
    \A r \in Creates :
        /\ pc[r] # "done" => reply[r] = Null
        /\ pc[r] # "idle" => req[r] # Null
        /\ pc[r] \in InTransaction \cup Sending \cup {"replay"} => rail(r) \in SchemaRails
        /\ pc[r] \in InTransaction \cup {"idle"} => ~Exists(r) /\ attempts[r] = <<>>
        /\ pc[r] \in Sending => Exists(r)
        /\ attempts[r] # <<>> => Exists(r) /\ rail(r) \in SchemaRails
        /\ Exists(r) =>
              /\ payouts[r].body = body(r)
              /\ idempotency_keys[key(r)] =
                    [request_hash |-> canonicalHash[body(r)], payout_id |-> r]

\* A bound key names a row of a request that was made with that key.
KeyInv ==
    \A k \in Keys : Bound(k) =>
        /\ Exists(idempotency_keys[k].payout_id)
        /\ key(idempotency_keys[k].payout_id) = k

\* A transaction at COMMIT is alone with its key, which nobody has bound.
LockInv ==
    \A r \in Creates : pc[r] = "commit" =>
        /\ ~Bound(key(r))
        /\ \A s \in Creates : pc[s] = "commit" /\ key(s) = key(r) => s = r

\* What a losing request read is what the key still means.
ReplayInv ==
    \A r \in Creates : pc[r] = "replay" =>
        Bound(key(r)) /\ existing[r] = idempotency_keys[key(r)]

\* A cancel or an update past its read has read a payout.
SeenInv ==
    \A c \in Cancels \cup Updates :
        /\ pc[c] \in {"cancel_provider", "cancel_db", "apply"} => seen[c] # Null
        /\ pc[c] = "cancel_provider" => seen[c].row.provider # Null

\* While the fallback loop runs, every try so far failed retryably and a
\* provider is left; it ends in "record_sent" only after a try.
RouteInv ==
    \A r \in Creates :
        /\ pc[r] = "send" =>
              /\ attempts[r] = <<>> \/ Len(attempts[r]) < Len(GetProviders(rail(r)))
              /\ \A i \in 1 .. Len(attempts[r]) : isRetryable(attempts[r][i].outcome)
        /\ pc[r] = "record_sent" => attempts[r] # <<>>

\* The conjunction that the handlers preserve: together it says that a key,
\* its row, the requests that use it and the money sent for it stay in step.
IndInv ==
    /\ TypeOK
    /\ RequestInv
    /\ KeyInv
    /\ LockInv
    /\ ReplayInv
    /\ SeenInv
    /\ AnswersAgreeWithKeys
    /\ RouteInv
    /\ FallbackFollowsRoute

(***************************************************************************)
(* Statements of the repository that the code does not keep.               *)
(***************************************************************************)

\* provider/errors.go:3-4: a retryable error may safely be retried (here: no
\* payout has more than one open or paid charge after a fallback).
RetryIsSafe ==
    \A id \in PayoutIDs : Cardinality({p \in Provider : Live(id, p)}) <= 1

\* payout_service_test.go:83 and deploy/configs/orchestrator-local.yaml:21:
\* mock_card is a provider a payout may be sent with.  When the send
\* succeeded and the request is over, the row says so.
AcceptedIsRecorded ==
    \A r \in Creates :
        pc[r] = "done" /\ attempts[r] # <<>> /\ attempts[r][Len(attempts[r])].outcome = "ok"
            => payouts[r].external_id # Null

=============================================================================
