-------------------------- MODULE GatewayProperties --------------------------
(***************************************************************************)
(* What the API service and the orchestrator have to keep right together:  *)
(* what a client may conclude from the answers it got.                     *)
(***************************************************************************)
EXTENDS Gateway, PayoutProperties

(***************************************************************************)
(* The promise of an idempotency key, now made by 202 and 409.  A 502 or   *)
(* no answer at all promises nothing.                                      *)
(***************************************************************************)
Accepted202 ==
    {<<key(r), canonicalHash[body(r)], reply[r].payout>> :
        r \in {c \in Creates : code[c] = 202}}

Refused409 ==
    {<<key(r), canonicalHash[body(r)]>> : r \in {c \in Creates : code[c] = 409}}

Promise == INSTANCE IdempotentCreate WITH
    Key      <- Keys,
    Hash     <- {canonicalHash[b] : b \in Bodies},
    Payout   <- PayoutIDs,
    None     <- Null,
    meaning  <- idempotency_keys,
    sent     <- PayoutsSent,
    accepted <- Accepted202,
    refused  <- Refused409

\* A client that retries with its key until it gets 202 or 409 deals with one
\* payout, paid for at most one request, whatever was lost, cut off or stopped
\* on the way (createPayoutHandlerWithClient).
HttpKeepsTheKeyPromise == Promise!Spec

\* What clients learn of a payout does not go back: a payout named in a 202
\* or shown by a GET is never answered 404 later; its provider's reference,
\* once shown, stays; a payout shown as completed stays completed, and one
\* shown in another state is not shown as created again (getPayoutHandler, on
\* top of every handler that writes the row, over stops and restarts).
ReadsDoNotGoBack ==
    [][\A id \in PayoutIDs :
          LET old == told[id]
              new == told'[id]
          IN /\ old # Null => new # NoRow
             /\ old \in Row /\ new \in Row =>
                   /\ old.external_id # Null =>
                         new.external_id = old.external_id /\ new.provider = old.provider
                   /\ old.state = "completed" => new.state = "completed"
                   /\ new.state = "created" => old.state = "created"]_allVars

\* A create on a known rail is answered 502 only when a fault met it or another
\* request with its key was in progress: a client that retries alone, after the
\* first call has ended, gets 202 or 409 (the replay branch of CreatePayout;
\* 40001, which nobody retries, needs a rival).
BadGatewayHasACause ==
    \A r \in Creates : code[r] = 502 => r \in disturbed \/ rail(r) \notin SchemaRails

\* A client that was shown "failed" may pay by other means, unless the answer of
\* a provider call made for its payout was lost: nothing is open or paid for it
\* then, nor later on.  Hence neither a cancel, a notification or a request with
\* its key that ran meanwhile, nor a caller that went away, has made the row say
\* so wrongly or left a call behind that still pays (getPayoutHandler, on top of
\* sendPayoutWithOrchestrator and every later write of the row).
ToldFailedIsUnpaid ==
    \A id \in PayoutIDs :
        AnswersKnown(id) /\ told[id] \in Row /\ told[id].state = "failed" =>
            \A p \in Provider : ~Live(id, p)

\* When the orchestrator has stopped gracefully, no payout is left behind as
\* created: each is recorded, unless its caller had gone or it was canceled;
\* and nobody still waits for an answer it could give (GracefulStop in main).
\* Needs that no statement fails of its own accord for a caller that is there,
\* and that the schema knows the active providers.
StoppedIsClean ==
    phase = "stopped" =>
        /\ \A id \in PayoutIDs : payouts[id].state = "created" => id \in gone
        /\ \A q \in Calls : http[q] = "await" => reply[q] # Null

\* A graceful stop ends, although it waits without a timeout: the calls in
\* progress finish, also those that wait for the key of another one.
DrainEnds == phase = "draining" ~> phase = "stopped"

=============================================================================
