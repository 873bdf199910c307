---------------------------- MODULE PayoutStore ----------------------------
(***************************************************************************)
(* The orchestrator's two PostgreSQL tables and the queries of             *)
(* persistence/sqlcgen/queries.sql.go, as PayoutRepo and IdempotencyRepo   *)
(* of persistence/postgres call them.                                      *)
(*                                                                         *)
(* A query is one atomic step.  An operator that names a query states what *)
(* the statement does when the server executes it; the guards say when it  *)
(* is accepted (the CHECK and UNIQUE constraints of db/migrations) or      *)
(* returns a row.  A request body (amount, currency, rail) is opaque but   *)
(* for its rail.  timestamps are left out: nothing reads them.             *)
(***************************************************************************)

CONSTANTS
    PayoutIDs,      \* payouts.id: what gen_random_uuid() may return
    Keys,           \* Idempotency-Key values
    Bodies,         \* request bodies: amount, currency and rail
    RailOf,         \* RailOf[b]: the rail named in body b
    canonicalHash,  \* canonicalHash[b]: request_hash of body b
    Null            \* SQL NULL

VARIABLES
    payouts,           \* table payouts, by id
    idempotency_keys   \* table idempotency_keys, by key

storeVars == <<payouts, idempotency_keys>>

PayoutState == {"created", "queued", "pending", "processing",
                "completed", "sent", "failed", "canceled"}

Rail == {"card", "crypto"}

Provider == {"stripe", "crypto_sim", "mock_card"}

(***************************************************************************)
(* What a provider calls its side of payout id.  Stripe's "pi_..." and the *)
(* mocks' "mock-ext-<id>" are both one name per provider and payout.       *)
(***************************************************************************)
ExternalID == Provider \X PayoutIDs

(***************************************************************************)
(* CHECK (rail IN ...) and CHECK (provider IN ...) of the migrations.  The *)
(* provider check dates from the first migration and was never extended.   *)
(***************************************************************************)
SchemaRails == {"card", "crypto"}

SchemaProviders == {"stripe", "crypto_sim"}

NoRow == [state |-> "absent", body |-> Null,
          provider |-> Null, external_id |-> Null]

Row == [state       : PayoutState \cup {"absent"},
        body        : Bodies \cup {Null},
        provider    : Provider \cup {Null},
        external_id : ExternalID \cup {Null}]

Binding == [request_hash : {canonicalHash[b] : b \in Bodies},
            payout_id    : PayoutIDs]

(***************************************************************************)
(* SHA-256 of the canonical body is modelled as an injective function.  No *)
(* provider's reference is a UUID.                                         *)
(***************************************************************************)
ASSUME StoreAssumption ==
    /\ Null \notin PayoutIDs \cup Bodies \cup Provider \cup ExternalID \cup Binding
    /\ PayoutIDs \cap ExternalID = {}
    /\ DOMAIN RailOf = Bodies
    /\ DOMAIN canonicalHash = Bodies
    /\ \A b, c \in Bodies : canonicalHash[b] = canonicalHash[c] => b = c

StoreInit ==
    /\ payouts = [id \in PayoutIDs |-> NoRow]
    /\ idempotency_keys = [k \in Keys |-> Null]

StoreTypeOK ==
    /\ payouts \in [PayoutIDs -> Row]
    /\ idempotency_keys \in [Keys -> Binding \cup {Null}]

(***************************************************************************)
(* SELECTs.                                                                *)
(***************************************************************************)
Exists(id) == payouts[id].state # "absent"

Bound(k) == idempotency_keys[k] # Null

FindByExternalID(ref) == {id \in PayoutIDs : payouts[id].external_id = ref}

(***************************************************************************)
(* The transaction of CreatePayout, at COMMIT: the payout row in state     *)
(* "created" with no provider, and the key that names it.                  *)
(***************************************************************************)
CommitPayoutAndKey(id, k, b) ==
    /\ payouts' = [payouts EXCEPT ![id] =
          [state |-> "created", body |-> b,
           provider |-> Null, external_id |-> Null]]
    /\ idempotency_keys' = [idempotency_keys EXCEPT ![k] =
          [request_hash |-> canonicalHash[b], payout_id |-> id]]

(***************************************************************************)
(* UPDATE payouts SET state, external_id, provider WHERE id: whatever the  *)
(* current state is.  The server refuses a provider outside the CHECK and  *)
(* an external_id another row holds (UNIQUE).                              *)
(***************************************************************************)
UpdateAccepted(id, ext, prov) ==
    /\ Exists(id)
    /\ prov \in SchemaProviders \cup {Null}
    /\ ext # Null => FindByExternalID(ext) \subseteq {id}

UpdatePayoutState_ReferenceOfSend(id, state, ext, prov) ==
    /\ payouts' = [payouts EXCEPT ![id] =
          [@ EXCEPT !.state = state, !.provider = prov,
                    !.external_id = IF state = "sent" THEN ext ELSE Null]]
    /\ UNCHANGED idempotency_keys

UpdatePayoutState(id, state, ext, prov) ==
    /\ payouts' = [payouts EXCEPT ![id] =
          [@ EXCEPT !.state = state, !.external_id = ext, !.provider = prov]]
    /\ UNCHANGED idempotency_keys

(***************************************************************************)
(* UPDATE ... SET state = 'canceled' WHERE id AND state = ANY(cancelable). *)
(***************************************************************************)
cancelableStates_NotFinal == {"created", "queued", "sent", "pending", "failed"}

cancelableStates == {"created", "queued", "sent", "pending"}

CancelPayoutIfCancelable_Unconditional(id) ==
    /\ payouts' = [payouts EXCEPT ![id].state = "canceled"]
    /\ UNCHANGED idempotency_keys

CancelPayoutIfCancelable_UnsentFails(id) ==
    /\ payouts[id].state \in cancelableStates
    /\ payouts' = [payouts EXCEPT ![id].state =
          IF payouts[id].provider = Null THEN "failed" ELSE "canceled"]
    /\ UNCHANGED idempotency_keys

CancelPayoutIfCancelable(id) ==
    /\ payouts[id].state \in cancelableStates
    /\ payouts' = [payouts EXCEPT ![id].state = "canceled"]
    /\ UNCHANGED idempotency_keys

=============================================================================
