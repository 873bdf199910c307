--------------------------- MODULE PayoutService ---------------------------
(***************************************************************************)
(* PayoutServiceServer of internal/grpc: the handlers CreatePayout,        *)
(* CancelPayout and ApplyProviderUpdate, any number of them in progress at *)
(* once, over the tables of PayoutStore and the providers of Providers.    *)
(*                                                                         *)
(* A handler runs in a goroutine of its own; it is interrupted only where  *)
(* it talks to PostgreSQL or to a provider, so one step is one such call   *)
(* and the code up to the next one.  A create request is named by the UUID *)
(* its INSERT would generate: request r stores payout r or none.           *)
(*                                                                         *)
(* RunInTx is SERIALIZABLE: a transaction reads the snapshot taken at its  *)
(* first statement, its inserts are invisible until COMMIT, and an INSERT  *)
(* of a key that another open transaction holds waits for that one to end. *)
(***************************************************************************)
EXTENDS Providers

CONSTANTS
    Cancels,        \* CancelPayout requests
    Updates,        \* ApplyProviderUpdate requests
    DirectUpdates   \* TRUE: callers may also name a payout by its UUID

Creates == PayoutIDs

Requests == Creates \cup Cancels \cup Updates

ASSUME RequestAssumption ==
    /\ Creates \cap Cancels = {}
    /\ Creates \cap Updates = {}
    /\ Cancels \cap Updates = {}
    /\ DirectUpdates \in BOOLEAN

VARIABLES
    pc,         \* pc[r]: the call request r makes next
    req,        \* req[r]: idempotency key and body of create request r
    visible,    \* visible[r]: r's snapshot holds its key
    existing,   \* existing[r]: the binding TryInsertIdempotencyKey found
    seen,       \* seen[c]: the payout c read, and the state it will write
    reply       \* reply[r]: the gRPC status and response of r

localVars == <<req, visible, existing, seen>>

vars == <<storeVars, providerVars, pc, localVars, reply>>

Label == {"idle", "insert_key", "commit", "send", "record_sent",
          "record_failed", "replay", "cancel_provider", "cancel_db",
          "apply", "done", "lost"}

Code == {"OK", "AlreadyExists", "NotFound", "FailedPrecondition",
         "InvalidArgument", "Internal"}

CreateRequest == [key : Keys, body : Bodies]

Reply == [code   : Code,
          payout : PayoutIDs \cup {Null},
          status : PayoutState \cup {Null}]

Observation == [id : PayoutIDs, row : Row, to : PayoutState]

ASSUME LocalsAssumption == Null \notin CreateRequest \cup Reply \cup Observation

TypeOK ==
    /\ StoreTypeOK
    /\ ProvidersTypeOK
    /\ pc \in [Requests -> Label]
    /\ req \in [Creates -> CreateRequest \cup {Null}]
    /\ visible \in [Creates -> BOOLEAN]
    /\ existing \in [Creates -> Binding \cup {Null}]
    /\ seen \in [Cancels \cup Updates -> Observation \cup {Null}]
    /\ reply \in [Requests -> Reply \cup {Null}]

Init ==
    /\ StoreInit
    /\ ProvidersInit
    /\ pc = [r \in Requests |-> "idle"]
    /\ req = [r \in Creates |-> Null]
    /\ visible = [r \in Creates |-> FALSE]
    /\ existing = [r \in Creates |-> Null]
    /\ seen = [c \in Cancels \cup Updates |-> Null]
    /\ reply = [r \in Requests |-> Null]

Goto(r, label) ==
    /\ pc' = [pc EXCEPT ![r] = label]
    /\ UNCHANGED reply

Answer(r, code, id, status) ==
    /\ pc' = [pc EXCEPT ![r] = "done"]
    /\ reply' = [reply EXCEPT ![r] =
          [code |-> code, payout |-> id, status |-> status]]

DbMayFail == "db" \in Faults

key(r) == req[r].key

body(r) == req[r].body

rail(r) == RailOf[body(r)]

-----------------------------------------------------------------------------
(***************************************************************************)
(* CreatePayout: the transaction.                                          *)
(*                                                                         *)
(* BEGIN and INSERT INTO payouts, which takes the snapshot and is refused  *)
(* for a rail outside the CHECK.  A missing key or hash is answered        *)
(* InvalidArgument before that and changes nothing: not modelled.          *)
(***************************************************************************)
BeginCreate(r, k, b) ==
    /\ pc[r] = "idle"
    /\ req' = [req EXCEPT ![r] = [key |-> k, body |-> b]]
    /\ visible' = [visible EXCEPT ![r] = Bound(k)]
    /\ \/ /\ RailOf[b] \in SchemaRails
          /\ Goto(r, "insert_key")
       \/ /\ RailOf[b] \notin SchemaRails \/ DbMayFail
          /\ Answer(r, "Internal", Null, Null)
    /\ UNCHANGED <<storeVars, providerVars, existing, seen>>

(***************************************************************************)
(* INSERT INTO idempotency_keys ... ON CONFLICT DO NOTHING.  The row lock  *)
(* of an uncommitted insert of the same key makes it wait.                 *)
(***************************************************************************)
LockFree(k) == \A s \in Creates : pc[s] = "commit" => key(s) # k

InsertKey_Upsert(r) ==
    /\ pc[r] = "insert_key"
    /\ LockFree(key(r))
    /\ Goto(r, "commit")
    /\ UNCHANGED <<storeVars, providerVars, localVars>>

InsertKey(r) ==
    /\ pc[r] = "insert_key"
    /\ LockFree(key(r))
    /\ ~Bound(key(r))
    /\ Goto(r, "commit")
    /\ UNCHANGED <<storeVars, providerVars, localVars>>

(***************************************************************************)
(* The key is in the snapshot: nothing is inserted, the existing binding   *)
(* is read in the same transaction and the payout's INSERT rolled back.    *)
(***************************************************************************)
FindKey_RowKept(r) ==
    /\ pc[r] = "insert_key"
    /\ Bound(key(r))
    /\ visible[r]
    /\ existing' = [existing EXCEPT ![r] = idempotency_keys[key(r)]]
    /\ payouts' = [payouts EXCEPT ![r] = [NoRow EXCEPT !.state = "created", !.body = body(r)]]
    /\ Goto(r, "replay")
    /\ UNCHANGED <<idempotency_keys, providerVars, req, visible, seen>>

FindKey_NotRead(r) ==
    /\ pc[r] = "insert_key"
    /\ Bound(key(r))
    /\ visible[r]
    /\ Answer(r, "Internal", Null, Null)
    /\ UNCHANGED <<storeVars, providerVars, localVars>>

FindKey(r) ==
    /\ pc[r] = "insert_key"
    /\ Bound(key(r))
    /\ visible[r]
    /\ existing' = [existing EXCEPT ![r] = idempotency_keys[key(r)]]
    /\ Goto(r, "replay")
    /\ UNCHANGED <<storeVars, providerVars, req, visible, seen>>

(***************************************************************************)
(* The key was committed after the snapshot: PostgreSQL can neither insert *)
(* it nor show it and raises 40001.  RunInTx rolls back, the handler       *)
(* answers Internal; there is no retry.                                    *)
(***************************************************************************)
SerializationFailure_RetriedInTx(r) ==
    /\ pc[r] = "insert_key"
    /\ Bound(key(r))
    /\ ~visible[r]
    /\ UNCHANGED vars

SerializationFailure(r) ==
    /\ pc[r] = "insert_key"
    /\ Bound(key(r))
    /\ ~visible[r]
    /\ Answer(r, "Internal", Null, Null)
    /\ UNCHANGED <<storeVars, providerVars, localVars>>

(***************************************************************************)
(* COMMIT.  With a database fault the server may have committed although   *)
(* the handler sees an error.                                              *)
(***************************************************************************)
CommitTx(r) ==
    /\ pc[r] = "commit"
    /\ CommitPayoutAndKey(r, key(r), body(r))
    /\ \/ Goto(r, "send")
       \/ DbMayFail /\ Answer(r, "Internal", Null, Null)
    /\ UNCHANGED <<providerVars, localVars>>

(***************************************************************************)
(* The branch after errIdempotencyKeyExists: a different request_hash is a *)
(* conflict, the same one returns the payout as it is now.                 *)
(***************************************************************************)
Replay_IgnoresHash(r) ==
    /\ pc[r] = "replay"
    /\ Answer(r, "OK", existing[r].payout_id,
              payouts[existing[r].payout_id].state)
    /\ UNCHANGED <<storeVars, providerVars, localVars>>

Replay(r) ==
    /\ pc[r] = "replay"
    /\ \/ /\ existing[r].request_hash # canonicalHash[body(r)]
          /\ Answer(r, "AlreadyExists", Null, Null)
       \/ /\ existing[r].request_hash = canonicalHash[body(r)]
          /\ Exists(existing[r].payout_id)
          /\ Answer(r, "OK", existing[r].payout_id,
                    payouts[existing[r].payout_id].state)
       \/ /\ existing[r].request_hash = canonicalHash[body(r)]
          /\ ~Exists(existing[r].payout_id) \/ DbMayFail
          /\ Answer(r, "Internal", Null, Null)
    /\ UNCHANGED <<storeVars, providerVars, localVars>>

(***************************************************************************)
(* A statement of the transaction fails and the server did nothing.        *)
(***************************************************************************)
TxFails(r) ==
    /\ DbMayFail
    /\ pc[r] \in {"insert_key", "commit"}
    /\ Answer(r, "Internal", Null, Null)
    /\ UNCHANGED <<storeVars, providerVars, localVars>>

-----------------------------------------------------------------------------
(***************************************************************************)
(* CreatePayout: sendPayoutWithOrchestrator.                               *)
(***************************************************************************)
SendPayout_GoesOn(r) ==
    /\ pc[r] = "send"
    /\ HasNextProvider(r, rail(r))
    /\ \E out \in Outcomes(NextProvider(r, rail(r))) :
          /\ TryProvider(r, rail(r), NextProvider(r, rail(r)), out)
          /\ IF Len(attempts[r]) + 1 < Len(GetProviders(rail(r))) THEN Goto(r, "send")
             ELSE Goto(r, IF out = "ok" THEN "record_sent" ELSE "record_failed")
    /\ UNCHANGED <<storeVars, localVars>>

SendPayout(r) ==
    /\ pc[r] = "send"
    /\ HasNextProvider(r, rail(r))
    /\ \E out \in Outcomes(NextProvider(r, rail(r))) :
          /\ TryProvider(r, rail(r), NextProvider(r, rail(r)), out)
          /\ \/ out = "ok" /\ Goto(r, "record_sent")
             \/ /\ isRetryable(out)
                /\ Len(attempts[r]) + 1 < Len(GetProviders(rail(r)))
                /\ Goto(r, "send")
             \/ /\ out # "ok"
                /\ \/ ~isRetryable(out)
                   \/ Len(attempts[r]) + 1 = Len(GetProviders(rail(r)))
                /\ Goto(r, "record_failed")
    /\ UNCHANGED <<storeVars, localVars>>

(***************************************************************************)
(* ErrNoProviders: the rail has no active provider.                        *)
(***************************************************************************)
NoProviders_NotRecorded(r) ==
    /\ pc[r] = "send"
    /\ ~HasNextProvider(r, rail(r))
    /\ Answer(r, "OK", r, "created")
    /\ UNCHANGED <<storeVars, providerVars, localVars>>

NoProviders(r) ==
    /\ pc[r] = "send"
    /\ ~HasNextProvider(r, rail(r))
    /\ Goto(r, "record_failed")
    /\ UNCHANGED <<storeVars, providerVars, localVars>>

(***************************************************************************)
(* UPDATE to "sent" with the provider and its external id, or to "failed"  *)
(* with the last provider tried.  When the statement fails, the handler    *)
(* logs it and still answers OK, with the payout as it was created.        *)
(***************************************************************************)
Record(r, label, state, ext) ==
    /\ pc[r] = label
    /\ UpdateAccepted(r, ext, LastProvider(r))
    /\ UpdatePayoutState(r, state, ext, LastProvider(r))
    /\ \/ Answer(r, "OK", r, state)
       \/ DbMayFail /\ Answer(r, "OK", r, "created")
    /\ UNCHANGED <<providerVars, localVars>>

RecordSent(r) == Record(r, "record_sent", "sent", <<LastProvider(r), r>>)

RecordFailed(r) == Record(r, "record_failed", "failed", Null)

RecordRefused(r) ==
    /\ \/ pc[r] = "record_sent" /\ ~UpdateAccepted(r, <<LastProvider(r), r>>, LastProvider(r))
       \/ pc[r] = "record_failed" /\ ~UpdateAccepted(r, Null, LastProvider(r))
       \/ pc[r] \in {"record_sent", "record_failed"} /\ DbMayFail
    /\ Answer(r, "OK", r, "created")
    /\ UNCHANGED <<storeVars, providerVars, localVars>>

CreateStep(r) ==
    \/ InsertKey(r) \/ FindKey(r) \/ SerializationFailure(r)
    \/ CommitTx(r) \/ TxFails(r) \/ Replay(r)
    \/ SendPayout(r) \/ NoProviders(r)
    \/ RecordSent(r) \/ RecordFailed(r) \/ RecordRefused(r)

-----------------------------------------------------------------------------
(***************************************************************************)
(* CancelPayout: the payout is read and its state checked; the provider is *)
(* asked to cancel with what was read; the row is changed if its state     *)
(* still allows it.                                                        *)
(***************************************************************************)
BeginCancel(c, id) ==
    /\ pc[c] = "idle"
    /\ \/ /\ payouts[id].state \in cancelableStates
          /\ seen' = [seen EXCEPT ![c] = [id |-> id, row |-> payouts[id], to |-> "canceled"]]
          /\ Goto(c, IF payouts[id].provider # Null THEN "cancel_provider" ELSE "cancel_db")
       \/ /\ \/ DbMayFail /\ Answer(c, "Internal", Null, Null)
             \/ ~Exists(id) /\ Answer(c, "NotFound", Null, Null)
             \/ /\ Exists(id)
                /\ payouts[id].state \notin cancelableStates
                /\ Answer(c, "FailedPrecondition", Null, Null)
          /\ UNCHANGED seen
    /\ UNCHANGED <<storeVars, providerVars, req, visible, existing>>

(***************************************************************************)
(* The provider cancels the charge, refuses, or is not reached; the        *)
(* handler only logs the difference.                                       *)
(***************************************************************************)
CancelWithProvider(c) ==
    /\ pc[c] = "cancel_provider"
    /\ CancelAtProvider(seen[c].id, seen[c].row.provider, seen[c].row.external_id)
    /\ Goto(c, "cancel_db")
    /\ UNCHANGED <<storeVars, localVars>>

CancelInDB(c) ==
    LET id == seen[c].id
    IN /\ pc[c] = "cancel_db"
       /\ \/ /\ CancelPayoutIfCancelable(id)
             /\ \/ Answer(c, "OK", id, Null)
                \/ DbMayFail /\ Answer(c, "Internal", Null, Null)
          \/ /\ payouts[id].state \notin cancelableStates \/ DbMayFail
             /\ Answer(c, "Internal", Null, Null)
             /\ UNCHANGED storeVars
       /\ UNCHANGED <<providerVars, localVars>>

CancelStep(c) == CancelWithProvider(c) \/ CancelInDB(c)

-----------------------------------------------------------------------------
(***************************************************************************)
(* ApplyProviderUpdate.                                                    *)
(***************************************************************************)
mapProviderStatusToState_OldName ==
    [payout_succeeded |-> "succeeded",
     payout_failed    |-> "failed",
     payout_canceled  |-> "canceled"]

mapProviderStatusToState_Swapped ==
    [payout_succeeded |-> "failed",
     payout_failed    |-> "completed",
     payout_canceled  |-> "canceled"]

mapProviderStatusToState_CancelFails ==
    [payout_succeeded |-> "completed",
     payout_failed    |-> "failed",
     payout_canceled  |-> "failed"]

mapProviderStatusToState ==
    [payout_succeeded |-> "completed",
     payout_failed    |-> "failed",
     payout_canceled  |-> "canceled"]

(***************************************************************************)
(* By external id first, then as a payout id.                              *)
(***************************************************************************)
findPayoutByExternalIDOrID(ref) ==
    IF FindByExternalID(ref) # {} THEN FindByExternalID(ref)
    ELSE {id \in PayoutIDs : id = ref /\ Exists(id)}

(***************************************************************************)
(* What callers send: what a provider has emitted, at any time, any number *)
(* of times, in any order; direct callers a payout id and any status.      *)
(***************************************************************************)
Notifications ==
    events \cup (IF DirectUpdates
                 THEN [ref : PayoutIDs, status : DOMAIN mapProviderStatusToState \cup {"other"}]
                 ELSE {})

BeginApply(u, e) ==
    /\ pc[u] = "idle"
    /\ \/ \E id \in findPayoutByExternalIDOrID(e.ref) :
             /\ e.status \in DOMAIN mapProviderStatusToState
             /\ seen' = [seen EXCEPT ![u] =
                   [id |-> id, row |-> payouts[id], to |-> mapProviderStatusToState[e.status]]]
             /\ Goto(u, "apply")
       \/ /\ \/ /\ findPayoutByExternalIDOrID(e.ref) = {} \/ (DbMayFail /\ e.ref \notin PayoutIDs)
                /\ Answer(u, "NotFound", Null, Null)
             \/ /\ findPayoutByExternalIDOrID(e.ref) # {}
                /\ e.status \notin DOMAIN mapProviderStatusToState
                /\ Answer(u, "InvalidArgument", Null, Null)
             \/ /\ DbMayFail /\ e.ref \in PayoutIDs
                /\ Answer(u, "Internal", Null, Null)
          /\ UNCHANGED seen
    /\ UNCHANGED <<storeVars, providerVars, req, visible, existing>>

(***************************************************************************)
(* The update writes the state the event names over whatever state the row *)
(* has by now, with external_id and provider as they were read.            *)
(***************************************************************************)
ApplyUpdate(u) ==
    LET id       == seen[u].id
        ext      == seen[u].row.external_id
        provider == seen[u].row.provider
    IN /\ pc[u] = "apply"
       /\ \/ /\ UpdateAccepted(id, ext, provider)
             /\ UpdatePayoutState(id, seen[u].to, ext, provider)
             /\ \/ Answer(u, "OK", id, Null)
                \/ DbMayFail /\ Answer(u, "Internal", Null, Null)
          \/ /\ ~UpdateAccepted(id, ext, provider) \/ DbMayFail
             /\ Answer(u, "Internal", Null, Null)
             /\ UNCHANGED storeVars
       /\ UNCHANGED <<providerVars, localVars>>

-----------------------------------------------------------------------------
(***************************************************************************)
(* The environment: providers settle charges; the process stops, every     *)
(* request in progress is lost, open transactions are rolled back and the  *)
(* process starts again.                                                   *)
(***************************************************************************)
ProviderSettles ==
    /\ \E id \in PayoutIDs, p \in Provider : Settle(id, p)
    /\ UNCHANGED <<storeVars, pc, localVars, reply>>

InProgress(r) == pc[r] \notin {"idle", "done", "lost"}

Crash ==
    /\ "crash" \in Faults
    /\ \E r \in Requests : InProgress(r)
    /\ pc' = [r \in Requests |-> IF InProgress(r) THEN "lost" ELSE pc[r]]
    /\ ForgetStats
    /\ UNCHANGED <<storeVars, localVars, reply>>

Next ==
    \/ \E r \in Creates :
          \/ \E k \in Keys, b \in Bodies : BeginCreate(r, k, b)
          \/ CreateStep(r)
    \/ \E c \in Cancels :
          \/ \E id \in PayoutIDs : BeginCancel(c, id)
          \/ CancelStep(c)
    \/ \E u \in Updates :
          \/ \E e \in Notifications : BeginApply(u, e)
          \/ ApplyUpdate(u)
    \/ ProviderSettles
    \/ Crash

(***************************************************************************)
(* A goroutine that can run does run; nobody has to call the service, no   *)
(* provider has to settle and nothing has to fail.                         *)
(***************************************************************************)
Fairness ==
    /\ \A r \in Creates : WF_vars(CreateStep(r))
    /\ \A c \in Cancels : WF_vars(CancelStep(c))
    /\ \A u \in Updates : WF_vars(ApplyUpdate(u))

Spec == Init /\ [][Next]_vars /\ Fairness

=============================================================================
