------------------------- MODULE PayoutServiceProofs -------------------------
(***************************************************************************)
(* PayoutService keeps its keys, rows and money in step: proofs for every  *)
(* number of requests, keys, bodies, every registry and every combination  *)
(* of faults.                                                              *)
(*                                                                         *)
(* IndInv is shown to hold initially and to be preserved by each action    *)
(* (one lemma per action); the properties follow from it.                  *)
(***************************************************************************)
EXTENDS PayoutProperties, TLAPS

\* A stored binding is not Null, and neither is a request or an observation.
LEMMA NullIsNoValue ==
    /\ \A x \in Binding : x # Null
    /\ \A x \in CreateRequest : x # Null
    /\ \A x \in Reply : x # Null
    /\ \A x \in Observation : x # Null
    /\ \A x \in Bodies \cup PayoutIDs \cup Provider \cup ExternalID : x # Null
BY StoreAssumption, LocalsAssumption

\* The providers of a rail are a sequence of registry entries.
LEMMA ProvidersOfRail ==
    \A rl \in SchemaRails :
        GetProviders(rl) \in Seq([provider : Provider, active : BOOLEAN])
BY RegistryAssumption DEF SchemaRails, Rail

\* Requests of different kinds are different.
LEMMA KindsDiffer ==
    /\ \A r \in Creates, c \in Cancels \cup Updates : r # c
    /\ \A c \in Cancels, u \in Updates : c # u
BY RequestAssumption DEF Creates

\* The initial state satisfies the invariant.
LEMMA InitIndInv == Init => IndInv
<1> SUFFICES ASSUME Init PROVE IndInv
  OBVIOUS
<1> USE DEF Init, StoreInit, ProvidersInit
<1>1. TypeOK
  <2>1. StoreTypeOK
    BY DEF StoreTypeOK, Row, NoRow
  <2>2. ProvidersTypeOK
    BY DEF ProvidersTypeOK, Counter, ChargeState
  <2> QED
    BY <2>1, <2>2 DEF TypeOK, Label
<1>2. RequestInv
  BY DEF RequestInv, InTransaction, Sending, Exists, NoRow, Requests, Creates
<1>3. KeyInv
  BY DEF KeyInv, Bound
<1>4. LockInv /\ ReplayInv /\ RouteInv
  BY DEF LockInv, ReplayInv, RouteInv, Requests, Creates
<1>5. SeenInv
  BY DEF SeenInv, Requests, Creates
<1>6. AnswersAgreeWithKeys
  BY DEF AnswersAgreeWithKeys, Answered, Requests, Creates
<1>7. FallbackFollowsRoute
  BY DEF FallbackFollowsRoute, Creates
<1> QED
  BY <1>1, <1>2, <1>3, <1>4, <1>5, <1>6, <1>7 DEF IndInv

(***************************************************************************)
(* Steps that leave the create requests alone and at most change state,    *)
(* provider and external id of existing rows.                              *)
(***************************************************************************)

\* They preserve everything that is said of keys and create requests.
LEMMA CreatesUntouched ==
    ASSUME IndInv,
           idempotency_keys' = idempotency_keys,
           attempts' = attempts,
           req' = req, visible' = visible, existing' = existing,
           \A r \in Creates : pc'[r] = pc[r] /\ reply'[r] = reply[r],
           \A id \in PayoutIDs :
              /\ payouts'[id].body = payouts[id].body
              /\ payouts'[id].state = "absent" <=> payouts[id].state = "absent"
    PROVE  /\ RequestInv' /\ KeyInv' /\ LockInv' /\ ReplayInv'
           /\ AnswersAgreeWithKeys' /\ RouteInv' /\ FallbackFollowsRoute'
<1> USE DEF IndInv
<1>1. RequestInv'
  BY DEF RequestInv, Exists, key, body, rail, Creates, InTransaction, Sending
<1>2. KeyInv'
  <2>1. \A k \in Keys : Bound(k) => idempotency_keys[k].payout_id \in PayoutIDs
    BY DEF TypeOK, StoreTypeOK, Bound, Binding
  <2> QED
    BY <2>1 DEF KeyInv, Exists, Bound, key, Creates
<1>3. LockInv'
  BY DEF LockInv, Bound, key
<1>4. ReplayInv'
  BY DEF ReplayInv, Bound, key
<1>5. AnswersAgreeWithKeys'
  BY DEF AnswersAgreeWithKeys, Answered, Bound, key, body
<1>6. RouteInv'
  BY DEF RouteInv, rail, body
<1>7. FallbackFollowsRoute'
  BY DEF FallbackFollowsRoute, rail, body
<1> QED
  BY <1>1, <1>2, <1>3, <1>4, <1>5, <1>6, <1>7

\* A row read from the table is well formed, and so is what is written to it.
LEMMA RowUpdate ==
    ASSUME StoreTypeOK, NEW id \in PayoutIDs, NEW state \in PayoutState,
           NEW ext \in ExternalID \cup {Null}, NEW prov \in Provider \cup {Null},
           UpdatePayoutState(id, state, ext, prov)
    PROVE  StoreTypeOK'
<1> USE DEF StoreTypeOK, UpdatePayoutState
<1>1. payouts[id] \in Row
  OBVIOUS
<1>2. [payouts[id] EXCEPT !.state = state, !.external_id = ext, !.provider = prov] \in Row
  BY <1>1 DEF Row
<1> QED
  BY <1>2

\* The handlers of CancelPayout preserve the invariant.
LEMMA CancelPreserves ==
    ASSUME IndInv, NEW c \in Cancels,
           \/ \E id \in PayoutIDs : BeginCancel(c, id)
           \/ CancelStep(c)
    PROVE  IndInv'
<1> USE DEF IndInv, Goto, Answer
<1>c. c \in Requests /\ c \notin Creates /\ c \in Cancels \cup Updates
  BY KindsDiffer DEF Requests
<1>1. ASSUME NEW id \in PayoutIDs, BeginCancel(c, id) PROVE IndInv'
  <2> USE <1>1 DEF BeginCancel, storeVars, providerVars
  <2>1. TypeOK'
    <3>1. StoreTypeOK' /\ ProvidersTypeOK'
      BY DEF TypeOK, StoreTypeOK, ProvidersTypeOK
    <3>2. pc' \in [Requests -> Label]
      BY <1>c DEF TypeOK, Label
    <3>3. reply' \in [Requests -> Reply \cup {Null}]
      BY <1>c DEF TypeOK, Reply, Code
    <3>4. seen' \in [Cancels \cup Updates -> Observation \cup {Null}]
      <4>1. [id |-> id, row |-> payouts[id], to |-> "canceled"] \in Observation
        BY DEF Observation, TypeOK, StoreTypeOK, PayoutState
      <4> QED
        BY <1>c, <4>1 DEF TypeOK
    <3> QED
      BY <3>1, <3>2, <3>3, <3>4 DEF TypeOK
  <2>2. SeenInv'
    <3>1. \/ seen'[c] # Null /\ seen'[c].row = payouts[id]
          \/ pc'[c] = "done"
      BY <1>c, LocalsAssumption DEF TypeOK, StoreTypeOK, Observation, PayoutState
    <3>2. pc'[c] = "cancel_provider" => seen'[c].row.provider # Null
      BY <1>c, <3>1 DEF TypeOK
    <3>3. \A d \in Cancels \cup Updates : d # c => pc'[d] = pc[d] /\ seen'[d] = seen[d]
      BY <1>c DEF TypeOK, Requests
    <3> QED
      BY <3>1, <3>2, <3>3 DEF SeenInv
  <2> QED
    BY <2>1, <2>2, <1>c, CreatesUntouched DEF TypeOK, Requests
<1>2. CASE CancelWithProvider(c)
  <2> USE <1>2 DEF CancelWithProvider, storeVars, localVars
  <2>1. /\ seen[c] \in Observation
        /\ seen[c].row.provider \in Provider
        /\ seen[c].id \in PayoutIDs
    BY <1>c DEF SeenInv, TypeOK, Observation, Row
  <2>2. ProvidersTypeOK' /\ attempts' = attempts
    <3> DEFINE id == seen[c].id
               p == seen[c].row.provider
    <3>1. EventOf(id, p, "payout_canceled") \in Event
      BY <2>1 DEF EventOf, Event, ExternalID
    <3>2. events' \in SUBSET Event
      BY <3>1 DEF CancelAtProvider, TypeOK, ProvidersTypeOK
    <3>3. charges[id] \in [Provider -> ChargeState]
      BY <2>1 DEF TypeOK, ProvidersTypeOK
    <3>4. [charges[id] EXCEPT ![p] = "canceled"] \in [Provider -> ChargeState]
      BY <3>3, <2>1 DEF ChargeState
    <3>5. charges' \in [PayoutIDs -> [Provider -> ChargeState]]
      BY <3>4, <2>1 DEF CancelAtProvider, TypeOK, ProvidersTypeOK
    <3> QED
      BY <3>2, <3>5 DEF CancelAtProvider, TypeOK, ProvidersTypeOK
  <2>3. TypeOK'
    BY <2>2, <1>c DEF TypeOK, StoreTypeOK, Label
  <2>4. SeenInv'
    BY <1>c DEF SeenInv, TypeOK, Requests
  <2> QED
    BY <2>2, <2>3, <2>4, <1>c, CreatesUntouched DEF TypeOK, Requests
<1>3. CASE CancelInDB(c)
  <2> USE <1>3 DEF CancelInDB, localVars, providerVars
  <2>1. seen[c] \in Observation /\ seen[c].id \in PayoutIDs
    BY <1>c DEF SeenInv, TypeOK, Observation
  <2>2. /\ StoreTypeOK'
        /\ idempotency_keys' = idempotency_keys
        /\ \A id \in PayoutIDs :
              /\ payouts'[id].body = payouts[id].body
              /\ payouts'[id].state = "absent" <=> payouts[id].state = "absent"
    BY <2>1 DEF CancelPayoutIfCancelable, cancelableStates, TypeOK, StoreTypeOK,
                Row, PayoutState, storeVars
  <2>3. ProvidersTypeOK'
    BY DEF TypeOK, ProvidersTypeOK
  <2>4. reply' \in [Requests -> Reply \cup {Null}]
    BY <1>c, <2>1 DEF TypeOK, Reply, Code
  <2>5. TypeOK'
    BY <2>2, <2>3, <2>4, <1>c DEF TypeOK, Label
  <2>6. SeenInv'
    BY <1>c DEF SeenInv, TypeOK, Requests
  <2> QED
    BY <2>2, <2>5, <2>6, <1>c, CreatesUntouched DEF TypeOK, Requests
<1> QED
  BY <1>1, <1>2, <1>3 DEF CancelStep

\* ApplyProviderUpdate preserves the invariant, whoever calls it.
LEMMA ApplyPreserves ==
    ASSUME IndInv, NEW u \in Updates,
           \/ \E e \in Notifications : BeginApply(u, e)
           \/ ApplyUpdate(u)
    PROVE  IndInv'
<1> USE DEF IndInv, Goto, Answer
<1>u. u \in Requests /\ u \notin Creates /\ u \in Cancels \cup Updates /\ u \notin Cancels
  BY KindsDiffer DEF Requests
<1>1. ASSUME NEW e \in Notifications, BeginApply(u, e) PROVE IndInv'
  <2> USE <1>1 DEF BeginApply, storeVars, providerVars
  <2>1. StoreTypeOK' /\ ProvidersTypeOK'
    BY DEF TypeOK, StoreTypeOK, ProvidersTypeOK
  <2>2. reply' \in [Requests -> Reply \cup {Null}]
    BY <1>u DEF TypeOK, Reply, Code
  <2>3. \A s \in DOMAIN mapProviderStatusToState : mapProviderStatusToState[s] \in PayoutState
    BY DEF mapProviderStatusToState, PayoutState
  <2>4. seen' \in [Cancels \cup Updates -> Observation \cup {Null}]
    <3>1. \A id \in findPayoutByExternalIDOrID(e.ref) : id \in PayoutIDs
      BY DEF findPayoutByExternalIDOrID, FindByExternalID
    <3>2. \A id \in PayoutIDs, to \in PayoutState :
             [id |-> id, row |-> payouts[id], to |-> to] \in Observation
      BY DEF Observation, TypeOK, StoreTypeOK
    <3> QED
      BY <1>u, <2>3, <3>1, <3>2 DEF TypeOK
  <2>5. TypeOK'
    BY <2>1, <2>2, <2>4, <1>u DEF TypeOK, Label
  <2>6. SeenInv'
    <3>1. pc'[u] = "done" \/ (pc'[u] = "apply" /\ seen'[u] # Null)
      <4>1. ASSUME NEW id \in PayoutIDs, NEW to \in PayoutState
            PROVE [id |-> id, row |-> payouts[id], to |-> to] # Null
        BY LocalsAssumption DEF Observation, TypeOK, StoreTypeOK
      <4>2. \A id \in findPayoutByExternalIDOrID(e.ref) : id \in PayoutIDs
        BY DEF findPayoutByExternalIDOrID, FindByExternalID
      <4> QED
        BY <1>u, <4>1, <4>2, <2>3 DEF TypeOK
    <3>2. \A d \in Cancels \cup Updates : d # u => pc'[d] = pc[d] /\ seen'[d] = seen[d]
      BY <1>u DEF TypeOK, Requests
    <3> QED
      BY <3>1, <3>2 DEF SeenInv
  <2> QED
    BY <2>5, <2>6, <1>u, CreatesUntouched DEF TypeOK, Requests
<1>2. CASE ApplyUpdate(u)
  <2> USE <1>2 DEF ApplyUpdate, localVars, providerVars
  <2>1. /\ seen[u] \in Observation
        /\ seen[u].id \in PayoutIDs
        /\ seen[u].to \in PayoutState
        /\ seen[u].row.external_id \in ExternalID \cup {Null}
        /\ seen[u].row.provider \in Provider \cup {Null}
    BY <1>u DEF SeenInv, TypeOK, Observation, Row
  <2>2. /\ StoreTypeOK'
        /\ idempotency_keys' = idempotency_keys
        /\ \A id \in PayoutIDs :
              /\ payouts'[id].body = payouts[id].body
              /\ payouts'[id].state = "absent" <=> payouts[id].state = "absent"
    <3>1. CASE UNCHANGED storeVars
      BY <3>1 DEF storeVars, TypeOK, StoreTypeOK
    <3>2. CASE /\ UpdateAccepted(seen[u].id, seen[u].row.external_id, seen[u].row.provider)
               /\ UpdatePayoutState(seen[u].id, seen[u].to, seen[u].row.external_id, seen[u].row.provider)
      <4>1. StoreTypeOK'
        <5> HIDE <1>2 DEF ApplyUpdate, IndInv
        <5>1. StoreTypeOK
          BY DEF IndInv, TypeOK
        <5> QED
          BY <3>2, <2>1, <5>1, RowUpdate, Zenon
      <4>2. \A id \in PayoutIDs : payouts[id] \in Row
        BY DEF TypeOK, StoreTypeOK
      <4>3. seen[u].to # "absent" /\ payouts[seen[u].id].state # "absent"
        BY <3>2, <2>1 DEF PayoutState, UpdateAccepted, Exists
      <4> QED
        BY <3>2, <2>1, <4>1, <4>2, <4>3 DEF UpdatePayoutState, Row, TypeOK, StoreTypeOK
    <3> QED
      BY <3>1, <3>2
  <2>3. ProvidersTypeOK'
    BY DEF TypeOK, ProvidersTypeOK
  <2>4. reply' \in [Requests -> Reply \cup {Null}]
    BY <1>u, <2>1 DEF TypeOK, Reply, Code
  <2>5. TypeOK'
    BY <2>2, <2>3, <2>4, <1>u DEF TypeOK, Label
  <2>6. SeenInv'
    BY <1>u DEF SeenInv, TypeOK, Requests
  <2> QED
    BY <2>2, <2>5, <2>6, <1>u, CreatesUntouched DEF TypeOK, Requests
<1> QED
  BY <1>1, <1>2

\* A provider that settles a charge changes nothing the handlers rely on.
LEMMA SettlePreserves ==
    ASSUME IndInv, ProviderSettles
    PROVE  IndInv'
<1> USE DEF IndInv, ProviderSettles, storeVars, localVars
<1> PICK id \in PayoutIDs, p \in Provider : Settle(id, p)
  OBVIOUS
<1>1. charges[id] \in [Provider -> ChargeState]
  BY DEF TypeOK, ProvidersTypeOK
<1>2. /\ [charges[id] EXCEPT ![p] = "succeeded"] \in [Provider -> ChargeState]
      /\ [charges[id] EXCEPT ![p] = "failed"] \in [Provider -> ChargeState]
  BY <1>1 DEF ChargeState
<1>3. charges' \in [PayoutIDs -> [Provider -> ChargeState]]
  <2>1. charges \in [PayoutIDs -> [Provider -> ChargeState]]
    BY DEF TypeOK, ProvidersTypeOK
  <2>2. \/ charges' = [charges EXCEPT ![id][p] = "succeeded"]
        \/ charges' = [charges EXCEPT ![id][p] = "failed"]
    BY DEF Settle
  <2> HIDE DEF IndInv, ProviderSettles
  <2> QED
    BY <1>2, <2>1, <2>2
<1>4. events' \in SUBSET Event
  BY DEF Settle, TypeOK, ProvidersTypeOK, EventOf, Event, ExternalID
<1>5. TypeOK'
  BY <1>3, <1>4 DEF Settle, TypeOK, ProvidersTypeOK, StoreTypeOK
<1>6. SeenInv'
  BY DEF SeenInv
<1> QED
  BY <1>5, <1>6, CreatesUntouched DEF Settle

\* A crash loses the requests in progress and the tracker, nothing else.
LEMMA CrashPreserves ==
    ASSUME IndInv, Crash
    PROVE  IndInv'
<1> USE DEF IndInv, Crash, storeVars, localVars, ForgetStats
<1>1. \A r \in Requests :
         \/ pc'[r] = pc[r]
         \/ pc'[r] = "lost" /\ pc[r] \notin {"idle", "done"}
  BY DEF InProgress
<1>2. TypeOK'
  <2>1. stats' \in [Rail \X Provider -> Counter]
    BY DEF Counter
  <2>2. pc' \in [Requests -> Label]
    BY DEF TypeOK, Label
  <2> QED
    BY <2>1, <2>2 DEF TypeOK, ProvidersTypeOK, StoreTypeOK
<1>3. RequestInv'
  BY <1>1 DEF RequestInv, Exists, key, body, rail, Creates, InTransaction, Sending, Requests
<1>4. KeyInv'
  BY DEF KeyInv, Exists, Bound, key
<1>5. LockInv' /\ ReplayInv'
  BY <1>1 DEF LockInv, ReplayInv, Bound, key, Requests
<1>6. SeenInv'
  BY <1>1 DEF SeenInv, Requests
<1>7. AnswersAgreeWithKeys'
  BY DEF AnswersAgreeWithKeys, Answered, Bound, key, body
<1>8. RouteInv'
  BY <1>1 DEF RouteInv, rail, body, Requests
<1>9. FallbackFollowsRoute'
  BY DEF FallbackFollowsRoute, rail, body
<1> QED
  BY <1>2, <1>3, <1>4, <1>5, <1>6, <1>7, <1>8, <1>9

(***************************************************************************)
(* CreatePayout, before the transaction ends.                              *)
(***************************************************************************)

\* A create request r is not one of the others.
LEMMA CreateIsARequest ==
    ASSUME NEW r \in Creates
    PROVE  r \in Requests /\ r \notin Cancels \cup Updates /\ r \in PayoutIDs
BY KindsDiffer DEF Requests, Creates

\* The validated request enters the transaction or is refused.
LEMMA BeginCreatePreserves ==
    ASSUME IndInv, NEW r \in Creates, NEW k \in Keys, NEW b \in Bodies,
           BeginCreate(r, k, b)
    PROVE  IndInv'
<1> USE DEF IndInv, BeginCreate, Goto, Answer, storeVars, providerVars
<1>r. r \in Requests /\ r \notin Cancels \cup Updates /\ r \in PayoutIDs
  BY CreateIsARequest
<1>1. TypeOK'
  <2>1. StoreTypeOK' /\ ProvidersTypeOK'
    BY DEF TypeOK, StoreTypeOK, ProvidersTypeOK
  <2>2. req' \in [Creates -> CreateRequest \cup {Null}]
    BY DEF TypeOK, CreateRequest
  <2>3. reply' \in [Requests -> Reply \cup {Null}]
    BY <1>r DEF TypeOK, Reply, Code
  <2>4. pc' \in [Requests -> Label]
    BY <1>r DEF TypeOK, Label
  <2>5. visible' \in [Creates -> BOOLEAN]
    BY DEF TypeOK, Bound
  <2> QED
    BY <2>1, <2>2, <2>3, <2>4, <2>5 DEF TypeOK
<1>2. /\ req'[r] = [key |-> k, body |-> b] /\ req'[r] # Null
      /\ \A s \in Creates : s # r => req'[s] = req[s] /\ pc'[s] = pc[s] /\ reply'[s] = reply[s]
      /\ \/ pc'[r] = "insert_key" /\ RailOf[b] \in SchemaRails /\ reply'[r] = reply[r]
         \/ pc'[r] = "done" /\ reply'[r] = [code |-> "Internal", payout |-> Null, status |-> Null]
      /\ ~Exists(r) /\ attempts[r] = <<>> /\ reply[r] = Null
  <2>1. [key |-> k, body |-> b] # Null
    BY LocalsAssumption DEF CreateRequest
  <2>2. /\ req'[r] = [key |-> k, body |-> b]
        /\ \A s \in Creates : s # r => req'[s] = req[s]
    BY DEF TypeOK
  <2>3. \A s \in Creates : s # r => pc'[s] = pc[s] /\ reply'[s] = reply[s]
    BY DEF TypeOK, Requests
  <2>4. \/ pc'[r] = "insert_key" /\ RailOf[b] \in SchemaRails /\ reply'[r] = reply[r]
        \/ pc'[r] = "done" /\ reply'[r] = [code |-> "Internal", payout |-> Null, status |-> Null]
    BY <1>r DEF TypeOK
  <2>5. ~Exists(r) /\ attempts[r] = <<>> /\ reply[r] = Null
    BY DEF RequestInv
  <2> QED
    BY <2>1, <2>2, <2>3, <2>4, <2>5
<1>3. RequestInv'
  BY <1>2 DEF RequestInv, Exists, key, body, rail, InTransaction, Sending
<1>4. KeyInv'
  <2>1. \A l \in Keys : Bound(l) => idempotency_keys[l].payout_id \in Creates \ {r}
    BY <1>2 DEF KeyInv, TypeOK, StoreTypeOK, Bound, Binding, Creates
  <2> QED
    BY <1>2, <2>1 DEF KeyInv, Exists, Bound, key
<1>5. LockInv'
  BY <1>2 DEF LockInv, Bound, key
<1>6. ReplayInv'
  BY <1>2 DEF ReplayInv, Bound, key
<1>7. SeenInv'
  BY <1>r DEF SeenInv, TypeOK, Requests
<1>8. AnswersAgreeWithKeys'
  BY <1>2 DEF AnswersAgreeWithKeys, Answered, Bound, key, body
<1>9. RouteInv'
  BY <1>2 DEF RouteInv, rail, body
<1>10. FallbackFollowsRoute'
  BY <1>2 DEF FallbackFollowsRoute, rail, body
<1> QED
  BY <1>1, <1>3, <1>4, <1>5, <1>6, <1>7, <1>8, <1>9, <1>10

\* Steps that only move r on or answer it, to a place the invariant allows.
LEMMA OnlyMoves ==
    ASSUME IndInv, NEW r \in Creates,
           pc[r] \notin {"idle", "done"},
           NEW label \in Label, pc' = [pc EXCEPT ![r] = label],
           UNCHANGED <<storeVars, providerVars, req, visible, seen>>,
           existing' \in [Creates -> Binding \cup {Null}],
           \A s \in Creates \ {r} : existing'[s] = existing[s],
           \/ UNCHANGED reply
           \/ \E answer \in Reply : reply' = [reply EXCEPT ![r] = answer],
           label \in {"commit", "replay", "record_failed", "done"},
           label # "done" => UNCHANGED reply,
           label = "commit" =>
              pc[r] = "insert_key" /\ ~Bound(key(r)) /\ LockFree(key(r)),
           label = "replay" =>
              pc[r] = "insert_key" /\ Bound(key(r)) /\ existing'[r] = idempotency_keys[key(r)],
           label = "record_failed" => pc[r] = "send",
           Answered(r, "OK")' =>
              /\ Bound(key(r))
              /\ idempotency_keys[key(r)].payout_id = reply'[r].payout
              /\ idempotency_keys[key(r)].request_hash = canonicalHash[body(r)],
           Answered(r, "AlreadyExists")' =>
              /\ Bound(key(r))
              /\ idempotency_keys[key(r)].request_hash # canonicalHash[body(r)]
    PROVE  IndInv'
<1> USE DEF IndInv, storeVars, providerVars
<1>r. r \in Requests /\ r \notin Cancels \cup Updates /\ r \in PayoutIDs
  BY CreateIsARequest
<1>1. TypeOK'
  BY <1>r DEF TypeOK, StoreTypeOK, ProvidersTypeOK
<1>2. /\ pc'[r] = label
      /\ \A s \in Requests : s # r => pc'[s] = pc[s] /\ reply'[s] = reply[s]
  BY <1>r DEF TypeOK
<1>3. RequestInv'
  BY <1>2 DEF RequestInv, Exists, key, body, rail, InTransaction, Sending, Requests
<1>4. KeyInv'
  BY DEF KeyInv, Exists, Bound, key
<1>5. LockInv'
  BY <1>2 DEF LockInv, LockFree, Bound, key, Requests
<1>6. ReplayInv'
  BY <1>2 DEF ReplayInv, Bound, key, Requests
<1>7. SeenInv'
  BY <1>r, <1>2 DEF SeenInv, Requests
<1>8. AnswersAgreeWithKeys'
  BY <1>2 DEF AnswersAgreeWithKeys, Answered, Bound, key, body, Requests
<1>9. RouteInv'
  BY <1>2 DEF RouteInv, rail, body, Requests
<1>10. FallbackFollowsRoute'
  BY DEF FallbackFollowsRoute, rail, body
<1> QED
  BY <1>1, <1>3, <1>4, <1>5, <1>6, <1>7, <1>8, <1>9, <1>10

\* What a request in a sending state, or replaying, may say of its key.
LEMMA SenderOwnsItsKey ==
    ASSUME IndInv, NEW r \in Creates, pc[r] \in Sending
    PROVE  /\ Bound(key(r))
           /\ idempotency_keys[key(r)].payout_id = r
           /\ idempotency_keys[key(r)].request_hash = canonicalHash[body(r)]
<1> USE DEF IndInv
<1>1. /\ req[r] \in CreateRequest
      /\ idempotency_keys[key(r)] =
            [request_hash |-> canonicalHash[body(r)], payout_id |-> r]
  BY DEF RequestInv, TypeOK, Sending
<1>2. idempotency_keys[key(r)] \in Binding
  BY <1>1 DEF Binding, CreateRequest, Creates, body
<1> QED
  BY <1>1, <1>2, NullIsNoValue DEF Bound

\* An answer of this shape is a Reply.
LEMMA AnswerIsReply ==
    ASSUME NEW code \in Code, NEW id \in PayoutIDs \cup {Null},
           NEW status \in PayoutState \cup {Null}
    PROVE  [code |-> code, payout |-> id, status |-> status] \in Reply
BY DEF Reply

\* Inserting the key, finding it, or failing to do either.
LEMMA KeyStepPreserves ==
    ASSUME IndInv, NEW r \in Creates,
           InsertKey(r) \/ FindKey(r) \/ SerializationFailure(r) \/ TxFails(r)
    PROVE  IndInv'
<1> USE DEF Goto, Answer, localVars
<1>r. r \in Requests /\ existing \in [Creates -> Binding \cup {Null}] /\ reply \in [Requests -> Reply \cup {Null}]
  BY CreateIsARequest DEF IndInv, TypeOK
<1>1. ASSUME InsertKey(r) PROVE IndInv'
  <2>1. \A code \in {"OK", "AlreadyExists"} : Answered(r, code)' => Answered(r, code)
    BY <1>1 DEF InsertKey, Answered
  <2>2. UNCHANGED <<reply, idempotency_keys, req, existing>>
    BY <1>1 DEF InsertKey, storeVars
  <2>3. /\ Answered(r, "OK")' =>
              /\ Bound(key(r))
              /\ idempotency_keys[key(r)].payout_id = reply'[r].payout
              /\ idempotency_keys[key(r)].request_hash = canonicalHash[body(r)]
        /\ Answered(r, "AlreadyExists")' =>
              /\ Bound(key(r))
              /\ idempotency_keys[key(r)].request_hash # canonicalHash[body(r)]
    BY <2>1, <2>2 DEF IndInv, AnswersAgreeWithKeys
  <2> QED
    BY <1>1, <1>r, <2>2, <2>3, OnlyMoves DEF InsertKey, Label
<1>2. ASSUME FindKey(r) PROVE IndInv'
  <2>1. UNCHANGED reply
    BY <1>2 DEF FindKey
  <2>2. /\ Answered(r, "OK")' =>
              /\ Bound(key(r))
              /\ idempotency_keys[key(r)].payout_id = reply'[r].payout
              /\ idempotency_keys[key(r)].request_hash = canonicalHash[body(r)]
        /\ Answered(r, "AlreadyExists")' =>
              /\ Bound(key(r))
              /\ idempotency_keys[key(r)].request_hash # canonicalHash[body(r)]
    BY <2>1 DEF IndInv, AnswersAgreeWithKeys, Answered
  <2>3. idempotency_keys[key(r)] \in Binding
    BY <1>2 DEF FindKey, IndInv, RequestInv, TypeOK, StoreTypeOK, CreateRequest, Bound, key
  <2>4. /\ existing' \in [Creates -> Binding \cup {Null}]
        /\ existing'[r] = idempotency_keys[key(r)]
        /\ \A s \in Creates \ {r} : existing'[s] = existing[s]
    BY <1>2, <1>r, <2>3 DEF FindKey
  <2> QED
    BY <1>2, <2>1, <2>2, <2>4, OnlyMoves DEF FindKey, Label
<1>3. ASSUME SerializationFailure(r) \/ TxFails(r) PROVE IndInv'
  <2>1. [code |-> "Internal", payout |-> Null, status |-> Null] \in Reply
    BY AnswerIsReply DEF Code
  <2>2. ~Answered(r, "OK")' /\ ~Answered(r, "AlreadyExists")'
    BY <1>3, <1>r DEF SerializationFailure, TxFails, Answered
  <2>3. /\ pc[r] \notin {"idle", "done"} /\ pc' = [pc EXCEPT ![r] = "done"]
        /\ UNCHANGED <<storeVars, providerVars, req, visible, seen, existing>>
        /\ \E answer \in Reply : reply' = [reply EXCEPT ![r] = answer]
    BY <1>3, <2>1 DEF SerializationFailure, TxFails
  <2> QED
    BY <1>r, <2>2, <2>3, OnlyMoves DEF Label
<1> QED
  BY <1>1, <1>2, <1>3

\* A losing request answers with what it read.
LEMMA ReplayPreserves ==
    ASSUME IndInv, NEW r \in Creates, Replay(r)
    PROVE  IndInv'
<1> USE DEF Answer, localVars
<1>r. /\ r \in Requests /\ existing \in [Creates -> Binding \cup {Null}]
      /\ reply \in [Requests -> Reply \cup {Null}] /\ payouts \in [PayoutIDs -> Row]
      /\ pc[r] = "replay"
  BY CreateIsARequest DEF IndInv, TypeOK, StoreTypeOK, Replay
<1>1. Bound(key(r)) /\ existing[r] = idempotency_keys[key(r)] /\ existing[r] \in Binding
  BY <1>r DEF IndInv, ReplayInv, Bound
<1>2. existing[r].payout_id \in PayoutIDs
  BY <1>1 DEF Binding
<1>3. /\ \E answer \in Reply : reply' = [reply EXCEPT ![r] = answer]
      /\ Answered(r, "OK")' =>
            /\ existing[r].payout_id = reply'[r].payout
            /\ existing[r].request_hash = canonicalHash[body(r)]
      /\ Answered(r, "AlreadyExists")' =>
            existing[r].request_hash # canonicalHash[body(r)]
  <2>1. CASE /\ existing[r].request_hash # canonicalHash[body(r)]
             /\ Answer(r, "AlreadyExists", Null, Null)
    BY <2>1, <1>r, AnswerIsReply DEF Answered, Code
  <2>2. CASE /\ existing[r].request_hash = canonicalHash[body(r)]
             /\ Exists(existing[r].payout_id)
             /\ Answer(r, "OK", existing[r].payout_id, payouts[existing[r].payout_id].state)
    <3>1. payouts[existing[r].payout_id].state \in PayoutState
      BY <2>2, <1>r, <1>2 DEF Row, Exists
    <3> QED
      BY <2>2, <3>1, <1>r, <1>2, AnswerIsReply DEF Answered, Code
  <2>3. CASE Answer(r, "Internal", Null, Null)
    BY <2>3, <1>r, AnswerIsReply DEF Answered, Code
  <2> QED
    BY <2>1, <2>2, <2>3 DEF Replay
<1>4. /\ pc' = [pc EXCEPT ![r] = "done"]
      /\ UNCHANGED <<storeVars, providerVars, req, visible, seen, existing>>
  BY DEF Replay
<1> QED
  BY <1>r, <1>1, <1>3, <1>4, OnlyMoves DEF Label

\* No provider to try, or an UPDATE that the database refused.
LEMMA NotSentPreserves ==
    ASSUME IndInv, NEW r \in Creates, NoProviders(r) \/ RecordRefused(r)
    PROVE  IndInv'
<1> USE DEF Goto, Answer, localVars
<1>r. /\ r \in Requests /\ r \in PayoutIDs /\ existing \in [Creates -> Binding \cup {Null}]
      /\ reply \in [Requests -> Reply \cup {Null}]
      /\ pc[r] \in Sending
  BY CreateIsARequest DEF IndInv, TypeOK, NoProviders, RecordRefused, Sending
<1>1. /\ Bound(key(r))
      /\ idempotency_keys[key(r)].payout_id = r
      /\ idempotency_keys[key(r)].request_hash = canonicalHash[body(r)]
  BY <1>r, SenderOwnsItsKey
<1>2. ASSUME NoProviders(r) PROVE IndInv'
  <2>1. /\ Answered(r, "OK")' =>
              /\ Bound(key(r))
              /\ idempotency_keys[key(r)].payout_id = reply'[r].payout
              /\ idempotency_keys[key(r)].request_hash = canonicalHash[body(r)]
        /\ Answered(r, "AlreadyExists")' =>
              /\ Bound(key(r))
              /\ idempotency_keys[key(r)].request_hash # canonicalHash[body(r)]
    BY <1>2 DEF NoProviders, IndInv, AnswersAgreeWithKeys, Answered
  <2> QED
    BY <1>2, <1>r, <2>1, OnlyMoves DEF NoProviders, Label
<1>3. ASSUME RecordRefused(r) PROVE IndInv'
  <2>1. [code |-> "OK", payout |-> r, status |-> "created"] \in Reply
    BY <1>r, AnswerIsReply DEF Code, PayoutState
  <2>2. reply' = [reply EXCEPT ![r] = [code |-> "OK", payout |-> r, status |-> "created"]]
    BY <1>3 DEF RecordRefused
  <2>3. reply'[r].payout = r /\ ~Answered(r, "AlreadyExists")'
    BY <1>r, <2>2 DEF Answered
  <2>4. /\ pc' = [pc EXCEPT ![r] = "done"]
        /\ UNCHANGED <<storeVars, providerVars, req, visible, seen, existing>>
        /\ \E answer \in Reply : reply' = [reply EXCEPT ![r] = answer]
    BY <1>3, <2>1, <2>2 DEF RecordRefused
  <2> QED
    BY <1>r, <1>1, <2>3, <2>4, OnlyMoves DEF Label, Sending
<1> QED
  BY <1>2, <1>3

(***************************************************************************)
(* CreatePayout, the steps that change tables and charges.                 *)
(***************************************************************************)

\* COMMIT binds an unbound key to a row nobody had: this is where the key
\* lock is needed.
LEMMA CommitPreserves ==
    ASSUME IndInv, NEW r \in Creates, CommitTx(r)
    PROVE  IndInv'
<1> USE DEF IndInv, localVars, providerVars
<1>r. r \in Requests /\ r \notin Cancels \cup Updates /\ r \in PayoutIDs
  BY CreateIsARequest
<1> DEFINE k == key(r)
           b == body(r)
           row == [state |-> "created", body |-> b, provider |-> Null, external_id |-> Null]
           binding == [request_hash |-> canonicalHash[b], payout_id |-> r]
<1>1. /\ pc[r] = "commit" /\ ~Bound(k) /\ ~Exists(r) /\ attempts[r] = <<>>
      /\ req[r] \in CreateRequest /\ k \in Keys /\ b \in Bodies
      /\ rail(r) \in SchemaRails
  BY DEF CommitTx, LockInv, RequestInv, TypeOK, InTransaction, CreateRequest, key, body
<1>2. row \in Row /\ binding \in Binding /\ binding # Null
  BY <1>1, <1>r, NullIsNoValue DEF Row, PayoutState, Binding
<1>3. /\ payouts' = [payouts EXCEPT ![r] = row]
      /\ idempotency_keys' = [idempotency_keys EXCEPT ![k] = binding]
  BY DEF CommitTx, CommitPayoutAndKey
<1>4. /\ payouts \in [PayoutIDs -> Row]
      /\ idempotency_keys \in [Keys -> Binding \cup {Null}]
  BY DEF TypeOK, StoreTypeOK
<1>5. \/ /\ pc' = [pc EXCEPT ![r] = "send"] /\ UNCHANGED reply
      \/ /\ pc' = [pc EXCEPT ![r] = "done"]
         /\ reply' = [reply EXCEPT ![r] = [code |-> "Internal", payout |-> Null, status |-> Null]]
  BY DEF CommitTx, Goto, Answer
<1>6. UNCHANGED <<stats, attempts, charges, events, req, visible, existing, seen>>
  BY DEF CommitTx
<1> HIDE DEF k, b, row, binding
<1>7. TypeOK'
  <2>1. StoreTypeOK'
    BY <1>2, <1>3, <1>4 DEF StoreTypeOK
  <2>2. ProvidersTypeOK'
    BY <1>6 DEF TypeOK, ProvidersTypeOK
  <2>3. reply' \in [Requests -> Reply \cup {Null}]
    BY <1>5, <1>r, AnswerIsReply DEF TypeOK, Code
  <2>4. pc' \in [Requests -> Label]
    BY <1>5, <1>r DEF TypeOK, Label
  <2> QED
    BY <2>1, <2>2, <2>3, <2>4, <1>6 DEF TypeOK
<1>8. /\ pc'[r] \in {"send", "done"}
      /\ \A s \in Requests : s # r => pc'[s] = pc[s] /\ reply'[s] = reply[s]
      /\ reply'[r] = reply[r] \/ (reply'[r].code = "Internal" /\ reply'[r] # Null)
      /\ pc'[r] = "send" => reply'[r] = reply[r]
  BY <1>5, <1>r, AnswerIsReply, NullIsNoValue DEF TypeOK, Code
<1>9. /\ payouts'[r] = row /\ row.state = "created" /\ row.body = b
      /\ \A id \in PayoutIDs : id # r => payouts'[id] = payouts[id]
      /\ idempotency_keys'[k] = binding /\ binding.payout_id = r
      /\ \A l \in Keys : l # k => idempotency_keys'[l] = idempotency_keys[l]
  BY <1>1, <1>3, <1>4, <1>r DEF row, binding
<1>10. \A s \in Creates : Exists(s) => key(s) # k /\ key(s) \in Keys
  <2> SUFFICES ASSUME NEW s \in Creates, Exists(s)
               PROVE  key(s) # k /\ key(s) \in Keys
    OBVIOUS
  <2>1. req[s] \in CreateRequest
    BY DEF RequestInv, TypeOK, InTransaction
  <2>2. key(s) \in Keys /\ body(s) \in Bodies
    BY <2>1 DEF CreateRequest, key, body
  <2>3. idempotency_keys[key(s)] = [request_hash |-> canonicalHash[body(s)], payout_id |-> s]
    BY DEF RequestInv
  <2>4. idempotency_keys[key(s)] \in Binding
    BY <2>2, <2>3 DEF Binding, Creates
  <2> QED
    BY <1>1, <2>2, <2>4, NullIsNoValue DEF Bound
<1>11. RequestInv'
  <2>1. \A s \in Creates : s # r =>
           /\ Exists(s)' = Exists(s) /\ payouts'[s] = payouts[s]
           /\ pc'[s] = pc[s] /\ reply'[s] = reply[s]
           /\ Exists(s) => idempotency_keys'[key(s)] = idempotency_keys[key(s)]
    BY <1>8, <1>9, <1>10 DEF Exists, Requests, Creates
  <2>2. Exists(r)'
    BY <1>9 DEF Exists
  <2>3. idempotency_keys'[key(r)] = [request_hash |-> canonicalHash[body(r)], payout_id |-> r]
    BY <1>9 DEF binding, k, b
  <2> QED
    BY <2>1, <2>2, <2>3, <1>1, <1>6, <1>8, <1>9 DEF RequestInv, key, body, rail, InTransaction, Sending, b
<1>12. KeyInv'
  <2>1. \A l \in Keys : Bound(l) => idempotency_keys[l].payout_id \in PayoutIDs
    BY <1>4 DEF Bound, Binding
  <2>2. \A l \in Keys : Bound(l) => idempotency_keys[l].payout_id # r
    BY <1>1 DEF KeyInv
  <2> QED
    BY <1>2, <1>6, <1>9, <2>1, <2>2 DEF KeyInv, Bound, Exists, key, k
<1>13. LockInv'
  <2>1. \A s \in Creates : s # r /\ pc[s] = "commit" => key(s) # k
    BY <1>1 DEF LockInv, k
  <2>2. \A s \in Creates : pc'[s] = "commit" => s # r /\ pc[s] = "commit"
    BY <1>8 DEF Requests
  <2>3. \A s \in Creates : pc[s] = "commit" => key(s) \in Keys
    BY DEF RequestInv, TypeOK, CreateRequest, key
  <2> QED
    BY <1>6, <1>9, <2>1, <2>2, <2>3 DEF LockInv, Bound, key
<1>14. ReplayInv'
  <2>1. \A s \in Creates : pc[s] = "replay" => key(s) \in Keys /\ key(s) # k
    BY <1>1 DEF ReplayInv, RequestInv, TypeOK, CreateRequest, key
  <2> QED
    BY <1>6, <1>8, <1>9, <2>1 DEF ReplayInv, Bound, key, Requests
<1>15. SeenInv'
  BY <1>6, <1>8, <1>r DEF SeenInv, Requests
<1>16. AnswersAgreeWithKeys'
  <2>1. \A s \in Creates, code \in Code \ {"Internal"} : Answered(s, code)' => Answered(s, code)
    BY <1>8 DEF Answered, Requests
  <2>2. \A s \in Creates, code \in {"OK", "AlreadyExists"} : Answered(s, code) =>
           key(s) \in Keys /\ key(s) # k
    <3>1. \A s \in Creates, code \in {"OK", "AlreadyExists"} : Answered(s, code) => req[s] \in CreateRequest
      BY DEF Answered, RequestInv, TypeOK
    <3> QED
      BY <3>1, <1>1 DEF AnswersAgreeWithKeys, CreateRequest, key
  <2>3. \A s \in Creates, code \in {"OK", "AlreadyExists"} : Answered(s, code)' => reply'[s] = reply[s]
    BY <1>8 DEF Answered, Requests
  <2> QED
    BY <2>1, <2>2, <2>3, <1>6, <1>9 DEF AnswersAgreeWithKeys, Bound, key, body, Code
<1>17. RouteInv'
  BY <1>1, <1>6, <1>8 DEF RouteInv, rail, body, Requests
<1>18. FallbackFollowsRoute'
  BY <1>6 DEF FallbackFollowsRoute, rail, body
<1> QED
  BY <1>7, <1>11, <1>12, <1>13, <1>14, <1>15, <1>16, <1>17, <1>18

\* UPDATE to "sent" or "failed": the row keeps its body and stays a row.
LEMMA RecordPreserves ==
    ASSUME IndInv, NEW r \in Creates, RecordSent(r) \/ RecordFailed(r)
    PROVE  IndInv'
<1> USE DEF IndInv, localVars, providerVars
<1>r. r \in Requests /\ r \notin Cancels \cup Updates /\ r \in PayoutIDs
  BY CreateIsARequest
<1>1. PICK label \in {"record_sent", "record_failed"}, state \in {"sent", "failed"},
           ext \in {<<LastProvider(r), r>>, Null} :
              /\ Record(r, label, state, ext)
              /\ label = "record_sent" \/ ext = Null
  BY DEF RecordSent, RecordFailed
<1>2. /\ pc[r] \in Sending /\ Exists(r)
      /\ LastProvider(r) \in SchemaProviders \cup {Null}
      /\ UpdatePayoutState(r, state, ext, LastProvider(r))
      /\ UNCHANGED <<stats, attempts, charges, events, req, visible, existing, seen>>
  BY <1>1 DEF Record, UpdateAccepted, Sending
<1>3. /\ payouts' = [payouts EXCEPT ![r] = [@ EXCEPT !.state = state, !.external_id = ext,
                                             !.provider = LastProvider(r)]]
      /\ idempotency_keys' = idempotency_keys
      /\ payouts \in [PayoutIDs -> Row]
  BY <1>2 DEF UpdatePayoutState, TypeOK, StoreTypeOK
<1>4. /\ \A id \in PayoutIDs :
            /\ payouts'[id].body = payouts[id].body
            /\ payouts'[id].state = "absent" <=> payouts[id].state = "absent"
      /\ Exists(r)'
  BY <1>2, <1>3, <1>r DEF Row, Exists
<1>5. /\ Bound(key(r))
      /\ idempotency_keys[key(r)].payout_id = r
      /\ idempotency_keys[key(r)].request_hash = canonicalHash[body(r)]
  BY <1>2, SenderOwnsItsKey
<1>6. PICK status \in {state, "created"} :
         /\ pc' = [pc EXCEPT ![r] = "done"]
         /\ reply' = [reply EXCEPT ![r] = [code |-> "OK", payout |-> r, status |-> status]]
  BY <1>1 DEF Record, Answer
<1>7. [code |-> "OK", payout |-> r, status |-> status] \in Reply
  BY <1>r, AnswerIsReply DEF Code, PayoutState
<1>8. /\ pc'[r] = "done" /\ reply'[r] = [code |-> "OK", payout |-> r, status |-> status]
      /\ \A s \in Requests : s # r => pc'[s] = pc[s] /\ reply'[s] = reply[s]
  BY <1>6, <1>r DEF TypeOK
<1>9. TypeOK'
  <2>1. StoreTypeOK'
    <3>1. ext \in ExternalID \cup {Null}
      <4> SUFFICES ASSUME ext # Null PROVE ext \in ExternalID
        OBVIOUS
      <4>1. attempts[r] # <<>> /\ attempts[r] \in Seq(Attempt)
        BY <1>1, <1>r DEF Record, RouteInv, TypeOK, ProvidersTypeOK
      <4>2. LastProvider(r) \in Provider
        <5>1. attempts[r][Len(attempts[r])] \in Attempt
          BY <4>1
        <5> QED
          BY <4>1, <5>1 DEF LastProvider, Attempt
      <4>3. ext = <<LastProvider(r), r>>
        BY <1>1
      <4> HIDE DEF IndInv
      <4> QED
        BY <1>r, <4>2, <4>3 DEF ExternalID
    <3>2. LastProvider(r) \in Provider \cup {Null}
      BY <1>2 DEF SchemaProviders, Provider
    <3> HIDE DEF IndInv
    <3>3. state \in PayoutState /\ StoreTypeOK
      BY DEF PayoutState, IndInv, TypeOK
    <3> QED
      BY <1>2, <1>r, <3>1, <3>2, <3>3, RowUpdate, Zenon
  <2>2. ProvidersTypeOK'
    BY <1>2 DEF TypeOK, ProvidersTypeOK
  <2> QED
    BY <2>1, <2>2, <1>2, <1>6, <1>7, <1>r DEF TypeOK, Label
<1>10. RequestInv'
  BY <1>2, <1>3, <1>4, <1>8, <1>r DEF RequestInv, Exists, key, body, rail, InTransaction, Sending, Requests, Creates
<1>11. KeyInv'
  <2>1. \A k \in Keys : Bound(k) => idempotency_keys[k].payout_id \in PayoutIDs
    BY DEF TypeOK, StoreTypeOK, Bound, Binding
  <2> QED
    BY <2>1, <1>2, <1>3, <1>4 DEF KeyInv, Exists, Bound, key
<1>12. LockInv' /\ ReplayInv'
  BY <1>2, <1>3, <1>8 DEF LockInv, ReplayInv, Bound, key, Requests
<1>13. SeenInv'
  BY <1>2, <1>8, <1>r DEF SeenInv, Requests
<1>14. AnswersAgreeWithKeys'
  BY <1>2, <1>3, <1>5, <1>8 DEF AnswersAgreeWithKeys, Answered, Bound, key, body, Requests
<1>15. RouteInv' /\ FallbackFollowsRoute'
  BY <1>2, <1>8 DEF RouteInv, FallbackFollowsRoute, rail, body, Requests
<1> QED
  BY <1>9, <1>10, <1>11, <1>12, <1>13, <1>14, <1>15

\* An element of a sequence over T is in T.
LEMMA ElementOfSequence ==
    ASSUME NEW T, NEW s \in Seq(T), NEW i \in 1 .. Len(s)
    PROVE  s[i] \in T
OBVIOUS

\* The tracker keeps two counters for every rail and provider.
LEMMA OutcomeIsCounted ==
    ASSUME NEW rl, NEW p, NEW out,
           <<rl, p>> \in Rail \X Provider,
           stats \in [Rail \X Provider -> Counter],
           RecordOutcome(rl, p, out)
    PROVE  stats' \in [Rail \X Provider -> Counter]
BY DEF RecordOutcome, Counter

\* One iteration of the fallback loop.
LEMMA SendPreserves ==
    ASSUME IndInv, NEW r \in Creates, SendPayout(r)
    PROVE  IndInv'
<1> USE DEF IndInv
<1>r. r \in Requests /\ r \notin Cancels \cup Updates /\ r \in PayoutIDs
  BY CreateIsARequest
<1> DEFINE rl == rail(r)
           n == Len(attempts[r])
           p == NextProvider(r, rl)
<1>1. PICK out \in Outcomes(p) :
         /\ TryProvider(r, rl, p, out)
         /\ \/ out = "ok" /\ Goto(r, "record_sent")
            \/ /\ isRetryable(out)
               /\ n + 1 < Len(GetProviders(rl))
               /\ Goto(r, "send")
            \/ Goto(r, "record_failed")
  BY DEF SendPayout
<1>2. /\ pc[r] = "send" /\ n < Len(GetProviders(rl))
      /\ UNCHANGED <<payouts, idempotency_keys, req, visible, existing, seen, reply>>
  BY <1>1 DEF SendPayout, HasNextProvider, storeVars, localVars, Goto
<1>3. rl \in SchemaRails /\ Exists(r)
  BY <1>2 DEF RequestInv, Sending
<1>4. attempts[r] \in Seq(Attempt) /\ n \in Nat
  BY <1>r DEF TypeOK, ProvidersTypeOK
<1>5. /\ p \in Provider
      /\ p = GetProviders(rl)[n + 1].provider
  <2>1. GetProviders(rl) \in Seq([provider : Provider, active : BOOLEAN])
    BY <1>3, ProvidersOfRail
  <2>2. n + 1 \in 1 .. Len(GetProviders(rl))
    <3> HIDE DEF n, rl, IndInv
    <3>1. Len(GetProviders(rl)) \in Nat
      BY <2>1
    <3> QED
      BY <3>1, <1>2, <1>4
  <2>3. GetProviders(rl)[n + 1] \in [provider : Provider, active : BOOLEAN]
    <3> HIDE DEF n, rl, IndInv
    <3> QED
      BY <2>1, <2>2, ElementOfSequence
  <2> QED
    BY <2>3 DEF NextProvider
<1>6. out \in Outcome
  BY DEF Outcomes, Outcome
<1> HIDE DEF p, rl, n
<1>7. [provider |-> p, outcome |-> out] \in Attempt
  BY <1>5, <1>6 DEF Attempt
<1>8. /\ attempts' = [attempts EXCEPT ![r] = Append(@, [provider |-> p, outcome |-> out])]
      /\ attempts'[r] = Append(attempts[r], [provider |-> p, outcome |-> out])
      /\ \A s \in Creates : s # r => attempts'[s] = attempts[s]
      /\ attempts' \in [PayoutIDs -> Seq(Attempt)]
  BY <1>1, <1>4, <1>7, <1>r DEF TryProvider, TypeOK, ProvidersTypeOK, Creates
<1>9. /\ pc' \in [Requests -> Label]
      /\ pc'[r] \in {"record_sent", "send", "record_failed"}
      /\ pc'[r] = "send" => isRetryable(out) /\ n + 1 < Len(GetProviders(rl))
      /\ \A s \in Requests : s # r => pc'[s] = pc[s]
  BY <1>1, <1>r DEF Goto, TypeOK, Label
<1>10. TypeOK'
  <2>1. stats' \in [Rail \X Provider -> Counter]
    <3>1. <<rl, p>> \in Rail \X Provider /\ stats \in [Rail \X Provider -> Counter]
      BY <1>3, <1>5 DEF Rail, SchemaRails, TypeOK, ProvidersTypeOK
    <3>2. RecordOutcome(rl, p, out)
      BY <1>1 DEF TryProvider
    <3> HIDE DEF IndInv
    <3> QED
      BY <3>1, <3>2, OutcomeIsCounted
  <2>2. charges' \in [PayoutIDs -> [Provider -> ChargeState]]
    <3>1. ChargeOf(out) \in ChargeState
      BY <1>6 DEF ChargeOf, ChargeState, Outcome
    <3>2. charges[r] \in [Provider -> ChargeState] /\ charges \in [PayoutIDs -> [Provider -> ChargeState]]
      BY <1>r DEF TypeOK, ProvidersTypeOK
    <3>3. [charges[r] EXCEPT ![p] = ChargeOf(out)] \in [Provider -> ChargeState]
      BY <3>1, <3>2
    <3>4. charges' = [charges EXCEPT ![r][p] = ChargeOf(out)]
      BY <1>1 DEF TryProvider
    <3> HIDE DEF IndInv
    <3> QED
      BY <3>2, <3>3, <3>4
  <2>3. events' \in SUBSET Event
    <3>1. EventOf(r, p, "payout_failed") \in Event
      BY <1>5, <1>r DEF EventOf, Event, ExternalID
    <3> QED
      BY <1>1, <3>1 DEF TryProvider, TypeOK, ProvidersTypeOK
  <2> QED
    BY <2>1, <2>2, <2>3, <1>2, <1>8, <1>9 DEF TypeOK, StoreTypeOK, ProvidersTypeOK
<1>11. RequestInv'
  <2>1. \A s \in Creates : s # r => attempts'[s] = attempts[s] /\ pc'[s] = pc[s]
    BY <1>8, <1>9 DEF Requests
  <2> QED
    BY <2>1, <1>2, <1>3, <1>9 DEF RequestInv, Exists, key, body, rail, InTransaction, Sending, rl
<1>12. KeyInv'
  BY <1>2 DEF KeyInv, Exists, Bound, key
<1>13. LockInv' /\ ReplayInv'
  BY <1>2, <1>9 DEF LockInv, ReplayInv, Bound, key, Requests
<1>14. SeenInv'
  BY <1>2, <1>9, <1>r DEF SeenInv, Requests
<1>15. AnswersAgreeWithKeys'
  BY <1>2 DEF AnswersAgreeWithKeys, Answered, Bound, key, body
<1>16. /\ Len(attempts'[r]) = n + 1
       /\ attempts'[r][n + 1] = [provider |-> p, outcome |-> out]
       /\ \A i \in 1 .. n : attempts'[r][i] = attempts[r][i]
  BY <1>4, <1>7, <1>8 DEF n
<1>17. \A i \in 1 .. n : isRetryable(attempts[r][i].outcome)
  BY <1>2 DEF RouteInv, n
<1>18. \A s \in Creates : rail(s)' = rail(s)
  BY <1>2 DEF rail, body
<1>19. RouteInv'
  <2>1. \A i \in 1 .. Len(attempts'[r]) : pc'[r] = "send" => isRetryable(attempts'[r][i].outcome)
    BY <1>4, <1>9, <1>16, <1>17
  <2>2. pc'[r] = "send" => Len(attempts'[r]) < Len(GetProviders(rail(r)))
    BY <1>9, <1>16 DEF rl
  <2>3. attempts'[r] # <<>>
    BY <1>4, <1>16, <1>8
  <2> QED
    BY <2>1, <2>2, <2>3, <1>8, <1>9, <1>18 DEF RouteInv, Requests
<1>20. FallbackFollowsRoute'
  <2>1. \A i \in 1 .. n : attempts[r][i].provider = GetProviders(rl)[i].provider
    BY <1>4 DEF FallbackFollowsRoute, n, rl
  <2>2. /\ Len(attempts'[r]) <= Len(GetProviders(rl))
        /\ \A i \in 1 .. Len(attempts'[r]) :
              attempts'[r][i].provider = GetProviders(rl)[i].provider
        /\ \A i \in 1 .. Len(attempts'[r]) - 1 : isRetryable(attempts'[r][i].outcome)
    <3>1. GetProviders(rl) \in Seq([provider : Provider, active : BOOLEAN])
      BY <1>3, ProvidersOfRail
    <3> QED
      BY <3>1, <2>1, <1>2, <1>4, <1>5, <1>16, <1>17
  <2> QED
    BY <2>2, <1>8, <1>18 DEF FallbackFollowsRoute, isRetryable, rl
<1> QED
  BY <1>10, <1>11, <1>12, <1>13, <1>14, <1>15, <1>19, <1>20

\* Every step of the service preserves the invariant.
LEMMA NextIndInv == IndInv /\ [Next]_vars => IndInv'
<1> SUFFICES ASSUME IndInv, [Next]_vars PROVE IndInv'
  OBVIOUS
<1>1. ASSUME NEW r \in Creates, NEW k \in Keys, NEW b \in Bodies, BeginCreate(r, k, b)
      PROVE  IndInv'
  BY <1>1, BeginCreatePreserves
<1>2. ASSUME NEW r \in Creates, CreateStep(r) PROVE IndInv'
  BY <1>2, KeyStepPreserves, CommitPreserves, ReplayPreserves, SendPreserves,
     NotSentPreserves, RecordPreserves DEF CreateStep
<1>3. ASSUME NEW c \in Cancels, NEW id \in PayoutIDs, BeginCancel(c, id) PROVE IndInv'
  BY <1>3, CancelPreserves
<1>4. ASSUME NEW c \in Cancels, CancelStep(c) PROVE IndInv'
  BY <1>4, CancelPreserves
<1>5. ASSUME NEW u \in Updates, NEW e \in Notifications, BeginApply(u, e) PROVE IndInv'
  BY <1>5, ApplyPreserves
<1>6. ASSUME NEW u \in Updates, ApplyUpdate(u) PROVE IndInv'
  BY <1>6, ApplyPreserves
<1>7. CASE ProviderSettles
  BY <1>7, SettlePreserves
<1>8. CASE Crash
  BY <1>8, CrashPreserves
<1>9. CASE UNCHANGED vars
  <2> USE <1>9 DEF vars, storeVars, providerVars, localVars, IndInv
  <2>1. TypeOK' /\ SeenInv'
    BY DEF TypeOK, StoreTypeOK, ProvidersTypeOK, SeenInv
  <2> QED
    BY <2>1, CreatesUntouched
<1> QED
  BY <1>1, <1>2, <1>3, <1>4, <1>5, <1>6, <1>7, <1>8, <1>9 DEF Next

\* A stored payout and its key name each other.
LEMMA RowAndKey ==
    ASSUME IndInv, NEW id \in PayoutIDs, Exists(id)
    PROVE  /\ key(id) \in Keys /\ Bound(key(id))
           /\ idempotency_keys[key(id)] =
                 [request_hash |-> canonicalHash[body(id)], payout_id |-> id]
           /\ payouts[id].body = body(id)
<1> USE DEF IndInv
<1>1. id \in Creates /\ pc[id] # "idle" /\ req[id] # Null
  BY DEF RequestInv, Creates
<1>2. req[id] \in CreateRequest
  BY <1>1 DEF TypeOK
<1>3. /\ payouts[id].body = body(id)
      /\ idempotency_keys[key(id)] =
            [request_hash |-> canonicalHash[body(id)], payout_id |-> id]
  BY <1>1 DEF RequestInv
<1>4. key(id) \in Keys /\ body(id) \in Bodies
  BY <1>2 DEF CreateRequest, key, body
<1>5. idempotency_keys[key(id)] \in Binding
  BY <1>3, <1>4 DEF Binding
<1> QED
  BY <1>3, <1>4, <1>5, NullIsNoValue DEF Bound

\* Rows and keys match in every state of the invariant.
LEMMA RowsAndKeysFollow == IndInv => RowsAndKeysMatch
<1> SUFFICES ASSUME IndInv PROVE RowsAndKeysMatch
  OBVIOUS
<1>1. \A k \in Keys : Bound(k) =>
         /\ idempotency_keys[k].payout_id \in PayoutIDs
         /\ Exists(idempotency_keys[k].payout_id)
         /\ key(idempotency_keys[k].payout_id) = k
  BY DEF IndInv, TypeOK, StoreTypeOK, Bound, Binding, KeyInv
<1>2. ASSUME NEW id \in PayoutIDs
      PROVE  Exists(id) <=> \E k \in Keys : Bound(k) /\ idempotency_keys[k].payout_id = id
  <2>1. ASSUME Exists(id)
        PROVE  \E k \in Keys : Bound(k) /\ idempotency_keys[k].payout_id = id
    <3>1. /\ key(id) \in Keys /\ Bound(key(id))
          /\ idempotency_keys[key(id)] =
                [request_hash |-> canonicalHash[body(id)], payout_id |-> id]
      BY <2>1, RowAndKey
    <3>2. idempotency_keys[key(id)].payout_id = id
      BY <3>1
    <3> QED
      BY <3>1, <3>2
  <2> QED
    BY <1>1, <2>1
<1>3. ASSUME NEW k \in Keys, Bound(k)
      PROVE  idempotency_keys[k].request_hash =
                canonicalHash[payouts[idempotency_keys[k].payout_id].body]
  <2> DEFINE id == idempotency_keys[k].payout_id
  <2>1. id \in PayoutIDs /\ Exists(id) /\ key(id) = k
    BY <1>1, <1>3
  <2> HIDE DEF id
  <2>2. /\ idempotency_keys[k] = [request_hash |-> canonicalHash[body(id)], payout_id |-> id]
        /\ payouts[id].body = body(id)
    BY <2>1, RowAndKey
  <2> QED
    BY <2>2 DEF id
<1> QED
  BY <1>1, <1>2, <1>3 DEF RowsAndKeysMatch

\* Whoever called a provider is the payout its key means.
LEMMA OneSenderFollows == IndInv => OneSenderPerKey
<1> SUFFICES ASSUME IndInv, NEW r \in Creates, attempts[r] # <<>>
             PROVE  /\ Bound(key(r))
                    /\ idempotency_keys[key(r)] =
                          [request_hash |-> canonicalHash[body(r)], payout_id |-> r]
  BY DEF OneSenderPerKey
<1>1. Exists(r) /\ r \in PayoutIDs
  BY DEF IndInv, RequestInv, Creates
<1> QED
  BY <1>1, RowAndKey

\* The inductive invariant holds in every reachable state.
THEOREM Invariance == Spec => []IndInv
BY InitIndInv, NextIndInv, PTL DEF Spec

\* Tables, tracker, charges and the locals of every handler keep their types;
\* in particular every state ApplyProviderUpdate and CancelPayout write is one
\* the schema allows.
THEOREM TypeCorrectness == Spec => []TypeOK
<1>1. IndInv => TypeOK
  BY DEF IndInv
<1> QED
  BY <1>1, Invariance, PTL

\* CreatePayout's answers agree with what the key means, for any number of
\* concurrent requests, database faults and crashes.
THEOREM KeyAgreement == Spec => []AnswersAgreeWithKeys
<1>1. IndInv => AnswersAgreeWithKeys
  BY DEF IndInv
<1> QED
  BY <1>1, Invariance, PTL

\* No payout row without its key, no key without its row.
THEOREM NoOrphanRows == Spec => []RowsAndKeysMatch
BY RowsAndKeysFollow, Invariance, PTL

\* Of the requests that share a key only the one that bound it calls a
\* provider.
THEOREM SingleSender == Spec => []OneSenderPerKey
BY OneSenderFollows, Invariance, PTL

\* SendPayoutWithFallback tries the rail's active providers in order, each
\* once, and goes on only after a retryable error.
THEOREM FallbackOrder == Spec => []FallbackFollowsRoute
<1>1. IndInv => FallbackFollowsRoute
  BY DEF IndInv
<1> QED
  BY <1>1, Invariance, PTL

=============================================================================
