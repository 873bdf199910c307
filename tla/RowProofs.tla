----------------------------- MODULE RowProofs -----------------------------
(***************************************************************************)
(* A payout's row tells the truth about its charge, whatever the order of  *)
(* the send, cancels and notifications, and whatever fails: proofs for any *)
(* number of requests, any registry and any combination of faults, where   *)
(* updates name payouts as the providers do (an update by UUID is written  *)
(* without looking at the charge).                                         *)
(***************************************************************************)
EXTENDS PayoutServiceProofs

Last(id) == attempts[id][Len(attempts[id])]

Charged(id, p) ==
    \E i \in 1 .. Len(attempts[id]) : attempts[id][i].provider = p

\* A provider has done something for a payout only if it was tried, and has
\* if the try succeeded.
ChargeInv ==
    \A id \in PayoutIDs :
        /\ \A p \in Provider : charges[id][p] # "none" => Charged(id, p)
        /\ \A i \in 1 .. Len(attempts[id]) :
              attempts[id][i].outcome = "ok" => charges[id][attempts[id][i].provider] # "none"

\* What a provider said of a charge stays true.
Says == [payout_succeeded |-> "succeeded",
         payout_failed    |-> "failed",
         payout_canceled  |-> "canceled"]

EventInv == \A e \in events : charges[e.ref[2]][e.ref[1]] = Says[e.status]

\* A row gets its reference when the send is recorded, and only a paid payout
\* is completed.
RowOK(id) ==
    /\ payouts[id].state \in {"absent", "created", "sent", "completed", "failed", "canceled"}
    /\ pc[id] \in Sending =>
          payouts[id].external_id = Null /\ payouts[id].state \in {"created", "canceled"}
    /\ pc[id] = "record_sent" => Last(id).outcome = "ok"
    /\ payouts[id].external_id # Null =>
          /\ pc[id] \in {"done", "lost"}
          /\ payouts[id].provider \in Provider
          /\ payouts[id].external_id = <<payouts[id].provider, id>>
          /\ attempts[id] # <<>>
          /\ Last(id) = [provider |-> payouts[id].provider, outcome |-> "ok"]
    /\ payouts[id].state \in {"sent", "completed"} => payouts[id].external_id # Null
    /\ payouts[id].state = "completed" => charges[id][payouts[id].provider] = "succeeded"

RowInv == \A id \in PayoutIDs : RowOK(id)

\* An update past its read has read the reference the row still has, and
\* writes what has become of the charge.
Reported(id) ==
    IF charges[id][payouts[id].provider] = "succeeded" THEN "completed"
    ELSE charges[id][payouts[id].provider]

ApplyInv ==
    \A u \in Updates : pc[u] = "apply" =>
        LET id == seen[u].id
        IN /\ payouts[id].external_id # Null
           /\ seen[u].row.external_id = payouts[id].external_id
           /\ seen[u].row.provider = payouts[id].provider
           /\ charges[id][payouts[id].provider] \in {"succeeded", "failed", "canceled"}
           /\ seen[u].to = Reported(id)

\* The conjunction the handlers preserve, given IndInv.
RowIndInv == ChargeInv /\ EventInv /\ RowInv /\ ApplyInv

\* What the fallback loop has recorded of a payout is a sequence of attempts.
LEMMA AttemptsAreASequence ==
    ASSUME IndInv, NEW id \in PayoutIDs
    PROVE  /\ attempts[id] \in Seq(Attempt)
           /\ Len(attempts[id]) \in Nat
           /\ attempts[id] # <<>> => Len(attempts[id]) \in 1 .. Len(attempts[id])
<1>1. attempts[id] \in Seq(Attempt)
  BY DEF IndInv, TypeOK, ProvidersTypeOK
<1>2. Len(attempts[id]) \in Nat
  BY <1>1
<1>3. attempts[id] # <<>> => Len(attempts[id]) # 0
  BY <1>1
<1> QED
  BY <1>1, <1>2, <1>3

\* Nothing has happened yet.
LEMMA InitRowIndInv == Init => RowIndInv
<1> SUFFICES ASSUME Init PROVE RowIndInv
  OBVIOUS
<1>1. \A id \in PayoutIDs :
         /\ payouts[id] = NoRow /\ attempts[id] = <<>> /\ pc[id] = "idle"
         /\ \A p \in Provider : charges[id][p] = "none"
  BY DEF Init, StoreInit, ProvidersInit, Requests, Creates
<1>2. events = {} /\ \A u \in Updates : pc[u] = "idle"
  BY DEF Init, ProvidersInit, Requests
<1>3. ChargeInv /\ EventInv /\ RowInv /\ ApplyInv
  BY <1>1, <1>2 DEF ChargeInv, EventInv, RowInv, RowOK, ApplyInv, NoRow, Sending
<1> QED
  BY <1>3 DEF RowIndInv

\* Steps that touch neither rows nor charges.
LEMMA RowsUntouched ==
    ASSUME IndInv, RowIndInv,
           UNCHANGED <<payouts, attempts, charges, events>>,
           \A id \in PayoutIDs :
              \/ pc'[id] = pc[id]
              \/ /\ pc[id] \notin {"done", "lost"}
                 /\ pc'[id] # "record_sent"
                 /\ pc'[id] \in Sending => pc[id] \in Sending,
           \A u \in Updates : pc'[u] = "apply" => pc[u] = "apply" /\ seen'[u] = seen[u]
    PROVE  RowIndInv'
<1> USE DEF RowIndInv
<1>1. ChargeInv' /\ EventInv'
  BY DEF ChargeInv, EventInv, Charged
<1>2. RowInv'
  BY DEF RowInv, RowOK, Last, Sending
<1>3. ApplyInv'
  BY DEF ApplyInv, Reported
<1> QED
  BY <1>1, <1>2, <1>3

\* A step of one request that goes on to a label or answers, and touches
\* neither rows nor charges.
LEMMA OneMoves ==
    ASSUME IndInv, RowIndInv, NEW r \in Requests, NEW label,
           UNCHANGED <<payouts, attempts, charges, events>>,
           pc' = [pc EXCEPT ![r] = label],
           pc[r] \notin {"done", "lost"}, label \notin {"record_sent", "apply"},
           label \in Sending => pc[r] \in Sending,
           \A u \in Updates : u # r => seen'[u] = seen[u]
    PROVE  RowIndInv'
<1>1. /\ pc'[r] = label
      /\ \A q \in Requests : q # r => pc'[q] = pc[q]
  BY DEF IndInv, TypeOK
<1>2. PayoutIDs \subseteq Requests /\ Updates \subseteq Requests
  BY DEF Requests, Creates
<1> QED
  BY <1>1, <1>2, RowsUntouched

\* The transaction before it commits, a replay, a send without a provider and
\* a refused record.
LEMMA QuietCreate ==
    ASSUME IndInv, RowIndInv, NEW r \in Creates,
           \/ \E k \in Keys, b \in Bodies : BeginCreate(r, k, b)
           \/ InsertKey(r) \/ FindKey(r) \/ SerializationFailure(r) \/ TxFails(r)
           \/ Replay(r) \/ NoProviders(r) \/ RecordRefused(r)
    PROVE  RowIndInv'
<1>1. /\ UNCHANGED <<payouts, attempts, charges, events, seen>>
      /\ pc[r] \notin {"done", "lost"}
  BY DEF BeginCreate, InsertKey, FindKey, SerializationFailure, TxFails, Replay,
     NoProviders, RecordRefused, storeVars, providerVars, localVars
<1>2. \E label : /\ pc' = [pc EXCEPT ![r] = label]
                 /\ label \notin {"record_sent", "apply"}
                 /\ label \in Sending => pc[r] \in Sending
  BY DEF BeginCreate, InsertKey, FindKey, SerializationFailure, TxFails, Replay,
     NoProviders, RecordRefused, Goto, Answer, Sending
<1> QED
  BY <1>1, <1>2, OneMoves, CreateIsARequest

\* A cancel that reads, and one that is answered without a change.
LEMMA QuietCancel ==
    ASSUME IndInv, RowIndInv, NEW c \in Cancels, NEW id \in PayoutIDs, BeginCancel(c, id)
    PROVE  RowIndInv'
<1>1. /\ UNCHANGED <<payouts, attempts, charges, events>>
      /\ pc[c] = "idle" /\ c \in Requests
      /\ \A u \in Updates : u # c
  BY KindsDiffer DEF BeginCancel, storeVars, providerVars, Requests
<1>2. \A u \in Updates : seen'[u] = seen[u]
  BY <1>1 DEF BeginCancel, IndInv, TypeOK
<1>3. \E label : pc' = [pc EXCEPT ![c] = label]
                 /\ label \notin Sending \cup {"apply"}
  BY DEF BeginCancel, Goto, Answer, Sending
<1> QED
  BY <1>1, <1>2, <1>3, OneMoves DEF Sending

\* COMMIT adds a row without a reference.
LEMMA CommitKeepsRows ==
    ASSUME IndInv, RowIndInv, NEW r \in Creates, CommitTx(r)
    PROVE  RowIndInv'
<1> USE DEF RowIndInv
<1>1. /\ UNCHANGED <<attempts, charges, events, seen>>
      /\ pc[r] = "commit" /\ r \in PayoutIDs /\ r \in Requests
  BY CreateIsARequest DEF CommitTx, providerVars, localVars
<1>2. /\ payouts'[r].state = "created" /\ payouts'[r].external_id = Null
      /\ payouts[r].external_id = Null
      /\ \A id \in PayoutIDs : id # r => payouts'[id] = payouts[id]
  BY <1>1 DEF CommitTx, CommitPayoutAndKey, IndInv, TypeOK, StoreTypeOK, RowInv, RowOK
<1>3. /\ pc'[r] \in {"send", "done"}
      /\ \A q \in Requests : q # r => pc'[q] = pc[q]
  BY <1>1 DEF CommitTx, Goto, Answer, IndInv, TypeOK
<1>4. PayoutIDs \subseteq Requests /\ Updates \subseteq Requests /\ \A u \in Updates : u # r
  BY CreateIsARequest DEF Requests, Creates
<1>5. ChargeInv' /\ EventInv'
  BY <1>1 DEF ChargeInv, EventInv, Charged
<1>6. RowInv'
  BY <1>1, <1>2, <1>3, <1>4 DEF RowInv, RowOK, Last, Sending
<1>7. ASSUME NEW u \in Updates, pc'[u] = "apply"
      PROVE  pc[u] = "apply" /\ seen[u].id # r /\ seen[u].id \in PayoutIDs
  <2>1. pc[u] = "apply"
    BY <1>3, <1>4, <1>7
  <2>2. seen[u] \in Observation
    BY <2>1 DEF IndInv, TypeOK, SeenInv
  <2> QED
    BY <1>2, <2>1, <2>2 DEF ApplyInv, Observation
<1>8. ApplyInv'
  BY <1>1, <1>2, <1>7 DEF ApplyInv, Reported
<1> QED
  BY <1>5, <1>6, <1>8

\* The result of the send is recorded, over "created" or "canceled".
LEMMA RecordKeepsRows ==
    ASSUME IndInv, RowIndInv, NEW r \in Creates, RecordSent(r) \/ RecordFailed(r)
    PROVE  RowIndInv'
<1> USE DEF RowIndInv
<1>1. /\ UNCHANGED <<attempts, charges, events, seen>>
      /\ pc[r] \in {"record_sent", "record_failed"} /\ r \in PayoutIDs /\ r \in Requests
  BY CreateIsARequest DEF RecordSent, RecordFailed, Record, providerVars, localVars
<1>2. /\ payouts[r].external_id = Null
      /\ \A id \in PayoutIDs : id # r => payouts'[id] = payouts[id]
  BY <1>1 DEF RecordSent, RecordFailed, Record, UpdatePayoutState, IndInv, TypeOK,
     StoreTypeOK, RowInv, RowOK, Sending
<1>3. /\ pc'[r] = "done"
      /\ \A q \in Requests : q # r => pc'[q] = pc[q]
  BY <1>1 DEF RecordSent, RecordFailed, Record, Answer, IndInv, TypeOK
<1>4. PayoutIDs \subseteq Requests /\ Updates \subseteq Requests /\ \A u \in Updates : u # r
  BY CreateIsARequest DEF Requests, Creates
<1>5. ChargeInv' /\ EventInv'
  BY <1>1 DEF ChargeInv, EventInv, Charged
<1>6. payouts[r] \in Row
  BY <1>1 DEF IndInv, TypeOK, StoreTypeOK
<1>7. ASSUME RecordSent(r) PROVE RowInv'
  <2>1. /\ pc[r] = "record_sent"
        /\ payouts'[r].state = "sent" /\ payouts'[r].provider = LastProvider(r)
        /\ payouts'[r].external_id = <<LastProvider(r), r>>
    BY <1>1, <1>6, <1>7 DEF RecordSent, Record, UpdatePayoutState, Row, IndInv, TypeOK, StoreTypeOK
  <2>2. attempts[r] # <<>> /\ Last(r).outcome = "ok"
    <3>1. attempts[r] # <<>>
      BY <2>1 DEF IndInv, RouteInv
    <3> QED
      BY <1>1, <2>1, <3>1 DEF RowInv, RowOK
  <2>3. Last(r) \in Attempt /\ LastProvider(r) = Last(r).provider
    <3>1. attempts[r] \in Seq(Attempt) /\ Len(attempts[r]) \in 1 .. Len(attempts[r])
      BY <1>1, <2>2, AttemptsAreASequence
    <3>2. Last(r) \in Attempt
      BY <3>1, ElementOfSequence DEF Last
    <3> QED
      BY <2>2, <3>2 DEF Last, LastProvider
  <2>4. LastProvider(r) \in Provider /\ Last(r) = [provider |-> LastProvider(r), outcome |-> "ok"]
    BY <2>2, <2>3 DEF Attempt
  <2>5. <<LastProvider(r), r>> # Null
    BY <1>1, <2>4, NullIsNoValue DEF ExternalID
  <2>6. RowOK(r)'
    <3> DEFINE p == LastProvider(r)
    <3>1. /\ payouts'[r].state = "sent"
          /\ payouts'[r].provider = p /\ payouts'[r].external_id = <<p, r>>
          /\ p \in Provider /\ <<p, r>> # Null
          /\ attempts'[r] # <<>> /\ Last(r)' = [provider |-> p, outcome |-> "ok"]
      BY <1>1, <2>1, <2>2, <2>4, <2>5 DEF Last
    <3> HIDE DEF p
    <3> QED
      BY <1>3, <3>1 DEF RowOK, Sending
  <2>7. ASSUME NEW id \in PayoutIDs, id # r
        PROVE  RowOK(id)'
    <3>1. payouts'[id] = payouts[id] /\ pc'[id] = pc[id]
      BY <1>2, <1>3, <1>4, <2>7
    <3> QED
      BY <1>1, <3>1 DEF RowInv, RowOK, Last
  <2> QED
    BY <2>6, <2>7 DEF RowInv
<1>8. ASSUME RecordFailed(r) PROVE RowInv'
  <2>1. payouts'[r].state = "failed" /\ payouts'[r].external_id = Null
    BY <1>1, <1>6, <1>8 DEF RecordFailed, Record, UpdatePayoutState, Row, IndInv, TypeOK, StoreTypeOK
  <2>2. RowInv'
    BY <1>1, <1>2, <1>3, <1>4, <2>1 DEF RowInv, RowOK, Last, Sending
  <2> QED
    BY <2>2
<1>9. ASSUME NEW u \in Updates, pc'[u] = "apply"
      PROVE  pc[u] = "apply" /\ seen[u].id # r /\ seen[u].id \in PayoutIDs
  <2>1. pc[u] = "apply"
    BY <1>3, <1>4, <1>9
  <2>2. seen[u] \in Observation
    BY <2>1 DEF IndInv, TypeOK, SeenInv
  <2> QED
    BY <1>2, <2>1, <2>2 DEF ApplyInv, Observation
<1>10. ApplyInv'
  BY <1>1, <1>2, <1>9 DEF ApplyInv, Reported
<1> QED
  BY <1>5, <1>7, <1>8, <1>10

\* A cancel changes the state of a row that is neither completed nor failed.
LEMMA CancelKeepsRows ==
    ASSUME IndInv, RowIndInv, NEW c \in Cancels, CancelInDB(c)
    PROVE  RowIndInv'
<1>1. /\ UNCHANGED <<attempts, charges, events, seen>>
      /\ c \in Requests /\ \A q \in PayoutIDs \cup Updates : q # c /\ q \in Requests
      /\ pc[c] = "cancel_db"
  BY KindsDiffer DEF CancelInDB, providerVars, localVars, Requests, Creates
<1>2. /\ pc' = [pc EXCEPT ![c] = "done"]
      /\ \A q \in PayoutIDs \cup Updates : pc'[q] = pc[q]
  BY <1>1 DEF CancelInDB, Answer, IndInv, TypeOK
<1>3. CASE UNCHANGED payouts
  <2>1. /\ UNCHANGED <<payouts, attempts, charges, events>>
        /\ pc[c] \notin {"done", "lost"} /\ \A v \in Updates : seen'[v] = seen[v]
    BY <1>1, <1>3
  <2>2. "done" \notin {"record_sent", "apply"} /\ "done" \notin Sending
    BY DEF Sending
  <2> QED
    BY <1>1, <1>2, <2>1, <2>2, OneMoves
<1>4. seen[c].id \in PayoutIDs
  BY <1>1 DEF IndInv, TypeOK, SeenInv, Observation
<1>5. ASSUME NEW id \in PayoutIDs, CancelPayoutIfCancelable(id)
      PROVE  RowIndInv'
  <2> USE DEF RowIndInv
  <2>2. /\ payouts[id] \in Row
        /\ payouts[id].state \in cancelableStates
        /\ payouts' = [payouts EXCEPT ![id].state = "canceled"]
    BY <1>5 DEF CancelPayoutIfCancelable, IndInv, TypeOK, StoreTypeOK
  <2>3. /\ payouts'[id].state = "canceled"
        /\ payouts'[id].external_id = payouts[id].external_id
        /\ payouts'[id].provider = payouts[id].provider
        /\ \A other \in PayoutIDs : other # id => payouts'[other] = payouts[other]
    BY <2>2 DEF Row, IndInv, TypeOK, StoreTypeOK
  <2>4. ChargeInv' /\ EventInv'
    BY <1>1 DEF ChargeInv, EventInv, Charged
  <2>5. RowOK(id)'
    BY <1>1, <1>2, <2>2, <2>3 DEF RowInv, RowOK, Last
  <2>6. ASSUME NEW other \in PayoutIDs, other # id
        PROVE  RowOK(other)'
    BY <1>1, <1>2, <2>3, <2>6 DEF RowInv, RowOK, Last
  <2>7. ASSUME NEW u \in Updates, pc[u] = "apply"
        PROVE  seen[u].id \in PayoutIDs
    BY <2>7 DEF IndInv, TypeOK, SeenInv, Observation
  <2>8. ApplyInv'
    BY <1>1, <1>2, <2>3, <2>7 DEF ApplyInv, Reported
  <2> QED
    BY <2>4, <2>5, <2>6, <2>8 DEF RowInv
<1> QED
  BY <1>3, <1>4, <1>5 DEF CancelInDB, storeVars

\* An update writes what became of the charge, and the reference the row has.
LEMMA ApplyKeepsRows ==
    ASSUME IndInv, RowIndInv, NEW u \in Updates, ApplyUpdate(u)
    PROVE  RowIndInv'
<1>1. /\ UNCHANGED <<attempts, charges, events, seen>>
      /\ u \in Requests /\ \A q \in PayoutIDs : q # u /\ q \in Requests
      /\ pc[u] = "apply" /\ Updates \subseteq Requests
  BY KindsDiffer DEF ApplyUpdate, providerVars, localVars, Requests, Creates
<1>2. /\ pc' = [pc EXCEPT ![u] = "done"]
      /\ \A q \in PayoutIDs : pc'[q] = pc[q]
      /\ \A v \in Updates : pc'[v] = "apply" => pc[v] = "apply"
  BY <1>1 DEF ApplyUpdate, Answer, IndInv, TypeOK
<1>3. CASE UNCHANGED payouts
  <2>1. /\ UNCHANGED <<payouts, attempts, charges, events>>
        /\ pc[u] \notin {"done", "lost"} /\ \A v \in Updates : seen'[v] = seen[v]
    BY <1>1, <1>3
  <2>2. "done" \notin {"record_sent", "apply"} /\ "done" \notin Sending
    BY DEF Sending
  <2> QED
    BY <1>1, <1>2, <2>1, <2>2, OneMoves
<1>4. seen[u].id \in PayoutIDs
  BY <1>1 DEF IndInv, TypeOK, SeenInv, Observation
<1>5. ASSUME NEW id \in PayoutIDs, id = seen[u].id,
             UpdatePayoutState(id, seen[u].to, seen[u].row.external_id, seen[u].row.provider)
      PROVE  RowIndInv'
  <2> USE DEF RowIndInv
  <2>2. payouts[id] \in Row
    BY DEF IndInv, TypeOK, StoreTypeOK
  <2>3. /\ payouts[id].external_id # Null
        /\ seen[u].row.external_id = payouts[id].external_id
        /\ seen[u].row.provider = payouts[id].provider
        /\ charges[id][payouts[id].provider] \in {"succeeded", "failed", "canceled"}
        /\ seen[u].to = Reported(id)
    BY <1>1, <1>5 DEF ApplyInv
  <2>4. /\ payouts'[id].state = Reported(id)
        /\ payouts'[id].external_id = payouts[id].external_id
        /\ payouts'[id].provider = payouts[id].provider
        /\ \A other \in PayoutIDs : other # id => payouts'[other] = payouts[other]
    BY <1>5, <2>2, <2>3 DEF UpdatePayoutState, Row, IndInv, TypeOK, StoreTypeOK
  <2>5. ChargeInv' /\ EventInv'
    BY <1>1 DEF ChargeInv, EventInv, Charged
  <2>6. RowOK(id)'
    BY <1>1, <1>2, <2>2, <2>3, <2>4 DEF RowInv, RowOK, Last, Reported, Sending
  <2>7. ASSUME NEW other \in PayoutIDs, other # id
        PROVE  RowOK(other)'
    BY <1>1, <1>2, <2>4, <2>7 DEF RowInv, RowOK, Last
  <2>8. ASSUME NEW v \in Updates, pc[v] = "apply"
        PROVE  seen[v].id \in PayoutIDs
    BY <2>8 DEF IndInv, TypeOK, SeenInv, Observation
  <2>9. ApplyInv'
    BY <1>1, <1>2, <2>4, <2>8 DEF ApplyInv, Reported
  <2> QED
    BY <2>5, <2>6, <2>7, <2>9 DEF RowInv
<1> QED
  BY <1>3, <1>4, <1>5 DEF ApplyUpdate, storeVars

\* A notification leads an update to the row whose reference it carries, and
\* says what became of that row's charge.
LEMMA ReadKeepsRows ==
    ASSUME IndInv, RowIndInv, NEW u \in Updates, NEW e \in events, BeginApply(u, e)
    PROVE  RowIndInv'
<1> USE DEF RowIndInv
<1>1. /\ UNCHANGED <<payouts, attempts, charges, events>>
      /\ u \in Requests /\ \A q \in PayoutIDs : q # u /\ q \in Requests
      /\ pc[u] = "idle" /\ Updates \subseteq Requests
  BY KindsDiffer DEF BeginApply, storeVars, providerVars, Requests, Creates
<1>2. /\ e \in events /\ e \in Event
      /\ e.ref \in ExternalID /\ e.ref \notin PayoutIDs
      /\ charges[e.ref[2]][e.ref[1]] = Says[e.status]
  BY StoreAssumption DEF IndInv, TypeOK, ProvidersTypeOK, Event, EventInv
<1>3. CASE pc' = [pc EXCEPT ![u] = "done"] /\ UNCHANGED seen
  BY <1>1, <1>3, OneMoves DEF Sending
<1>4. ASSUME NEW id \in findPayoutByExternalIDOrID(e.ref),
             e.status \in DOMAIN mapProviderStatusToState,
             seen' = [seen EXCEPT ![u] =
                [id |-> id, row |-> payouts[id], to |-> mapProviderStatusToState[e.status]]],
             pc' = [pc EXCEPT ![u] = "apply"]
      PROVE  RowIndInv'
  <2>1. id \in PayoutIDs /\ payouts[id].external_id = e.ref
    BY <1>2, <1>4 DEF findPayoutByExternalIDOrID, FindByExternalID
  <2>2. e.ref = <<payouts[id].provider, id>> /\ e.ref # Null
    BY <1>2, <2>1, NullIsNoValue DEF RowInv, RowOK
  <2>3. charges[id][payouts[id].provider] = Says[e.status]
    BY <1>2, <2>2
  <2>4. /\ mapProviderStatusToState[e.status] = Reported(id)
        /\ Says[e.status] \in {"succeeded", "failed", "canceled"}
    BY <1>2, <1>4, <2>3 DEF mapProviderStatusToState, Says, Reported, Event
  <2>5. /\ seen'[u].id = id /\ seen'[u].row = payouts[id]
        /\ seen'[u].to = mapProviderStatusToState[e.status]
        /\ \A v \in Updates : v # u => seen'[v] = seen[v] /\ pc'[v] = pc[v]
        /\ \A q \in PayoutIDs : pc'[q] = pc[q]
    BY <1>1, <1>4 DEF IndInv, TypeOK
  <2>6. ChargeInv' /\ EventInv'
    BY <1>1 DEF ChargeInv, EventInv, Charged
  <2>7. RowInv'
    BY <1>1, <2>5 DEF RowInv, RowOK, Last
  <2>8. ApplyInv'
    BY <1>1, <2>1, <2>2, <2>3, <2>4, <2>5 DEF ApplyInv, Reported
  <2> QED
    BY <2>6, <2>7, <2>8
<1> QED
  BY <1>3, <1>4 DEF BeginApply, Goto, Answer

\* An open charge comes to an end, by itself or by a cancel, and the provider
\* may say so.
LEMMA ChargeEnds ==
    ASSUME IndInv, RowIndInv, NEW id \in PayoutIDs, NEW p \in Provider,
           NEW status \in {"payout_succeeded", "payout_failed", "payout_canceled"},
           charges[id][p] = "accepted",
           charges' = [charges EXCEPT ![id][p] = Says[status]],
           events' \subseteq events \cup {EventOf(id, p, status)},
           UNCHANGED <<payouts, attempts, seen>>,
           \A q \in PayoutIDs \cup Updates : pc'[q] = pc[q]
    PROVE  RowIndInv'
<1> USE DEF RowIndInv
<1>1. charges \in [PayoutIDs -> [Provider -> ChargeState]]
  BY DEF IndInv, TypeOK, ProvidersTypeOK
<1>2. /\ charges'[id][p] = Says[status]
      /\ Says[status] \in {"succeeded", "failed", "canceled"}
      /\ \A i \in PayoutIDs, q \in Provider :
            i # id \/ q # p => charges'[i][q] = charges[i][q]
  BY <1>1 DEF Says
<1>3. ASSUME NEW i \in PayoutIDs, NEW q \in Provider, charges[i][q] \notin {"none", "accepted"}
      PROVE  charges'[i][q] = charges[i][q]
  BY <1>2, <1>3
<1>4. \A i \in PayoutIDs, q \in Provider : charges[i][q] # "none" <=> charges'[i][q] # "none"
  BY <1>2
<1>5. ChargeInv'
  <2>1. ASSUME NEW i \in PayoutIDs, NEW n \in 1 .. Len(attempts[i])
        PROVE  attempts[i][n].provider \in Provider
    <3>1. attempts[i][n] \in Attempt
      BY AttemptsAreASequence, ElementOfSequence
    <3> QED
      BY <3>1 DEF Attempt
  <2> QED
    BY <1>4, <2>1 DEF ChargeInv, Charged
<1>6. EventInv'
  <2>1. ASSUME NEW e \in events
        PROVE  charges'[e.ref[2]][e.ref[1]] = Says[e.status]
    <3>1. /\ e \in Event /\ e.ref[2] \in PayoutIDs /\ e.ref[1] \in Provider
          /\ charges[e.ref[2]][e.ref[1]] = Says[e.status]
      BY DEF IndInv, TypeOK, ProvidersTypeOK, EventInv, Event, ExternalID
    <3>2. Says[e.status] \notin {"none", "accepted"}
      BY <3>1 DEF Event, Says
    <3> QED
      BY <1>3, <3>1, <3>2
  <2>2. /\ EventOf(id, p, status).ref[2] = id /\ EventOf(id, p, status).ref[1] = p
        /\ EventOf(id, p, status).status = status
    BY DEF EventOf
  <2> QED
    BY <1>2, <2>1, <2>2 DEF EventInv
<1>7. RowInv'
  BY <1>3 DEF RowInv, RowOK, Last
<1>8. ASSUME NEW u \in Updates, pc[u] = "apply"
      PROVE  /\ seen[u].id \in PayoutIDs
             /\ payouts[seen[u].id].provider \in Provider
  <2>1. seen[u].id \in PayoutIDs
    BY <1>8 DEF IndInv, TypeOK, SeenInv, Observation
  <2> QED
    BY <1>8, <2>1 DEF ApplyInv, RowInv, RowOK
<1>9. ApplyInv'
  BY <1>3, <1>8 DEF ApplyInv, Reported
<1> QED
  BY <1>5, <1>6, <1>7, <1>9

\* Stripe settles a charge.
LEMMA SettleKeepsRows ==
    ASSUME IndInv, RowIndInv, ProviderSettles
    PROVE  RowIndInv'
<1>1. PICK id \in PayoutIDs, p \in Provider : Settle(id, p)
  BY DEF ProviderSettles
<1>2. UNCHANGED <<payouts, attempts, pc, seen>>
  BY <1>1 DEF ProviderSettles, Settle, storeVars, localVars
<1>3. PICK status \in {"payout_succeeded", "payout_failed"} :
         /\ charges[id][p] = "accepted"
         /\ charges' = [charges EXCEPT ![id][p] = Says[status]]
         /\ events' = events \cup {EventOf(id, p, status)}
  BY <1>1 DEF Settle, Says
<1> QED
  BY <1>2, <1>3, ChargeEnds

\* A cancel reaches the provider, or does not.
LEMMA CancelCharge ==
    ASSUME IndInv, RowIndInv, NEW c \in Cancels, CancelWithProvider(c)
    PROVE  RowIndInv'
<1>1. /\ UNCHANGED <<payouts, attempts, seen>>
      /\ pc[c] = "cancel_provider" /\ pc' = [pc EXCEPT ![c] = "cancel_db"]
      /\ c \in Requests /\ \A q \in PayoutIDs \cup Updates : q # c /\ q \in Requests
  BY KindsDiffer DEF CancelWithProvider, CancelAtProvider, Goto, storeVars, localVars,
     Requests, Creates
<1>2. \A q \in PayoutIDs \cup Updates : pc'[q] = pc[q]
  BY <1>1 DEF IndInv, TypeOK
<1>3. seen[c].id \in PayoutIDs /\ seen[c].row.provider \in Provider
  <2>1. seen[c] \in Observation /\ seen[c].row.provider # Null
    BY <1>1 DEF IndInv, TypeOK, SeenInv
  <2> QED
    BY <2>1 DEF Observation, Row
<1>4. CASE UNCHANGED <<charges, events>>
  BY <1>1, <1>2, <1>4, RowsUntouched
<1>5. CASE /\ charges[seen[c].id][seen[c].row.provider] = "accepted"
           /\ charges' = [charges EXCEPT ![seen[c].id][seen[c].row.provider] = "canceled"]
           /\ events' \subseteq events \cup
                 {EventOf(seen[c].id, seen[c].row.provider, "payout_canceled")}
  <2>1. Says["payout_canceled"] = "canceled"
    BY DEF Says
  <2> QED
    BY <1>1, <1>2, <1>3, <1>5, <2>1, ChargeEnds
<1> QED
  BY <1>4, <1>5 DEF CancelWithProvider, CancelAtProvider, Cancelable

\* One iteration of the fallback loop calls a provider not tried before.
LEMMA SendStep ==
    ASSUME IndInv, NEW r \in Creates, SendPayout(r)
    PROVE  \E p \in Provider, out \in Outcome :
              /\ out \in Outcomes(p)
              /\ ~Charged(r, p)
              /\ TryProvider(r, rail(r), p, out)
              /\ \/ out = "ok" /\ Goto(r, "record_sent")
                 \/ Goto(r, "send")
                 \/ Goto(r, "record_failed")
<1> DEFINE rl == rail(r)
           n == Len(attempts[r])
           p == NextProvider(r, rl)
<1>r. r \in Requests /\ r \in PayoutIDs
  BY CreateIsARequest
<1>1. PICK out \in Outcomes(p) :
         /\ TryProvider(r, rl, p, out)
         /\ \/ out = "ok" /\ Goto(r, "record_sent")
            \/ Goto(r, "send")
            \/ Goto(r, "record_failed")
  BY DEF SendPayout
<1>2. pc[r] = "send" /\ n < Len(GetProviders(rl))
  BY DEF SendPayout, HasNextProvider
<1>3. rl \in SchemaRails
  BY <1>2 DEF IndInv, RequestInv, Sending
<1>4. n \in Nat
  BY <1>r, AttemptsAreASequence
<1>5. n + 1 \in 1 .. Len(GetProviders(rl)) /\ Len(GetProviders(rl)) \in Nat
  <2>1. Len(GetProviders(rl)) \in Nat
    BY <1>3, ProvidersOfRail
  <2> HIDE DEF n, rl
  <2> QED
    BY <1>2, <1>4, <2>1
<1>6. p \in Provider /\ p = GetProviders(rl)[n + 1].provider
  <2>1. GetProviders(rl) \in Seq([provider : Provider, active : BOOLEAN])
    BY <1>3, ProvidersOfRail
  <2>2. GetProviders(rl)[n + 1] \in [provider : Provider, active : BOOLEAN]
    <3> HIDE DEF n, rl
    <3> QED
      BY <2>1, <1>5, ElementOfSequence
  <2> QED
    BY <2>2 DEF NextProvider
<1>7. \A i, j \in 1 .. Len(GetProviders(rl)) :
         GetProviders(rl)[i].provider = GetProviders(rl)[j].provider => i = j
  BY <1>3, RegistryAssumption DEF SchemaRails, Rail
<1>8. \A i \in 1 .. n : attempts[r][i].provider = GetProviders(rl)[i].provider
  BY <1>4 DEF IndInv, FallbackFollowsRoute
<1>9. ~Charged(r, p)
  <2>1. ASSUME NEW i \in 1 .. n
        PROVE  attempts[r][i].provider # p
    <3> HIDE DEF n, rl, p
    <3>1. i \in 1 .. Len(GetProviders(rl)) /\ i # n + 1
      BY <1>4, <1>5
    <3> QED
      BY <3>1, <1>5, <1>6, <1>7, <1>8
  <2> QED
    BY <2>1 DEF Charged
<1>10. out \in Outcome
  BY DEF Outcomes, Outcome
<1> HIDE DEF p
<1> QED
  BY <1>1, <1>6, <1>9, <1>10

\* A try of a provider not tried before leaves every other charge alone.
LEMMA TryKeepsCharges ==
    ASSUME IndInv, RowIndInv, NEW r \in PayoutIDs, NEW p \in Provider, NEW out \in Outcome,
           ~Charged(r, p),
           TryProvider(r, rail(r), p, out)
    PROVE  /\ ChargeInv' /\ EventInv'
           /\ attempts'[r] # <<>> /\ Last(r)' = [provider |-> p, outcome |-> out]
           /\ \A id \in PayoutIDs : id # r => attempts'[id] = attempts[id]
           /\ \A id \in PayoutIDs, q \in Provider :
                 id # r \/ q # p => charges'[id][q] = charges[id][q]
           /\ charges'[r][p] = ChargeOf(out)
<1> USE DEF RowIndInv
<1>1. charges \in [PayoutIDs -> [Provider -> ChargeState]]
  BY DEF IndInv, TypeOK, ProvidersTypeOK
<1>2. /\ charges'[r][p] = ChargeOf(out)
      /\ \A id \in PayoutIDs, q \in Provider :
            id # r \/ q # p => charges'[id][q] = charges[id][q]
  BY <1>1 DEF TryProvider
<1>3. /\ attempts[r] \in Seq(Attempt) /\ Len(attempts[r]) \in Nat
      /\ [provider |-> p, outcome |-> out] \in Attempt
  BY AttemptsAreASequence DEF Attempt
<1>4. /\ attempts'[r] = Append(attempts[r], [provider |-> p, outcome |-> out])
      /\ \A id \in PayoutIDs : id # r => attempts'[id] = attempts[id]
  BY DEF TryProvider, IndInv, TypeOK, ProvidersTypeOK
<1>5. /\ Len(attempts'[r]) = Len(attempts[r]) + 1
      /\ attempts'[r][Len(attempts[r]) + 1] = [provider |-> p, outcome |-> out]
      /\ \A i \in 1 .. Len(attempts[r]) : attempts'[r][i] = attempts[r][i]
      /\ attempts'[r] # <<>>
  BY <1>3, <1>4
<1>6. charges[r][p] = "none"
  BY DEF ChargeInv
<1>7. out = "ok" => charges'[r][p] # "none"
  BY <1>2 DEF ChargeOf
<1>8. ChargeInv'
  <2>1. ASSUME NEW id \in PayoutIDs, id # r
        PROVE  /\ \A q \in Provider : charges'[id][q] # "none" => Charged(id, q)'
               /\ \A i \in 1 .. Len(attempts'[id]) :
                     attempts'[id][i].outcome = "ok"
                        => charges'[id][attempts'[id][i].provider] # "none"
    <3>1. attempts'[id] = attempts[id]
      BY <1>4, <2>1
    <3>2. \A q \in Provider : charges'[id][q] = charges[id][q]
      BY <1>2, <2>1
    <3>3. ASSUME NEW i \in 1 .. Len(attempts[id])
          PROVE  attempts[id][i].provider \in Provider
      <4>1. attempts[id][i] \in Attempt
        BY AttemptsAreASequence, ElementOfSequence
      <4> QED
        BY <4>1 DEF Attempt
    <3> QED
      BY <3>1, <3>2, <3>3 DEF ChargeInv, Charged
  <2>2. ASSUME NEW q \in Provider, charges'[r][q] # "none"
        PROVE  Charged(r, q)'
    <3>1. CASE q = p
      <4>1. Len(attempts[r]) + 1 \in 1 .. Len(attempts'[r])
        BY <1>3, <1>5
      <4> QED
        BY <3>1, <4>1, <1>5 DEF Charged
    <3>2. CASE q # p
      <4>1. Charged(r, q)
        BY <1>2, <2>2, <3>2 DEF ChargeInv
      <4>2. 1 .. Len(attempts[r]) \subseteq 1 .. Len(attempts'[r])
        BY <1>3, <1>5
      <4> QED
        BY <4>1, <4>2, <1>5 DEF Charged
    <3> QED
      BY <3>1, <3>2
  <2>3. ASSUME NEW i \in 1 .. Len(attempts'[r]), attempts'[r][i].outcome = "ok"
        PROVE  charges'[r][attempts'[r][i].provider] # "none"
    <3>1. CASE i = Len(attempts[r]) + 1
      BY <1>5, <1>7, <2>3, <3>1
    <3>2. CASE i \in 1 .. Len(attempts[r])
      <4>1. attempts'[r][i] = attempts[r][i]
        BY <1>5, <3>2
      <4>2. attempts[r][i] \in Attempt
        BY <1>3, <3>2, ElementOfSequence
      <4>3. attempts[r][i].provider \in Provider /\ attempts[r][i].provider # p
        BY <3>2, <4>2 DEF Attempt, Charged
      <4> QED
        BY <1>2, <2>3, <3>2, <4>1, <4>3 DEF ChargeInv
    <3>3. i = Len(attempts[r]) + 1 \/ i \in 1 .. Len(attempts[r])
      BY <1>3, <1>5
    <3> QED
      BY <3>1, <3>2, <3>3
  <2> QED
    BY <2>1, <2>2, <2>3 DEF ChargeInv
<1>9. EventInv'
  <2>1. ASSUME NEW e \in events
        PROVE  charges'[e.ref[2]][e.ref[1]] = Says[e.status]
    <3>1. /\ e \in Event /\ e.ref[2] \in PayoutIDs /\ e.ref[1] \in Provider
          /\ charges[e.ref[2]][e.ref[1]] = Says[e.status]
      BY DEF IndInv, TypeOK, ProvidersTypeOK, EventInv, Event, ExternalID
    <3>2. Says[e.status] # "none"
      BY <3>1 DEF Event, Says
    <3> QED
      BY <1>2, <1>6, <3>1, <3>2
  <2>2. CASE events' = events
    BY <2>1, <2>2 DEF EventInv
  <2>3. CASE out = "declined" /\ events' = events \cup {EventOf(r, p, "payout_failed")}
    <3>1. /\ EventOf(r, p, "payout_failed").ref[2] = r
          /\ EventOf(r, p, "payout_failed").ref[1] = p
          /\ EventOf(r, p, "payout_failed").status = "payout_failed"
          /\ charges'[r][p] = Says["payout_failed"]
      BY <1>2, <2>3 DEF EventOf, ChargeOf, Says
    <3> QED
      BY <2>1, <2>3, <3>1 DEF EventInv
  <2> QED
    BY <2>2, <2>3 DEF TryProvider
<1>10. Last(r)' = [provider |-> p, outcome |-> out]
  BY <1>5 DEF Last
<1> QED
  BY <1>2, <1>4, <1>5, <1>8, <1>9, <1>10

\* The fallback loop works on a row without a reference.
LEMMA SendKeepsRows ==
    ASSUME IndInv, RowIndInv, NEW r \in Creates, SendPayout(r)
    PROVE  RowIndInv'
<1>1. PICK p \in Provider, out \in Outcome :
         /\ ~Charged(r, p)
         /\ TryProvider(r, rail(r), p, out)
         /\ \/ out = "ok" /\ Goto(r, "record_sent")
            \/ Goto(r, "send")
            \/ Goto(r, "record_failed")
  BY SendStep
<1>r. r \in PayoutIDs /\ r \in Requests
  BY CreateIsARequest
<1>2. /\ ChargeInv' /\ EventInv'
      /\ attempts'[r] # <<>> /\ Last(r)' = [provider |-> p, outcome |-> out]
      /\ \A id \in PayoutIDs : id # r => attempts'[id] = attempts[id]
      /\ \A id \in PayoutIDs, q \in Provider :
            id # r \/ q # p => charges'[id][q] = charges[id][q]
  BY <1>1, <1>r, TryKeepsCharges
<1> USE DEF RowIndInv
<1>3. /\ pc[r] = "send" /\ UNCHANGED <<payouts, seen>>
      /\ payouts[r].external_id = Null /\ payouts[r].state \in {"created", "canceled"}
  BY <1>r DEF SendPayout, storeVars, localVars, RowInv, RowOK, Sending
<1>4. /\ pc'[r] \in Sending
      /\ pc'[r] = "record_sent" => out = "ok"
      /\ \A q \in Requests : q # r => pc'[q] = pc[q]
  BY <1>1, <1>r DEF Goto, IndInv, TypeOK, Sending
<1>5. PayoutIDs \subseteq Requests /\ Updates \subseteq Requests /\ \A u \in Updates : u # r
  BY CreateIsARequest DEF Requests, Creates
<1>6. RowOK(r)'
  <2>1. payouts'[r] = payouts[r] /\ pc'[r] \in Sending
    BY <1>3, <1>4
  <2>2. attempts'[r][Len(attempts'[r])] = [provider |-> p, outcome |-> out]
    BY <1>2 DEF Last
  <2>3. attempts'[r][Len(attempts'[r])].outcome = out
    BY <2>2
  <2> QED
    BY <1>3, <1>4, <2>1, <2>3 DEF RowOK, Last
<1>7. ASSUME NEW id \in PayoutIDs, id # r
      PROVE  RowOK(id)'
  <2>1. /\ payouts'[id] = payouts[id] /\ pc'[id] = pc[id] /\ attempts'[id] = attempts[id]
        /\ \A q \in Provider : charges'[id][q] = charges[id][q]
        /\ RowOK(id)
    BY <1>2, <1>3, <1>4, <1>5, <1>7 DEF RowInv
  <2> QED
    BY <2>1 DEF RowOK, Last
<1>8. ASSUME NEW u \in Updates, pc'[u] = "apply"
      PROVE  /\ pc[u] = "apply" /\ seen[u].id \in PayoutIDs /\ seen[u].id # r
             /\ payouts[seen[u].id].provider \in Provider
  <2>1. pc[u] = "apply"
    BY <1>4, <1>5, <1>8
  <2>2. seen[u].id \in PayoutIDs
    BY <2>1 DEF IndInv, TypeOK, SeenInv, Observation
  <2>3. payouts[seen[u].id].external_id # Null
    BY <2>1 DEF ApplyInv
  <2> QED
    BY <1>3, <2>1, <2>2, <2>3 DEF RowInv, RowOK
<1>9. ApplyInv'
  BY <1>2, <1>3, <1>8 DEF ApplyInv, Reported
<1> QED
  BY <1>2, <1>6, <1>7, <1>9 DEF RowInv

\* A process that stops loses what is in progress, and no row.
LEMMA CrashKeepsRows ==
    ASSUME IndInv, RowIndInv, Crash
    PROVE  RowIndInv'
<1>1. /\ UNCHANGED <<payouts, attempts, charges, events, seen>>
      /\ pc' = [r \in Requests |-> IF InProgress(r) THEN "lost" ELSE pc[r]]
  BY DEF Crash, ForgetStats, storeVars, localVars
<1>2. PayoutIDs \subseteq Requests /\ Updates \subseteq Requests
  BY DEF Requests, Creates
<1>3. ASSUME NEW id \in PayoutIDs
      PROVE  \/ pc'[id] = pc[id]
             \/ pc[id] \notin {"done", "lost"} /\ pc'[id] = "lost"
  BY <1>1, <1>2 DEF InProgress
<1>4. ASSUME NEW u \in Updates, pc'[u] = "apply"
      PROVE  pc[u] = "apply" /\ seen'[u] = seen[u]
  BY <1>1, <1>2, <1>4 DEF InProgress
<1>5. "lost" \notin Sending /\ "lost" # "record_sent"
  BY DEF Sending
<1> QED
  BY <1>1, <1>3, <1>4, <1>5, RowsUntouched

\* Every step but the read of an update preserves the invariant.
LEMMA StepKeepsRows ==
    ASSUME IndInv, RowIndInv, [Next]_vars
    PROVE  RowIndInv' \/ \E u \in Updates, e \in Notifications : BeginApply(u, e)
<1>1. ASSUME NEW r \in Creates, NEW k \in Keys, NEW b \in Bodies, BeginCreate(r, k, b)
      PROVE  RowIndInv'
  BY <1>1, QuietCreate
<1>2. ASSUME NEW r \in Creates, CreateStep(r) PROVE RowIndInv'
  BY <1>2, QuietCreate, CommitKeepsRows, SendKeepsRows, RecordKeepsRows DEF CreateStep
<1>3. ASSUME NEW c \in Cancels, NEW id \in PayoutIDs, BeginCancel(c, id) PROVE RowIndInv'
  BY <1>3, QuietCancel
<1>4. ASSUME NEW c \in Cancels, CancelStep(c) PROVE RowIndInv'
  BY <1>4, CancelCharge, CancelKeepsRows DEF CancelStep
<1>5. ASSUME NEW u \in Updates, ApplyUpdate(u) PROVE RowIndInv'
  BY <1>5, ApplyKeepsRows
<1>6. ASSUME ProviderSettles PROVE RowIndInv'
  BY <1>6, SettleKeepsRows
<1>7. ASSUME Crash PROVE RowIndInv'
  BY <1>7, CrashKeepsRows
<1>8. ASSUME UNCHANGED vars PROVE RowIndInv'
  <2>1. UNCHANGED <<payouts, attempts, charges, events, pc, seen>>
    BY <1>8 DEF vars, storeVars, providerVars, localVars
  <2> QED
    BY <2>1, RowsUntouched
<1> QED
  BY <1>1, <1>2, <1>3, <1>4, <1>5, <1>6, <1>7, <1>8 DEF Next

\* So does the read, where updates name payouts as the providers do.
LEMMA NextRowIndInv ==
    ASSUME IndInv, RowIndInv, ~DirectUpdates, [Next]_vars
    PROVE  RowIndInv'
<1>1. ASSUME NEW u \in Updates, NEW e \in Notifications, BeginApply(u, e)
      PROVE  RowIndInv'
  <2>1. e \in events
    BY DEF Notifications
  <2> QED
    BY <1>1, <2>1, ReadKeepsRows
<1> QED
  BY <1>1, StepKeepsRows

\* A reference is that of the try that succeeded, and a payout recorded as sent
\* has one.
LEMMA RowNamesFollows == IndInv /\ RowIndInv => RowNamesItsCharge
<1> SUFFICES ASSUME IndInv, RowIndInv, NEW id \in PayoutIDs
             PROVE  /\ payouts[id].external_id # Null =>
                          /\ payouts[id].external_id = <<payouts[id].provider, id>>
                          /\ [provider |-> payouts[id].provider, outcome |-> "ok"]
                                \in {attempts[id][i] : i \in DOMAIN attempts[id]}
                    /\ payouts[id].state = "sent" => payouts[id].external_id # Null
  BY DEF RowNamesItsCharge
<1>1. RowOK(id)
  BY DEF RowIndInv, RowInv
<1>2. ASSUME payouts[id].external_id # Null
      PROVE  [provider |-> payouts[id].provider, outcome |-> "ok"]
                \in {attempts[id][i] : i \in DOMAIN attempts[id]}
  <2>1. attempts[id] # <<>> /\ Last(id) = [provider |-> payouts[id].provider, outcome |-> "ok"]
    BY <1>1, <1>2 DEF RowOK
  <2>2. Len(attempts[id]) \in DOMAIN attempts[id]
    BY <2>1, AttemptsAreASequence
  <2> QED
    BY <2>1, <2>2 DEF Last
<1> QED
  BY <1>1, <1>2 DEF RowOK

\* A completed payout has the reference of a charge that succeeded.
LEMMA CompletedFollows == IndInv /\ RowIndInv => CompletedMeansPaid
<1> SUFFICES ASSUME IndInv, RowIndInv, NEW id \in PayoutIDs, payouts[id].state = "completed"
             PROVE  /\ payouts[id].provider # Null
                    /\ charges[id][payouts[id].provider] = "succeeded"
  BY DEF CompletedMeansPaid
<1>1. RowOK(id)
  BY DEF RowIndInv, RowInv
<1> QED
  BY <1>1, NullIsNoValue DEF RowOK

\* The row and charge invariant holds in every reachable state.
THEOREM RowInvariance ==
    ASSUME ~DirectUpdates
    PROVE  Spec => [](IndInv /\ RowIndInv)
<1>1. Init => IndInv /\ RowIndInv
  BY InitIndInv, InitRowIndInv
<1>2. IndInv /\ RowIndInv /\ [Next]_vars => (IndInv /\ RowIndInv)'
  BY NextIndInv, NextRowIndInv
<1> QED
  BY <1>1, <1>2, PTL DEF Spec

\* The row of a payout names the provider call that succeeded for it, whatever
\* the order of send, cancels and notifications and whatever fails.
THEOREM RowsNameTheirCharge ==
    ASSUME ~DirectUpdates
    PROVE  Spec => []RowNamesItsCharge
BY RowInvariance, RowNamesFollows, PTL

\* A payout is completed only when the provider its row names has paid.
THEOREM CompletedIsPaid ==
    ASSUME ~DirectUpdates
    PROVE  Spec => []CompletedMeansPaid
BY RowInvariance, CompletedFollows, PTL

(***************************************************************************)
(* What a step does to a row: it writes at most one, and in one of six     *)
(* ways.                                                                   *)
(***************************************************************************)
Closed == {"succeeded", "failed", "canceled"}

KeepsReference(id) ==
    /\ payouts'[id].external_id = payouts[id].external_id
    /\ payouts'[id].provider = payouts[id].provider

Unsent(id) ==
    /\ payouts[id].state \in {"created", "canceled"}
    /\ payouts[id].external_id = Null

MoveCreate(id) ==
    /\ payouts[id].state = "absent" /\ payouts[id].external_id = Null
    /\ payouts'[id].state = "created" /\ payouts'[id].external_id = Null

MoveSent(id) ==
    /\ pc[id] = "record_sent" /\ Unsent(id)
    /\ payouts'[id].state = "sent"
    /\ \E p \in Provider : /\ payouts'[id].external_id = <<p, id>>
                           /\ charges[id][p] \in {"accepted"} \cup Closed

MoveFailed(id) ==
    /\ pc[id] = "record_failed" /\ Unsent(id)
    /\ payouts'[id].state = "failed" /\ payouts'[id].external_id = Null

MoveCancel(id) ==
    /\ payouts[id].state \in {"created", "sent"}
    /\ payouts'[id].state = "canceled" /\ KeepsReference(id)

MoveLearn(id) ==
    /\ payouts[id].external_id # Null
    /\ charges[id][payouts[id].provider] \in Closed
    /\ payouts'[id].state = Reported(id) /\ KeepsReference(id)

Moves(id) ==
    /\ \/ MoveCreate(id) \/ MoveSent(id) \/ MoveFailed(id)
       \/ MoveCancel(id) \/ MoveLearn(id)
    /\ \A other \in PayoutIDs \ {id} : payouts'[other] = payouts[other]
    /\ UNCHANGED charges

\* A charge changes by a call for a row without a reference, or by settling.
ChargeMoves ==
    /\ UNCHANGED payouts
    /\ \E id \in PayoutIDs, p \in Provider, c \in ChargeState :
          /\ charges' = [charges EXCEPT ![id][p] = c]
          /\ \/ payouts[id].external_id = Null
             \/ charges[id][p] = "accepted" /\ c \in Closed

\* COMMIT and the record of a send.
LEMMA CreateMoves ==
    ASSUME IndInv, RowIndInv, NEW r \in Creates,
           CommitTx(r) \/ RecordSent(r) \/ RecordFailed(r)
    PROVE  Moves(r)
<1> USE DEF RowIndInv
<1>1. r \in PayoutIDs /\ payouts[r] \in Row /\ payouts \in [PayoutIDs -> Row]
  BY CreateIsARequest DEF IndInv, TypeOK, StoreTypeOK
<1>2. RowOK(r)
  BY <1>1 DEF RowInv
<1>3. CASE CommitTx(r)
  <2>1. payouts[r].state = "absent"
    BY <1>3 DEF CommitTx, IndInv, RequestInv, InTransaction, Exists
  <2>2. /\ payouts'[r].state = "created" /\ payouts'[r].external_id = Null
        /\ payouts[r].external_id = Null /\ UNCHANGED charges
        /\ \A other \in PayoutIDs \ {r} : payouts'[other] = payouts[other]
    BY <1>1, <1>2, <1>3, <2>1 DEF CommitTx, CommitPayoutAndKey, providerVars, RowOK, ChargeInv
  <2> QED
    BY <2>1, <2>2 DEF Moves, MoveCreate
<1>4. CASE RecordSent(r)
  <2>1. /\ pc[r] = "record_sent" /\ Unsent(r) /\ Last(r).outcome = "ok"
        /\ UNCHANGED charges
    BY <1>2, <1>4 DEF RecordSent, Record, RowOK, Sending, Unsent, providerVars
  <2>2. /\ payouts'[r].state = "sent" /\ payouts'[r].external_id = <<LastProvider(r), r>>
        /\ \A other \in PayoutIDs \ {r} : payouts'[other] = payouts[other]
    BY <1>1, <1>4 DEF RecordSent, Record, UpdatePayoutState, Row
  <2>3. attempts[r] # <<>>
    BY <2>1 DEF IndInv, RouteInv
  <2>4. attempts[r] \in Seq(Attempt) /\ Len(attempts[r]) \in 1 .. Len(attempts[r])
    BY <1>1, <2>3, AttemptsAreASequence
  <2>5. Last(r) \in Attempt /\ LastProvider(r) = Last(r).provider
    <3>1. Last(r) \in Attempt
      BY <2>4, ElementOfSequence DEF Last
    <3> QED
      BY <2>3, <3>1 DEF Last, LastProvider
  <2>6. LastProvider(r) \in Provider /\ charges[r][LastProvider(r)] # "none"
    <3>1. charges[r][Last(r).provider] # "none"
      BY <1>1, <2>1, <2>4 DEF ChargeInv, Last
    <3> QED
      BY <2>5, <3>1 DEF Attempt
  <2>7. charges[r][LastProvider(r)] \in {"accepted"} \cup Closed
    <3>1. charges[r][LastProvider(r)] \in ChargeState
      BY <1>1, <2>6 DEF IndInv, TypeOK, ProvidersTypeOK
    <3> QED
      BY <2>6, <3>1 DEF ChargeState, Closed
  <2> QED
    BY <2>1, <2>2, <2>6, <2>7 DEF Moves, MoveSent
<1>5. CASE RecordFailed(r)
  <2>1. pc[r] = "record_failed" /\ Unsent(r) /\ UNCHANGED charges
    BY <1>2, <1>5 DEF RecordFailed, Record, RowOK, Sending, Unsent, providerVars
  <2>2. /\ payouts'[r].state = "failed" /\ payouts'[r].external_id = Null
        /\ \A other \in PayoutIDs \ {r} : payouts'[other] = payouts[other]
    BY <1>1, <1>5 DEF RecordFailed, Record, UpdatePayoutState, Row
  <2> QED
    BY <2>1, <2>2 DEF Moves, MoveFailed
<1> QED
  BY <1>3, <1>4, <1>5

\* The UPDATE of a cancel and of a notification.
LEMMA CancelOrApplyMoves ==
    ASSUME IndInv, RowIndInv, NEW c \in Cancels \cup Updates,
           \/ c \in Cancels /\ CancelInDB(c)
           \/ c \in Updates /\ ApplyUpdate(c),
           payouts' # payouts
    PROVE  \E id \in PayoutIDs : Moves(id)
<1> USE DEF RowIndInv
<1>1. payouts \in [PayoutIDs -> Row]
  BY DEF IndInv, TypeOK, StoreTypeOK
<1>2. UNCHANGED charges /\ pc[c] \in {"cancel_db", "apply"}
  BY DEF CancelInDB, ApplyUpdate, providerVars
<1>3. seen[c].id \in PayoutIDs
  BY <1>2 DEF IndInv, TypeOK, SeenInv, Observation
<1>4. ASSUME c \in Cancels, NEW id \in PayoutIDs, CancelPayoutIfCancelable(id)
      PROVE  Moves(id)
  <2>1. RowOK(id)
    BY DEF RowInv
  <2>2. payouts[id].state \in {"created", "sent"}
    BY <1>4, <2>1 DEF CancelPayoutIfCancelable, cancelableStates, RowOK
  <2>3. /\ payouts'[id].state = "canceled" /\ KeepsReference(id)
        /\ \A other \in PayoutIDs \ {id} : payouts'[other] = payouts[other]
    BY <1>1, <1>4 DEF CancelPayoutIfCancelable, KeepsReference, Row
  <2> QED
    BY <1>2, <2>2, <2>3 DEF Moves, MoveCancel
<1>5. ASSUME c \in Updates, pc[c] = "apply", NEW id \in PayoutIDs, id = seen[c].id,
             UpdatePayoutState(id, seen[c].to, seen[c].row.external_id, seen[c].row.provider)
      PROVE  Moves(id)
  <2>1. /\ payouts[id].external_id # Null
        /\ seen[c].row.external_id = payouts[id].external_id
        /\ seen[c].row.provider = payouts[id].provider
        /\ charges[id][payouts[id].provider] \in Closed
        /\ seen[c].to = Reported(id)
    BY <1>5 DEF ApplyInv, Closed
  <2>2. /\ payouts'[id].state = Reported(id) /\ KeepsReference(id)
        /\ \A other \in PayoutIDs \ {id} : payouts'[other] = payouts[other]
    BY <1>1, <1>5, <2>1 DEF UpdatePayoutState, KeepsReference, Row
  <2> QED
    BY <1>2, <2>1, <2>2 DEF Moves, MoveLearn
<1>6. CASE c \in Cancels /\ CancelInDB(c)
  <2>1. CancelPayoutIfCancelable(seen[c].id)
    BY <1>6 DEF CancelInDB, storeVars
  <2> QED
    BY <1>3, <1>4, <1>6, <2>1
<1>7. CASE c \in Updates /\ ApplyUpdate(c)
  <2>1. /\ pc[c] = "apply"
        /\ UpdatePayoutState(seen[c].id, seen[c].to, seen[c].row.external_id, seen[c].row.provider)
    BY <1>7 DEF ApplyUpdate, storeVars
  <2> QED
    BY <1>3, <1>5, <1>7, <2>1
<1> QED
  BY <1>6, <1>7

\* What a provider call, a cancel at the provider or the provider itself does.
LEMMA StepMovesCharge ==
    ASSUME IndInv, RowIndInv,
           \/ \E r \in Creates : SendPayout(r)
           \/ \E c \in Cancels : CancelWithProvider(c)
           \/ ProviderSettles
    PROVE  ChargeMoves \/ UNCHANGED <<payouts, charges>>
<1>1. ASSUME NEW r \in Creates, SendPayout(r) PROVE ChargeMoves
  <2>1. PICK p \in Provider, out \in Outcome : TryProvider(r, rail(r), p, out)
    BY <1>1, SendStep
  <2>2. r \in PayoutIDs /\ payouts[r].external_id = Null /\ UNCHANGED payouts
    BY <1>1, CreateIsARequest DEF SendPayout, storeVars, RowIndInv, RowInv, RowOK, Sending
  <2>3. ChargeOf(out) \in ChargeState
    BY DEF ChargeOf, ChargeState, Outcome
  <2> QED
    BY <2>1, <2>2, <2>3 DEF ChargeMoves, TryProvider
<1>2. ASSUME NEW c \in Cancels, CancelWithProvider(c)
      PROVE  ChargeMoves \/ UNCHANGED <<payouts, charges>>
  <2>1. seen[c].id \in PayoutIDs /\ seen[c].row.provider \in Provider
    <3>1. seen[c] \in Observation /\ seen[c].row.provider # Null
      BY <1>2 DEF CancelWithProvider, IndInv, TypeOK, SeenInv
    <3> QED
      BY <3>1 DEF Observation, Row
  <2>2. UNCHANGED payouts
    BY <1>2 DEF CancelWithProvider, storeVars
  <2>3. CASE UNCHANGED charges
    BY <2>2, <2>3
  <2>4. CASE /\ charges[seen[c].id][seen[c].row.provider] = "accepted"
             /\ charges' = [charges EXCEPT ![seen[c].id][seen[c].row.provider] = "canceled"]
    <3>1. "canceled" \in ChargeState /\ "canceled" \in Closed
      BY DEF ChargeState, Closed
    <3> QED
      BY <2>1, <2>2, <2>4, <3>1 DEF ChargeMoves
  <2> QED
    BY <1>2, <2>3, <2>4 DEF CancelWithProvider, CancelAtProvider, Cancelable
<1>3. ASSUME ProviderSettles PROVE ChargeMoves
  <2>1. PICK id \in PayoutIDs, p \in Provider : Settle(id, p)
    BY <1>3 DEF ProviderSettles
  <2>2. PICK c \in {"succeeded", "failed"} :
           charges[id][p] = "accepted" /\ charges' = [charges EXCEPT ![id][p] = c]
    BY <2>1 DEF Settle
  <2>3. c \in ChargeState /\ c \in Closed /\ UNCHANGED payouts
    BY <1>3 DEF ChargeState, Closed, ProviderSettles, storeVars
  <2> QED
    BY <2>2, <2>3 DEF ChargeMoves
<1> QED
  BY <1>1, <1>2, <1>3

\* Every step of the service moves one row, one charge, or neither.
LEMMA StepMoves ==
    ASSUME IndInv, RowIndInv, [Next]_vars
    PROVE  \/ \E id \in PayoutIDs : Moves(id)
           \/ ChargeMoves
           \/ UNCHANGED <<payouts, charges>>
<1>1. ASSUME NEW r \in Creates, NEW k \in Keys, NEW b \in Bodies, BeginCreate(r, k, b)
      PROVE  UNCHANGED <<payouts, charges>>
  BY <1>1 DEF BeginCreate, storeVars, providerVars
<1>2. ASSUME NEW r \in Creates,
             \/ InsertKey(r) \/ FindKey(r) \/ SerializationFailure(r) \/ TxFails(r)
             \/ Replay(r) \/ NoProviders(r) \/ RecordRefused(r)
      PROVE  UNCHANGED <<payouts, charges>>
  BY <1>2 DEF InsertKey, FindKey, SerializationFailure, TxFails, Replay, NoProviders,
     RecordRefused, storeVars, providerVars
<1>3. ASSUME NEW r \in Creates, CommitTx(r) \/ RecordSent(r) \/ RecordFailed(r)
      PROVE  \E id \in PayoutIDs : Moves(id)
  BY <1>3, CreateMoves, CreateIsARequest
<1>4. ASSUME NEW c \in Cancels, NEW id \in PayoutIDs, BeginCancel(c, id)
      PROVE  UNCHANGED <<payouts, charges>>
  BY <1>4 DEF BeginCancel, storeVars, providerVars
<1>5. ASSUME NEW c \in Cancels \cup Updates,
             \/ c \in Cancels /\ CancelInDB(c)
             \/ c \in Updates /\ ApplyUpdate(c)
      PROVE  (\E id \in PayoutIDs : Moves(id)) \/ UNCHANGED <<payouts, charges>>
  <2>1. UNCHANGED charges
    BY <1>5 DEF CancelInDB, ApplyUpdate, providerVars
  <2> QED
    BY <1>5, <2>1, CancelOrApplyMoves
<1>6. ASSUME NEW u \in Updates, NEW e \in Notifications, BeginApply(u, e)
      PROVE  UNCHANGED <<payouts, charges>>
  BY <1>6 DEF BeginApply, storeVars, providerVars
<1>7. Crash \/ UNCHANGED vars => UNCHANGED <<payouts, charges>>
  BY DEF Crash, ForgetStats, vars, storeVars, providerVars
<1> QED
  BY <1>1, <1>2, <1>3, <1>4, <1>5, <1>6, <1>7, StepMovesCharge
     DEF Next, CreateStep, CancelStep

\* A cancel no longer applies to a completed payout, and a notification can
\* only repeat that the charge succeeded.
LEMMA CompletedKept ==
    ASSUME IndInv, RowIndInv, [Next]_vars,
           NEW id \in PayoutIDs, payouts[id].state = "completed"
    PROVE  payouts'[id].state = "completed"
<1>1. RowOK(id)
  BY DEF RowIndInv, RowInv
<1>2. ASSUME NEW moved \in PayoutIDs, Moves(moved)
      PROVE  payouts'[id].state = "completed"
  BY <1>1, <1>2 DEF Moves, MoveCreate, MoveSent, MoveFailed, MoveCancel, MoveLearn,
     Unsent, Reported, RowOK
<1> QED
  BY <1>2, StepMoves DEF ChargeMoves

\* No step takes a completed payout back.
THEOREM CompletedStays ==
    ASSUME ~DirectUpdates
    PROVE  Spec => CompletedIsFinal
<1>1. IndInv /\ RowIndInv /\ [Next]_vars =>
         [\A id \in PayoutIDs :
             payouts[id].state = "completed" => payouts'[id].state = "completed"]_vars
  BY CompletedKept
<1> QED
  BY <1>1, RowInvariance, PTL DEF Spec, CompletedIsFinal

\* A canceled payout changes only when its send is recorded, or to what became
\* of its charge.
THEOREM CanceledReopensOnlySo ==
    ASSUME ~DirectUpdates
    PROVE  Spec => CanceledReopensTruthfully
<1> DEFINE Truthful(id) ==
              \/ pc[id] \in {"record_sent", "record_failed"}
              \/ /\ payouts'[id].state = "completed"
                 /\ charges[id][payouts[id].provider] = "succeeded"
              \/ /\ payouts'[id].state = "failed"
                 /\ charges[id][payouts[id].provider] = "failed"
<1>1. ASSUME IndInv, RowIndInv, [Next]_vars, NEW id \in PayoutIDs,
             payouts[id].state = "canceled", payouts'[id].state # "canceled"
      PROVE  Truthful(id)
  <2>1. ASSUME NEW moved \in PayoutIDs, Moves(moved)
        PROVE  Truthful(id)
    BY <1>1, <2>1 DEF Moves, MoveCreate, MoveSent, MoveFailed, MoveCancel, MoveLearn,
       Reported, Closed
  <2> QED
    BY <1>1, <2>1, StepMoves DEF ChargeMoves
<1>2. IndInv /\ RowIndInv /\ [Next]_vars =>
         [\A id \in PayoutIDs :
             payouts[id].state = "canceled" /\ payouts'[id].state # "canceled"
                => Truthful(id)]_vars
  BY <1>1
<1> QED
  BY <1>2, RowInvariance, PTL DEF Spec, CanceledReopensTruthfully

-----------------------------------------------------------------------------
(***************************************************************************)
(* PayoutService implements PayoutLifeCycle.                               *)
(***************************************************************************)
\* No payout has a row or a reference.
LEMMA InitLives == Init => LifeCycle!Init
<1> SUFFICES ASSUME Init PROVE LifeCycle!Init
  OBVIOUS
<1>1. \A id \in PayoutIDs : payouts[id].state = "absent" /\ payouts[id].external_id = Null
  BY DEF Init, StoreInit, NoRow
<1> QED
  BY <1>1 DEF LifeCycle!Init, ReferredProvider, ReferredCharge

\* A row without a reference has no charge to speak of, and one that keeps its
\* reference keeps its charge where charges do not change.
LEMMA ReferenceKept ==
    ASSUME NEW id \in PayoutIDs, UNCHANGED charges,
           payouts'[id].external_id = payouts[id].external_id
    PROVE  /\ ReferredProvider(id)' = ReferredProvider(id)
           /\ ReferredCharge(id)' = ReferredCharge(id)
BY DEF ReferredProvider, ReferredCharge

\* The row of a payout with a reference names the charge that life follows.
LEMMA ReferenceNames ==
    ASSUME IndInv, RowIndInv, NEW id \in PayoutIDs, payouts[id].external_id # Null
    PROVE  /\ payouts[id].provider \in Provider
           /\ ReferredProvider(id) = payouts[id].provider
           /\ ReferredCharge(id) = charges[id][payouts[id].provider]
<1>1. payouts[id].provider \in Provider /\ payouts[id].external_id = <<payouts[id].provider, id>>
  BY DEF RowIndInv, RowInv, RowOK
<1> QED
  BY <1>1 DEF ReferredProvider, ReferredCharge

\* A step that writes a row is a step of that payout's life.
LEMMA MoveLives ==
    ASSUME IndInv, RowIndInv, NEW id \in PayoutIDs, Moves(id)
    PROVE  LifeCycle!Next
<1>1. UNCHANGED charges /\ \A other \in PayoutIDs \ {id} : payouts'[other] = payouts[other]
  BY DEF Moves
<1>2. \A other \in PayoutIDs \ {id} :
         /\ payouts'[other].state = payouts[other].state
         /\ ReferredProvider(other)' = ReferredProvider(other)
         /\ ReferredCharge(other)' = ReferredCharge(other)
  BY <1>1, ReferenceKept
<1>3. CASE MoveCreate(id)
  <2>1. /\ ReferredProvider(id)' = ReferredProvider(id)
        /\ ReferredCharge(id)' = ReferredCharge(id)
    BY <1>1, <1>3, ReferenceKept DEF MoveCreate
  <2>2. LifeCycle!Create(id)
    BY <1>2, <1>3, <2>1 DEF LifeCycle!Create, MoveCreate
  <2> QED
    BY <2>2 DEF LifeCycle!Next
<1>4. CASE MoveSent(id)
  <2>1. PICK p \in Provider : /\ payouts'[id].external_id = <<p, id>>
                              /\ charges[id][p] \in {"accepted"} \cup Closed
    BY <1>4 DEF MoveSent
  <2>2. ReferredProvider(id)' = p /\ ReferredCharge(id)' = charges[id][p]
    <3>1. <<p, id>> # Null
      BY NullIsNoValue DEF ExternalID
    <3> QED
      BY <1>1, <2>1, <3>1 DEF ReferredProvider, ReferredCharge
  <2>3. ReferredProvider(id) = Null /\ charges[id][p] \in {"accepted"} \cup LifeCycle!Settled
    BY <1>4, <2>1 DEF MoveSent, Unsent, ReferredProvider, Closed, LifeCycle!Settled
  <2>4. LifeCycle!Send(id)
    BY <1>2, <1>4, <2>1, <2>2, <2>3 DEF LifeCycle!Send, MoveSent, Unsent
  <2> QED
    BY <2>4 DEF LifeCycle!Next
<1>5. CASE MoveFailed(id)
  <2>1. /\ ReferredProvider(id) = Null
        /\ ReferredProvider(id)' = ReferredProvider(id)
        /\ ReferredCharge(id)' = ReferredCharge(id)
    BY <1>1, <1>5, ReferenceKept DEF MoveFailed, Unsent, ReferredProvider
  <2>2. LifeCycle!GiveUp(id)
    BY <1>2, <1>5, <2>1 DEF LifeCycle!GiveUp, MoveFailed, Unsent
  <2> QED
    BY <2>2 DEF LifeCycle!Next
<1>6. CASE MoveCancel(id)
  <2>1. /\ ReferredProvider(id)' = ReferredProvider(id)
        /\ ReferredCharge(id)' = ReferredCharge(id)
    BY <1>1, <1>6, ReferenceKept DEF MoveCancel, KeepsReference
  <2>2. LifeCycle!Cancel(id)
    BY <1>2, <1>6, <2>1 DEF LifeCycle!Cancel, MoveCancel
  <2> QED
    BY <2>2 DEF LifeCycle!Next
<1>7. CASE MoveLearn(id)
  <2>1. /\ ReferredProvider(id)' = ReferredProvider(id)
        /\ ReferredCharge(id)' = ReferredCharge(id)
    BY <1>1, <1>7, ReferenceKept DEF MoveLearn, KeepsReference
  <2>2. ReferredCharge(id) = charges[id][payouts[id].provider]
    BY <1>7, ReferenceNames DEF MoveLearn
  <2>3. LifeCycle!Learn(id)
    BY <1>2, <1>7, <2>1, <2>2 DEF LifeCycle!Learn, LifeCycle!Settled, MoveLearn, Closed, Reported
  <2> QED
    BY <2>3 DEF LifeCycle!Next
<1> QED
  BY <1>3, <1>4, <1>5, <1>6, <1>7 DEF Moves

\* A charge that changes settles the payout whose reference names it, and is
\* nothing to any other.
LEMMA ChargeLives ==
    ASSUME IndInv, RowIndInv, ChargeMoves
    PROVE  LifeCycle!Next \/ UNCHANGED LifeCycle!vars
<1>1. PICK id \in PayoutIDs, p \in Provider, c \in ChargeState :
         /\ charges' = [charges EXCEPT ![id][p] = c]
         /\ \/ payouts[id].external_id = Null
            \/ charges[id][p] = "accepted" /\ c \in Closed
  BY DEF ChargeMoves
<1>2. payouts' = payouts
  BY DEF ChargeMoves
<1>3. /\ charges'[id][p] = c
      /\ \A i \in PayoutIDs, q \in Provider : i # id \/ q # p => charges'[i][q] = charges[i][q]
  BY <1>1 DEF IndInv, TypeOK, ProvidersTypeOK
<1>4. \A i \in PayoutIDs : ReferredProvider(i)' = ReferredProvider(i)
  BY <1>2 DEF ReferredProvider
<1>5. ASSUME NEW i \in PayoutIDs, i # id \/ payouts[id].external_id = Null
                                       \/ payouts[id].provider # p
      PROVE  ReferredCharge(i)' = ReferredCharge(i)
  <2>1. CASE payouts[i].external_id = Null
    BY <1>2, <2>1 DEF ReferredCharge
  <2>2. CASE payouts[i].external_id # Null
    <3>1. payouts[i].provider \in Provider /\ payouts[i].external_id = <<payouts[i].provider, i>>
      BY <2>2 DEF RowIndInv, RowInv, RowOK
    <3>2. charges'[i][payouts[i].provider] = charges[i][payouts[i].provider]
      BY <1>3, <1>5, <2>2, <3>1
    <3> QED
      BY <1>2, <2>2, <3>1, <3>2 DEF ReferredCharge
  <2> QED
    BY <2>1, <2>2
<1>6. CASE payouts[id].external_id = Null \/ payouts[id].provider # p
  <2>1. \A i \in PayoutIDs : ReferredCharge(i)' = ReferredCharge(i)
    BY <1>5, <1>6
  <2> QED
    BY <1>2, <1>4, <2>1 DEF LifeCycle!vars
<1>7. CASE payouts[id].external_id # Null /\ payouts[id].provider = p
  <2>1. payouts[id].external_id = <<p, id>>
    BY <1>7 DEF RowIndInv, RowInv, RowOK
  <2>2. ReferredCharge(id) = charges[id][p] /\ ReferredCharge(id)' = c
    BY <1>2, <1>3, <1>7, <2>1 DEF ReferredCharge
  <2>3. charges[id][p] = "accepted" /\ c \in LifeCycle!Settled
    BY <1>1, <1>7 DEF Closed, LifeCycle!Settled
  <2>4. LifeCycle!Settle(id)
    BY <1>2, <1>4, <1>5, <2>2, <2>3 DEF LifeCycle!Settle
  <2> QED
    BY <2>4 DEF LifeCycle!Next
<1> QED
  BY <1>6, <1>7

\* Every step of the service is a step of one payout's life, or none.
LEMMA StepLives ==
    IndInv /\ RowIndInv /\ [Next]_vars => [LifeCycle!Next]_(LifeCycle!vars)
<1> SUFFICES ASSUME IndInv, RowIndInv, [Next]_vars
             PROVE  LifeCycle!Next \/ UNCHANGED LifeCycle!vars
  OBVIOUS
<1>1. CASE UNCHANGED <<payouts, charges>>
  BY <1>1 DEF LifeCycle!vars, ReferredProvider, ReferredCharge
<1> QED
  BY <1>1, StepMoves, MoveLives, ChargeLives

\* Whatever handlers, faults and crashes do to the rows, each lives the life
\* PayoutLifeCycle describes.
THEOREM LivesAsPromised ==
    ASSUME ~DirectUpdates
    PROVE  Spec => FollowsTheLifeCycle
BY InitLives, StepLives, RowInvariance, PTL DEF Spec, FollowsTheLifeCycle, LifeCycle!Spec

=============================================================================
