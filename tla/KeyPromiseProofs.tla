-------------------------- MODULE KeyPromiseProofs --------------------------
(***************************************************************************)
(* PayoutService implements IdempotentCreate: every step either does what  *)
(* one of the abstract actions does or leaves the abstract state alone.    *)
(***************************************************************************)
EXTENDS PayoutServiceProofs

\* The abstract state is a function of the tables, the tries and the answers.
LEMMA InitRefines == Init => Abstract!Init
<1> SUFFICES ASSUME Init PROVE Abstract!Init
  OBVIOUS
<1>1. idempotency_keys = [k \in Keys |-> Null]
  BY DEF Init, StoreInit
<1>2. PayoutsSent = {}
  BY DEF Init, ProvidersInit, PayoutsSent
<1>3. AcceptedAnswers = {} /\ RefusedAnswers = {}
  BY DEF Init, AcceptedAnswers, RefusedAnswers, Answered, Requests
<1> QED
  BY <1>1, <1>2, <1>3 DEF Abstract!Init

\* Requests of which neither key, body nor answer changes say what they said.
LEMMA SameAnswers ==
    ASSUME \A r \in Creates :
              \/ req'[r] = req[r] /\ reply'[r] = reply[r]
              \/ /\ ~Answered(r, "OK") /\ ~Answered(r, "AlreadyExists")
                 /\ ~Answered(r, "OK")' /\ ~Answered(r, "AlreadyExists")'
    PROVE  UNCHANGED <<AcceptedAnswers, RefusedAnswers>>
<1>1. ASSUME NEW r \in Creates
      PROVE  /\ Answered(r, "OK")' <=> Answered(r, "OK")
             /\ Answered(r, "AlreadyExists")' <=> Answered(r, "AlreadyExists")
             /\ Answered(r, "OK") \/ Answered(r, "AlreadyExists")
                   => req'[r] = req[r] /\ reply'[r] = reply[r]
  BY DEF Answered
<1>2. AcceptedAnswers' = AcceptedAnswers
  BY <1>1 DEF AcceptedAnswers, key, body
<1>3. RefusedAnswers' = RefusedAnswers
  BY <1>1 DEF RefusedAnswers, key, body
<1> QED
  BY <1>2, <1>3

\* A step of request r, which had no answer yet and keeps its key and body,
\* adds what r is answered and nothing else.
LEMMA NewAnswer ==
    ASSUME NEW r \in Creates,
           reply[r] = Null, req' = req,
           \A s \in Creates : s # r => reply'[s] = reply[s]
    PROVE  /\ Answered(r, "OK")' =>
                 /\ AcceptedAnswers' = AcceptedAnswers \cup
                       {<<key(r), canonicalHash[body(r)], reply'[r].payout>>}
                 /\ RefusedAnswers' = RefusedAnswers
           /\ Answered(r, "AlreadyExists")' =>
                 /\ AcceptedAnswers' = AcceptedAnswers
                 /\ RefusedAnswers' = RefusedAnswers \cup
                       {<<key(r), canonicalHash[body(r)]>>}
           /\ ~Answered(r, "OK")' /\ ~Answered(r, "AlreadyExists")' =>
                 /\ AcceptedAnswers' = AcceptedAnswers
                 /\ RefusedAnswers' = RefusedAnswers
<1>1. \A s \in Creates : key(s)' = key(s) /\ body(s)' = body(s)
  BY DEF key, body
<1>2. \A s \in Creates : s # r =>
         /\ Answered(s, "OK")' = Answered(s, "OK")
         /\ Answered(s, "AlreadyExists")' = Answered(s, "AlreadyExists")
  BY DEF Answered
<1>3. ~Answered(r, "OK") /\ ~Answered(r, "AlreadyExists")
  BY DEF Answered
<1>4. Answered(r, "OK")' => ~Answered(r, "AlreadyExists")'
  BY DEF Answered
<1>5. Answered(r, "OK")' => AcceptedAnswers' = AcceptedAnswers \cup
         {<<key(r), canonicalHash[body(r)], reply'[r].payout>>}
  BY <1>1, <1>2, <1>3 DEF AcceptedAnswers
<1>6. ~Answered(r, "OK")' => AcceptedAnswers' = AcceptedAnswers
  BY <1>1, <1>2, <1>3 DEF AcceptedAnswers
<1>7. Answered(r, "AlreadyExists")' => RefusedAnswers' = RefusedAnswers \cup
         {<<key(r), canonicalHash[body(r)]>>}
  BY <1>1, <1>2, <1>3 DEF RefusedAnswers
<1>8. ~Answered(r, "AlreadyExists")' => RefusedAnswers' = RefusedAnswers
  BY <1>1, <1>2, <1>3 DEF RefusedAnswers
<1> QED
  BY <1>4, <1>5, <1>6, <1>7, <1>8

\* What a handler's last step does to the answers.
LEMMA AnswerGiven ==
    ASSUME IndInv, NEW r \in Creates, NEW code, NEW id, NEW status,
           Answer(r, code, id, status)
    PROVE  /\ reply'[r] = [code |-> code, payout |-> id, status |-> status]
           /\ \A s \in Creates : s # r => reply'[s] = reply[s]
BY CreateIsARequest DEF Answer, IndInv, TypeOK

\* An error is not a promise.
LEMMA InternalIsSilent ==
    ASSUME IndInv, NEW r \in Creates, reply[r] = Null, req' = req,
           Answer(r, "Internal", Null, Null)
    PROVE  UNCHANGED <<AcceptedAnswers, RefusedAnswers>>
<1>1. /\ reply'[r] = [code |-> "Internal", payout |-> Null, status |-> Null]
      /\ \A s \in Creates : s # r => reply'[s] = reply[s]
  BY AnswerGiven
<1>2. ~Answered(r, "OK")' /\ ~Answered(r, "AlreadyExists")'
  BY <1>1 DEF Answered
<1> QED
  BY <1>1, <1>2, NewAnswer

\* BEGIN and the payout INSERT are invisible.
LEMMA BeginIsSilent ==
    ASSUME IndInv, NEW r \in Creates, NEW k \in Keys, NEW b \in Bodies,
           BeginCreate(r, k, b)
    PROVE  UNCHANGED Abstract!vars
<1>1. UNCHANGED <<idempotency_keys, attempts>>
  BY DEF BeginCreate, storeVars, providerVars
<1>2. \A s \in Creates : s # r => req'[s] = req[s] /\ reply'[s] = reply[s]
  BY AnswerGiven DEF BeginCreate, Goto, IndInv, TypeOK
<1>3. ~Answered(r, "OK") /\ ~Answered(r, "AlreadyExists")
  BY DEF BeginCreate, IndInv, RequestInv, Answered
<1>4. ~Answered(r, "OK")' /\ ~Answered(r, "AlreadyExists")'
  <2>1. CASE UNCHANGED reply
    BY <2>1, <1>3 DEF Answered
  <2>2. CASE Answer(r, "Internal", Null, Null)
    <3>1. reply'[r] = [code |-> "Internal", payout |-> Null, status |-> Null]
      BY <2>2, AnswerGiven
    <3> QED
      BY <3>1 DEF Answered
  <2> QED
    BY <2>1, <2>2 DEF BeginCreate, Goto
<1>5. UNCHANGED <<AcceptedAnswers, RefusedAnswers>>
  BY <1>2, <1>3, <1>4, SameAnswers
<1> QED
  BY <1>1, <1>5 DEF Abstract!vars, PayoutsSent

\* So are the steps up to COMMIT, and finding no provider to try.
LEMMA KeyStepIsSilent ==
    ASSUME IndInv, NEW r \in Creates,
           \/ InsertKey(r) \/ FindKey(r) \/ SerializationFailure(r) \/ TxFails(r)
           \/ NoProviders(r)
    PROVE  UNCHANGED Abstract!vars
<1>1. UNCHANGED <<idempotency_keys, attempts, req>>
  BY DEF InsertKey, FindKey, SerializationFailure, TxFails, NoProviders,
         storeVars, providerVars, localVars
<1>2. reply[r] = Null
  BY DEF IndInv, RequestInv, InsertKey, FindKey, SerializationFailure, TxFails, NoProviders
<1>3. UNCHANGED reply \/ Answer(r, "Internal", Null, Null)
  BY DEF InsertKey, FindKey, SerializationFailure, TxFails, NoProviders, Goto
<1>4. UNCHANGED <<AcceptedAnswers, RefusedAnswers>>
  BY <1>1, <1>2, <1>3, SameAnswers, InternalIsSilent
<1> QED
  BY <1>1, <1>4 DEF Abstract!vars, PayoutsSent

\* COMMIT decides what the key means: for the first time, and for a payout
\* that no other key means.
LEMMA CommitDecides ==
    ASSUME IndInv, NEW r \in Creates, CommitTx(r)
    PROVE  Abstract!Decide(key(r), canonicalHash[body(r)], r)
<1>1. /\ pc[r] = "commit" /\ ~Bound(key(r)) /\ ~Exists(r) /\ reply[r] = Null
      /\ UNCHANGED <<attempts, req>>
  BY DEF CommitTx, IndInv, LockInv, RequestInv, InTransaction, providerVars, localVars
<1>2. \A k \in Keys : Bound(k) => idempotency_keys[k].payout_id # r
  BY <1>1 DEF IndInv, KeyInv
<1>3. idempotency_keys' = [idempotency_keys EXCEPT ![key(r)] =
         [request_hash |-> canonicalHash[body(r)], payout_id |-> r]]
  BY DEF CommitTx, CommitPayoutAndKey
<1>4. UNCHANGED reply \/ Answer(r, "Internal", Null, Null)
  BY DEF CommitTx, Goto
<1>5. UNCHANGED <<AcceptedAnswers, RefusedAnswers>>
  BY <1>1, <1>4, SameAnswers, InternalIsSilent
<1> QED
  BY <1>1, <1>2, <1>3, <1>5 DEF Abstract!Decide, PayoutsSent, Bound

\* A losing request answers with the decision it lost to.
LEMMA ReplayAgrees ==
    ASSUME IndInv, NEW r \in Creates, Replay(r)
    PROVE  \/ Abstract!Accept(key(r))
           \/ Abstract!Refuse(key(r), canonicalHash[body(r)])
           \/ UNCHANGED Abstract!vars
<1>1. /\ pc[r] = "replay" /\ reply[r] = Null /\ Bound(key(r))
      /\ existing[r] = idempotency_keys[key(r)]
      /\ UNCHANGED <<idempotency_keys, attempts, req>>
  BY DEF Replay, IndInv, RequestInv, ReplayInv, storeVars, providerVars, localVars
<1>2. CASE /\ existing[r].request_hash # canonicalHash[body(r)]
           /\ Answer(r, "AlreadyExists", Null, Null)
  <2>1. /\ reply'[r] = [code |-> "AlreadyExists", payout |-> Null, status |-> Null]
        /\ \A s \in Creates : s # r => reply'[s] = reply[s]
    BY <1>2, AnswerGiven
  <2>2. Answered(r, "AlreadyExists")'
    BY <2>1, LocalsAssumption DEF Answered, Reply, Code
  <2>3. /\ AcceptedAnswers' = AcceptedAnswers
        /\ RefusedAnswers' = RefusedAnswers \cup {<<key(r), canonicalHash[body(r)]>>}
    BY <1>1, <2>1, <2>2, NewAnswer
  <2> QED
    BY <1>1, <1>2, <2>3 DEF Abstract!Refuse, Bound, PayoutsSent
<1>3. CASE /\ existing[r].request_hash = canonicalHash[body(r)]
           /\ Exists(existing[r].payout_id)
           /\ Answer(r, "OK", existing[r].payout_id, payouts[existing[r].payout_id].state)
  <2>1. /\ reply'[r] = [code |-> "OK", payout |-> existing[r].payout_id,
                        status |-> payouts[existing[r].payout_id].state]
        /\ \A s \in Creates : s # r => reply'[s] = reply[s]
    BY <1>3, AnswerGiven
  <2>2. reply'[r] # Null
    BY ReplayPreserves, <2>1, CreateIsARequest, LocalsAssumption, <1>1, <1>3
       DEF IndInv, TypeOK, Reply, Code, StoreTypeOK, Row, Exists, Binding, Bound
  <2>3. Answered(r, "OK")' /\ reply'[r].payout = existing[r].payout_id
    BY <2>1, <2>2 DEF Answered
  <2>4. /\ AcceptedAnswers' = AcceptedAnswers \cup
              {<<key(r), canonicalHash[body(r)], reply'[r].payout>>}
        /\ RefusedAnswers' = RefusedAnswers
    BY <1>1, <2>1, <2>3, NewAnswer
  <2> QED
    BY <1>1, <1>3, <2>3, <2>4 DEF Abstract!Accept, Bound, PayoutsSent
<1>4. CASE Answer(r, "Internal", Null, Null)
  BY <1>1, <1>4, InternalIsSilent DEF Abstract!vars, PayoutsSent
<1> QED
  BY <1>2, <1>3, <1>4 DEF Replay

\* A provider is only asked to pay what the key means.
LEMMA SendIsOfTheKey ==
    ASSUME IndInv, NEW r \in Creates, SendPayout(r)
    PROVE  Abstract!Send(key(r))
<1>1. /\ pc[r] = "send" /\ r \in PayoutIDs
      /\ UNCHANGED <<idempotency_keys, req, reply>>
  BY CreateIsARequest DEF SendPayout, Goto, storeVars, localVars
<1>2. Bound(key(r)) /\ idempotency_keys[key(r)].payout_id = r
  BY <1>1, SenderOwnsItsKey DEF Sending
<1>3. PICK try : attempts' = [attempts EXCEPT ![r] = Append(attempts[r], try)]
  BY DEF SendPayout, TryProvider
<1>4. attempts \in [PayoutIDs -> Seq(Attempt)]
  BY DEF IndInv, TypeOK, ProvidersTypeOK
<1>5. /\ attempts'[r] = Append(attempts[r], try)
      /\ \A id \in PayoutIDs : id # r => attempts'[id] = attempts[id]
  BY <1>1, <1>3, <1>4
<1>6. attempts'[r] # <<>>
  <2>1. attempts[r] \in Seq(Attempt)
    BY <1>1, <1>4
  <2>2. \A q \in Seq(Attempt) : Len(Append(q, try)) = Len(q) + 1 /\ Len(q) \in Nat
    OBVIOUS
  <2>3. Len(<<>>) = 0
    OBVIOUS
  <2> QED
    BY <1>5, <2>1, <2>2, <2>3
<1>7. PayoutsSent' = PayoutsSent \cup {r}
  BY <1>1, <1>5, <1>6 DEF PayoutsSent
<1>8. UNCHANGED <<AcceptedAnswers, RefusedAnswers>>
  BY <1>1, SameAnswers
<1> QED
  BY <1>1, <1>2, <1>7, <1>8 DEF Abstract!Send, Bound

\* The request that sent the payout is answered with what its key means,
\* whether or not the UPDATE succeeded.
LEMMA RecordAccepts ==
    ASSUME IndInv, NEW r \in Creates, RecordSent(r) \/ RecordFailed(r) \/ RecordRefused(r)
    PROVE  Abstract!Accept(key(r))
<1>1. /\ pc[r] \in {"record_sent", "record_failed"} /\ r \in PayoutIDs
      /\ UNCHANGED <<idempotency_keys, req, attempts>>
  BY CreateIsARequest DEF RecordSent, RecordFailed, Record, RecordRefused,
     UpdatePayoutState, storeVars, providerVars, localVars
<1>2. reply[r] = Null
  BY <1>1 DEF IndInv, RequestInv
<1>3. /\ Bound(key(r)) /\ idempotency_keys[key(r)].payout_id = r
      /\ idempotency_keys[key(r)].request_hash = canonicalHash[body(r)]
  BY <1>1, SenderOwnsItsKey DEF Sending
<1>4. PICK status \in PayoutState : Answer(r, "OK", r, status)
  BY DEF RecordSent, RecordFailed, Record, RecordRefused, PayoutState
<1>5. /\ reply'[r] = [code |-> "OK", payout |-> r, status |-> status]
      /\ \A s \in Creates : s # r => reply'[s] = reply[s]
  BY <1>4, AnswerGiven
<1>6. Answered(r, "OK")' /\ reply'[r].payout = r
  <2>1. [code |-> "OK", payout |-> r, status |-> status] \in Reply
    BY <1>1, AnswerIsReply DEF Code
  <2>2. reply'[r] # Null
    BY <2>1, <1>5, NullIsNoValue
  <2> QED
    BY <2>2, <1>5 DEF Answered
<1>7. /\ AcceptedAnswers' = AcceptedAnswers \cup {<<key(r), canonicalHash[body(r)], r>>}
      /\ RefusedAnswers' = RefusedAnswers
  BY <1>1, <1>2, <1>5, <1>6, NewAnswer
<1> QED
  BY <1>1, <1>3, <1>7 DEF Abstract!Accept, Bound, PayoutsSent

\* A request that is past its first step has a key and a body.
LEMMA RequestIsKnown ==
    ASSUME IndInv, NEW r \in Creates, pc[r] # "idle"
    PROVE  key(r) \in Keys /\ canonicalHash[body(r)] \in {canonicalHash[b] : b \in Bodies}
BY DEF IndInv, TypeOK, RequestInv, CreateRequest, key, body

\* Every step is one of the abstract specification, or invisible to it.
LEMMA StepRefines == IndInv /\ [Next]_vars => [Abstract!Next]_(Abstract!vars)
<1> SUFFICES ASSUME IndInv, [Next]_vars PROVE Abstract!Next \/ UNCHANGED Abstract!vars
  OBVIOUS
<1>1. ASSUME NEW r \in Creates, NEW k \in Keys, NEW b \in Bodies, BeginCreate(r, k, b)
      PROVE  UNCHANGED Abstract!vars
  BY <1>1, BeginIsSilent
<1>2. ASSUME NEW r \in Creates, CreateStep(r)
      PROVE  Abstract!Next \/ UNCHANGED Abstract!vars
  <2>1. CASE \/ InsertKey(r) \/ FindKey(r) \/ SerializationFailure(r) \/ TxFails(r)
             \/ NoProviders(r)
    BY <2>1, KeyStepIsSilent
  <2>2. CASE CommitTx(r)
    <3>1. pc[r] # "idle"
      BY <2>2 DEF CommitTx
    <3> QED
      BY <2>2, <3>1, CommitDecides, RequestIsKnown, CreateIsARequest DEF Abstract!Next
  <2>3. CASE Replay(r)
    <3>1. pc[r] # "idle"
      BY <2>3 DEF Replay
    <3> QED
      BY <2>3, <3>1, ReplayAgrees, RequestIsKnown DEF Abstract!Next
  <2>4. CASE SendPayout(r)
    <3>1. pc[r] # "idle"
      BY <2>4 DEF SendPayout
    <3> QED
      BY <2>4, <3>1, SendIsOfTheKey, RequestIsKnown DEF Abstract!Next
  <2>5. CASE RecordSent(r) \/ RecordFailed(r) \/ RecordRefused(r)
    <3>1. pc[r] # "idle"
      BY <2>5 DEF RecordSent, RecordFailed, Record, RecordRefused
    <3> QED
      BY <2>5, <3>1, RecordAccepts, RequestIsKnown DEF Abstract!Next
  <2> QED
    BY <1>2, <2>1, <2>2, <2>3, <2>4, <2>5 DEF CreateStep
<1>3. ASSUME UNCHANGED <<idempotency_keys, attempts, req>>,
             \A r \in Creates : reply'[r] = reply[r]
      PROVE  UNCHANGED Abstract!vars
  BY <1>3, SameAnswers DEF Abstract!vars, PayoutsSent
<1>4. ASSUME NEW c \in Cancels \cup Updates, NEW code, NEW id, NEW status,
             Answer(c, code, id, status) \/ UNCHANGED reply
      PROVE  \A r \in Creates : reply'[r] = reply[r]
  BY <1>4, KindsDiffer DEF Answer, IndInv, TypeOK, Requests
<1>5. ASSUME NEW c \in Cancels, (\E id \in PayoutIDs : BeginCancel(c, id)) \/ CancelStep(c)
      PROVE  UNCHANGED Abstract!vars
  <2>1. UNCHANGED <<idempotency_keys, attempts, req>>
    BY <1>5 DEF BeginCancel, CancelStep, CancelWithProvider, CancelInDB, CancelAtProvider,
                CancelPayoutIfCancelable, storeVars, providerVars, localVars
  <2>2. \A r \in Creates : reply'[r] = reply[r]
    BY <1>4, <1>5 DEF BeginCancel, CancelStep, CancelWithProvider, CancelInDB, Goto
  <2> QED
    BY <1>3, <2>1, <2>2
<1>6. ASSUME NEW u \in Updates, (\E e \in Notifications : BeginApply(u, e)) \/ ApplyUpdate(u)
      PROVE  UNCHANGED Abstract!vars
  <2>1. UNCHANGED <<idempotency_keys, attempts, req>>
    BY <1>6 DEF BeginApply, ApplyUpdate, UpdatePayoutState, storeVars, providerVars, localVars
  <2>2. \A r \in Creates : reply'[r] = reply[r]
    BY <1>4, <1>6 DEF BeginApply, ApplyUpdate, Goto
  <2> QED
    BY <1>3, <2>1, <2>2
<1>7. CASE ProviderSettles
  BY <1>3, <1>7 DEF ProviderSettles, Settle, storeVars, localVars
<1>8. CASE Crash
  BY <1>3, <1>8 DEF Crash, ForgetStats, storeVars, localVars
<1>9. CASE UNCHANGED vars
  BY <1>3, <1>9 DEF vars, storeVars, providerVars, localVars
<1> QED
  BY <1>1, <1>2, <1>5, <1>6, <1>7, <1>8, <1>9 DEF Next

\* CreatePayout keeps the promise of an idempotency key: the first request
\* that commits decides what the key means, every answer agrees with it and
\* no provider is called for anything else, under any concurrency, database
\* fault or crash.
THEOREM KeyPromise == Spec => KeepsTheKeyPromise
BY InitRefines, StepRefines, Invariance, PTL DEF Spec, KeepsTheKeyPromise, Abstract!Spec

=============================================================================
