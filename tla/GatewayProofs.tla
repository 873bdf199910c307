--------------------------- MODULE GatewayProofs ---------------------------
(***************************************************************************)
(* The orchestrator behind the API service behaves as PayoutService        *)
(* allows, whoever goes away and whenever it is stopped and started again: *)
(* proofs for any number of requests, any set of impatient clients and     *)
(* lossy calls, and any combination of faults.  The theorems on 502s and   *)
(* on graceful stops assume that no statement fails of its own accord      *)
(* while a caller waits.                                                   *)
(***************************************************************************)
EXTENDS GatewayProperties, KeyPromiseProofs, MoneyProofs

\* The registry is the same for every handler.
LEMMA SameProviders == \A rl : Calm!GetProviders(rl) = GetProviders(rl)
BY DEF Calm!GetProviders, GetProviders

\* A handler whose caller waits does nothing that one without could not do.
LEMMA CalmMayFail == Calm!DbMayFail => DbMayFail
BY GateAssumption DEF Calm!DbMayFail, DbMayFail

\* A provider answers it in fewer ways,
LEMMA CalmOutcomes == \A p : Calm!Outcomes(p) \subseteq Outcomes(p)
BY GateAssumption DEF Calm!Outcomes, Outcomes, Calm!IsMock, IsMock

\* and it starts in no other way.
LEMMA CalmBegins ==
    /\ \A r, k, b : Calm!BeginCreate(r, k, b) => BeginCreate(r, k, b)
    /\ \A c, id : Calm!BeginCancel(c, id) => BeginCancel(c, id)
    /\ \A u, e : Calm!BeginApply(u, e) => BeginApply(u, e)
<1>1. \A r, k, b : Calm!BeginCreate(r, k, b) => BeginCreate(r, k, b)
  BY CalmMayFail DEF Calm!BeginCreate, BeginCreate, Calm!Bound, Bound, Calm!SchemaRails,
     SchemaRails, Calm!Goto, Goto, Calm!Answer, Answer, Calm!storeVars, storeVars,
     Calm!providerVars, providerVars
<1>2. \A c, id : Calm!BeginCancel(c, id) => BeginCancel(c, id)
  BY CalmMayFail DEF Calm!BeginCancel, BeginCancel, Calm!Exists, Exists,
     Calm!cancelableStates, cancelableStates, Calm!Goto, Goto, Calm!Answer, Answer,
     Calm!storeVars, storeVars, Calm!providerVars, providerVars
<1>3. \A u, e : Calm!BeginApply(u, e) => BeginApply(u, e)
  BY CalmMayFail DEF Calm!BeginApply, BeginApply, Calm!Exists, Exists,
     Calm!FindByExternalID, FindByExternalID,
     Calm!findPayoutByExternalIDOrID, findPayoutByExternalIDOrID,
     Calm!mapProviderStatusToState, mapProviderStatusToState, Calm!Goto, Goto,
     Calm!Answer, Answer, Calm!storeVars, storeVars, Calm!providerVars, providerVars
<1> QED
  BY <1>1, <1>2, <1>3

\* The same is true of the transaction of CreatePayout and its replay,
LEMMA CalmTransaction ==
    \A r :
        /\ Calm!InsertKey(r) => InsertKey(r)
        /\ Calm!FindKey(r) => FindKey(r)
        /\ Calm!SerializationFailure(r) => SerializationFailure(r)
        /\ Calm!CommitTx(r) => CommitTx(r)
        /\ Calm!TxFails(r) => TxFails(r)
        /\ Calm!Replay(r) => Replay(r)
<1> TAKE r
<1> USE CalmMayFail DEF Calm!Bound, Bound, Calm!Exists, Exists, Calm!key, key, Calm!body,
        body, Calm!Goto, Goto, Calm!Answer, Answer, Calm!storeVars, storeVars,
        Calm!providerVars, providerVars, Calm!localVars, localVars, Calm!LockFree, LockFree,
        Calm!Creates, Creates
<1>1. Calm!InsertKey(r) => InsertKey(r)
  BY DEF Calm!InsertKey, InsertKey
<1>2. Calm!FindKey(r) => FindKey(r)
  BY DEF Calm!FindKey, FindKey
<1>3. Calm!SerializationFailure(r) => SerializationFailure(r)
  BY DEF Calm!SerializationFailure, SerializationFailure
<1>4. Calm!CommitTx(r) => CommitTx(r)
  BY DEF Calm!CommitTx, CommitTx, Calm!CommitPayoutAndKey, CommitPayoutAndKey
<1>5. Calm!TxFails(r) => TxFails(r)
  BY DEF Calm!TxFails, TxFails
<1>6. Calm!Replay(r) => Replay(r)
  BY DEF Calm!Replay, Replay
<1> QED
  BY <1>1, <1>2, <1>3, <1>4, <1>5, <1>6

\* for the fallback loop,
LEMMA CalmSend ==
    \A r :
        /\ Calm!SendPayout(r) => SendPayout(r)
        /\ Calm!NoProviders(r) => NoProviders(r)
<1> TAKE r
<1>1. Calm!rail(r) = rail(r)
  BY DEF Calm!rail, rail, Calm!body, body
<1>2. /\ Calm!HasNextProvider(r, rail(r)) <=> HasNextProvider(r, rail(r))
      /\ Calm!NextProvider(r, rail(r)) = NextProvider(r, rail(r))
  BY SameProviders DEF Calm!HasNextProvider, HasNextProvider, Calm!NextProvider, NextProvider
<1>3. \A rl, p, out : Calm!TryProvider(r, rl, p, out) => TryProvider(r, rl, p, out)
  BY DEF Calm!TryProvider, TryProvider, Calm!RecordOutcome, RecordOutcome,
     Calm!ChargeOf, ChargeOf, Calm!EventOf, EventOf
<1>4. \A out : Calm!isRetryable(out) <=> isRetryable(out)
  BY DEF Calm!isRetryable, isRetryable
<1>5. \A label : Calm!Goto(r, label) => Goto(r, label)
  BY DEF Calm!Goto, Goto
<1>6. Calm!SendPayout(r) => SendPayout(r)
  BY <1>1, <1>2, <1>3, <1>4, <1>5, SameProviders, CalmOutcomes
     DEF Calm!SendPayout, SendPayout, Calm!storeVars, storeVars, Calm!localVars, localVars
<1>7. Calm!NoProviders(r) => NoProviders(r)
  BY <1>1, <1>2, <1>5 DEF Calm!NoProviders, NoProviders, Calm!storeVars, storeVars,
     Calm!localVars, localVars, Calm!providerVars, providerVars
<1> QED
  BY <1>6, <1>7

\* and for every write of a row after that.
LEMMA CalmWrites ==
    /\ \A r : Calm!RecordSent(r) => RecordSent(r)
    /\ \A r : Calm!RecordFailed(r) => RecordFailed(r)
    /\ \A r : Calm!RecordRefused(r) => RecordRefused(r)
    /\ \A c : Calm!CancelStep(c) => CancelStep(c)
    /\ \A u : Calm!ApplyUpdate(u) => ApplyUpdate(u)
<1>1. /\ \A id : Calm!LastProvider(id) = LastProvider(id)
      /\ \A id, ext, p : Calm!UpdateAccepted(id, ext, p) <=> UpdateAccepted(id, ext, p)
      /\ \A id, st, ext, p : Calm!UpdatePayoutState(id, st, ext, p)
                                  => UpdatePayoutState(id, st, ext, p)
  BY DEF Calm!LastProvider, LastProvider, Calm!UpdateAccepted, UpdateAccepted, Calm!Exists,
     Exists, Calm!SchemaProviders, SchemaProviders, Calm!FindByExternalID, FindByExternalID,
     Calm!UpdatePayoutState, UpdatePayoutState
<1>2. \A r, label, st, ext : Calm!Record(r, label, st, ext) => Record(r, label, st, ext)
  BY <1>1, CalmMayFail DEF Calm!Record, Record, Calm!Answer, Answer, Calm!providerVars,
     providerVars, Calm!localVars, localVars
<1>3. \A r : /\ Calm!RecordSent(r) => RecordSent(r)
             /\ Calm!RecordFailed(r) => RecordFailed(r)
  BY <1>1, <1>2 DEF Calm!RecordSent, RecordSent, Calm!RecordFailed, RecordFailed
<1>4. \A r : Calm!RecordRefused(r) => RecordRefused(r)
  BY <1>1, CalmMayFail DEF Calm!RecordRefused, RecordRefused, Calm!Answer, Answer,
     Calm!providerVars, providerVars, Calm!localVars, localVars, Calm!storeVars, storeVars
<1>5. \A c : Calm!CancelWithProvider(c) => CancelWithProvider(c)
  BY DEF Calm!CancelWithProvider, CancelWithProvider, Calm!CancelAtProvider,
     CancelAtProvider, Calm!Cancelable, Cancelable, Calm!GetByProvider, GetByProvider,
     Calm!Rail, Rail, Calm!IsMock, IsMock, Calm!EventOf, EventOf, Calm!Goto, Goto,
     Calm!localVars, localVars, Calm!storeVars, storeVars
<1>6. \A c : Calm!CancelInDB(c) => CancelInDB(c)
  BY CalmMayFail DEF Calm!CancelInDB, CancelInDB, Calm!CancelPayoutIfCancelable,
     CancelPayoutIfCancelable, Calm!cancelableStates, cancelableStates, Calm!Answer, Answer,
     Calm!providerVars, providerVars, Calm!localVars, localVars, Calm!storeVars, storeVars
<1>7. \A u : Calm!ApplyUpdate(u) => ApplyUpdate(u)
  BY <1>1, CalmMayFail DEF Calm!ApplyUpdate, ApplyUpdate, Calm!Answer, Answer,
     Calm!providerVars, providerVars, Calm!localVars, localVars, Calm!storeVars, storeVars
<1> QED
  BY <1>3, <1>4, <1>5, <1>6, <1>7 DEF Calm!CancelStep, CancelStep

\* What a handler does is the same whether or not its caller is there, but
\* for the faults it meets.
LEMMA CalmIsAllowed ==
    /\ \A r : Calm!CreateStep(r) => CreateStep(r)
    /\ \A c : Calm!CancelStep(c) => CancelStep(c)
    /\ \A u : Calm!ApplyUpdate(u) => ApplyUpdate(u)
BY CalmTransaction, CalmSend, CalmWrites DEF Calm!CreateStep, CreateStep

\* An orchestrator that starts again has forgotten its tracker.
LEMMA ForgetPreserves ==
    ASSUME IndInv, ForgetStats, UNCHANGED <<storeVars, pc, localVars, reply>>
    PROVE  IndInv'
<1> USE DEF IndInv, ForgetStats, storeVars, localVars
<1>1. stats' \in [Rail \X Provider -> Counter]
  BY DEF Counter
<1>2. TypeOK'
  BY <1>1 DEF TypeOK, ProvidersTypeOK, StoreTypeOK
<1>3. SeenInv'
  BY DEF SeenInv
<1> QED
  BY <1>2, <1>3, CreatesUntouched

\* Every step of the composition is one PayoutService allows, but for the
\* start after a graceful stop.
LEMMA GateStepIsAllowed == [GateNext]_allVars => [Next]_vars \/ Restart
<1> SUFFICES ASSUME [GateNext]_allVars PROVE [Next]_vars \/ Restart
  OBVIOUS
<1>1. ASSUME NEW r \in Creates, NEW k \in Keys, NEW b \in Bodies, PostPayout(r, k, b)
      PROVE  Next
  BY <1>1, CalmBegins DEF PostPayout, Next
<1>2. ASSUME NEW c \in Cancels, NEW id \in Watched, PostCancel(c, id)
      PROVE  Next
  BY <1>2, CalmBegins, GateAssumption DEF PostCancel, Next
<1>3. ASSUME NEW q \in Calls, NotReached(q) \/ Respond(q) \/ HangUp(q)
      PROVE  UNCHANGED vars
  BY <1>3 DEF NotReached, Respond, HangUp
<1>4. ASSUME NEW q \in Calls, Handle(q)
      PROVE  Next
  BY <1>4, CalmIsAllowed DEF Handle, Next
<1>5. ASSUME NEW id \in Watched, ShowPayout(id)
      PROVE  UNCHANGED vars
  BY <1>5 DEF ShowPayout, GetPayout
<1>6. ASSUME NEW u \in Updates, Notify(u) \/ Apply(u)
      PROVE  Next
  BY <1>6, CalmBegins, CalmIsAllowed DEF Notify, Apply, Next
<1>7. CASE ProviderSettles
  BY <1>7 DEF Next
<1>8. CASE Terminate \/ GracefulStop
  BY <1>8 DEF Terminate, GracefulStop
<1>9. CASE UNCHANGED allVars
  BY <1>9 DEF allVars
<1> QED
  BY <1>1, <1>2, <1>3, <1>4, <1>5, <1>6, <1>7, <1>8, <1>9 DEF GateNext

\* The invariant of the orchestrator holds behind the API service as well.
LEMMA GateIndInv == IndInv /\ [GateNext]_allVars => IndInv'
BY GateStepIsAllowed, NextIndInv, ForgetPreserves DEF Restart

\* It holds before anybody has called.
LEMMA GateInitIndInv == GateInit => IndInv
BY InitIndInv DEF GateInit

\* Every status the API answers has its type, and so has what clients learn.
LEMMA GateTypes == IndInv /\ GateTypeOK /\ [GateNext]_allVars => GateTypeOK'
<1> SUFFICES ASSUME IndInv, GateTypeOK, [GateNext]_allVars PROVE GateTypeOK'
  OBVIOUS
<1> USE DEF GateTypeOK
<1>1. ASSUME NEW r \in Creates, NEW k \in Keys, NEW b \in Bodies, PostPayout(r, k, b)
      PROVE  GateTypeOK'
  BY <1>1 DEF PostPayout, Wait, HttpLabel, Rivals
<1>2. ASSUME NEW c \in Cancels, NEW id \in Watched, PostCancel(c, id)
      PROVE  GateTypeOK'
  BY <1>2 DEF PostCancel, Wait, HttpLabel
<1>3. ASSUME NEW q \in Calls, NotReached(q)
      PROVE  GateTypeOK'
  BY <1>3 DEF NotReached, Write, HttpLabel, Status
<1>4. ASSUME NEW q \in Calls, Respond(q)
      PROVE  GateTypeOK'
  <2>1. \A c : CreateStatus(c) \in Status /\ CancelStatus(c) \in Status
    BY DEF CreateStatus, CancelStatus, Status
  <2>2. \E status \in Status : Write(q, status)
    BY <1>4, <2>1 DEF Respond, Status
  <2>3. told' \in [PayoutIDs -> Row \cup {Named, Null}]
    BY <1>4 DEF Respond
  <2> QED
    BY <1>4, <2>2, <2>3 DEF Respond, Write, HttpLabel
<1>5. ASSUME NEW q \in Calls, HangUp(q)
      PROVE  GateTypeOK'
  BY <1>5 DEF HangUp, HttpLabel, Status
<1>6. ASSUME NEW id \in Watched, ShowPayout(id)
      PROVE  GateTypeOK'
  <2>1. id \in PayoutIDs /\ payouts[id] \in Row
    BY GateAssumption DEF IndInv, TypeOK, StoreTypeOK
  <2> QED
    BY <1>6, <2>1 DEF ShowPayout, GetPayout
<1>7. ASSUME \/ \E q \in Calls : Handle(q)
             \/ \E u \in Updates : Notify(u) \/ Apply(u)
             \/ ProviderSettles /\ UNCHANGED gateVars
             \/ UNCHANGED allVars
      PROVE  GateTypeOK'
  BY <1>7 DEF Handle, Notify, Apply, gateVars, allVars
<1>8. CASE Terminate \/ GracefulStop \/ Restart
  BY <1>8 DEF Terminate, GracefulStop, Restart, clientVars
<1> QED
  BY <1>1, <1>2, <1>3, <1>4, <1>5, <1>6, <1>7, <1>8 DEF GateNext

\* What the API may have answered, by where the orchestrator's call is: a
\* promise is only made when the orchestrator has made it.
HttpInv ==
    \A r \in Creates :
        /\ http[r] = "idle" => pc[r] = "idle"
        /\ code[r] = 202 => http[r] = "answered" /\ pc[r] = "done" /\ Answered(r, "OK")
        /\ code[r] = 409 => http[r] = "answered" /\ pc[r] = "done" /\ Answered(r, "AlreadyExists")

\* Nobody was answered yet.
LEMMA GateInitTypes == GateInit => GateTypeOK /\ HttpInv
<1> SUFFICES ASSUME GateInit PROVE GateTypeOK /\ HttpInv
  OBVIOUS
<1>1. GateTypeOK
  BY DEF GateInit, GateTypeOK, HttpLabel
<1>2. \A r \in Creates : r \in Requests /\ r \in Calls
  BY DEF Requests, Calls
<1>3. Null # 202 /\ Null # 409
  BY GateAssumption DEF Status
<1> QED
  BY <1>1, <1>2, <1>3 DEF GateInit, Init, HttpInv

\* A call the orchestrator has begun moves on; so do cancels and updates.
Working ==
    \/ \E r \in Creates : CreateStep(r)
    \/ \E c \in Cancels : (\E id \in PayoutIDs : BeginCancel(c, id)) \/ CancelStep(c)
    \/ \E u \in Updates : (\E e \in Notifications : BeginApply(u, e)) \/ ApplyUpdate(u)
    \/ ProviderSettles

\* That leaves alone what is not begun and what is answered.
Stands(r) ==
    /\ pc[r] = "idle" => pc'[r] = "idle"
    /\ pc[r] = "done" => pc'[r] = "done" /\ req'[r] = req[r] /\ reply'[r] = reply[r]

LEMMA WorkingStands ==
    ASSUME IndInv, Working
    PROVE  \A r \in Creates : Stands(r)
<1>1. ASSUME NEW q \in Requests, pc[q] # "done", q \in Creates => pc[q] # "idle",
             UNCHANGED req,
             \/ \E label : Goto(q, label)
             \/ \E c, id, st : Answer(q, c, id, st)
      PROVE  \A r \in Creates : Stands(r)
  BY <1>1, CreateIsARequest DEF IndInv, TypeOK, Goto, Answer, Stands
<1>2. ASSUME NEW r \in Creates, CreateStep(r)
      PROVE  \A s \in Creates : Stands(s)
  <2>1. pc[r] \notin {"idle", "done"} /\ UNCHANGED req
    BY <1>2 DEF CreateStep, InsertKey, FindKey, SerializationFailure, CommitTx, TxFails,
       Replay, SendPayout, NoProviders, RecordSent, RecordFailed, Record, RecordRefused,
       localVars
  <2>2. \/ \E label : Goto(r, label)
        \/ \E c, id, st : Answer(r, c, id, st)
    BY <1>2 DEF CreateStep, InsertKey, FindKey, SerializationFailure, CommitTx, TxFails,
       Replay, SendPayout, NoProviders, RecordSent, RecordFailed, Record, RecordRefused
  <2> QED
    BY <1>1, <2>1, <2>2, CreateIsARequest
<1>3. ASSUME NEW c \in Cancels, (\E id \in PayoutIDs : BeginCancel(c, id)) \/ CancelStep(c)
      PROVE  \A r \in Creates : Stands(r)
  <2>1. pc[c] # "done" /\ UNCHANGED req /\ c \in Requests /\ c \notin Creates
    BY <1>3, KindsDiffer
       DEF BeginCancel, CancelStep, CancelWithProvider, CancelInDB, localVars, Requests
  <2>2. \/ \E label : Goto(c, label)
        \/ \E cd, id, st : Answer(c, cd, id, st)
    BY <1>3 DEF BeginCancel, CancelStep, CancelWithProvider, CancelInDB
  <2> QED
    BY <1>1, <2>1, <2>2
<1>4. ASSUME NEW u \in Updates, (\E e \in Notifications : BeginApply(u, e)) \/ ApplyUpdate(u)
      PROVE  \A r \in Creates : Stands(r)
  <2>1. pc[u] # "done" /\ UNCHANGED req /\ u \in Requests /\ u \notin Creates
    BY <1>4, KindsDiffer DEF BeginApply, ApplyUpdate, localVars, Requests
  <2>2. \/ \E label : Goto(u, label)
        \/ \E cd, id, st : Answer(u, cd, id, st)
    BY <1>4 DEF BeginApply, ApplyUpdate
  <2> QED
    BY <1>1, <2>1, <2>2
<1>5. CASE ProviderSettles
  BY <1>5 DEF ProviderSettles, localVars, Stands
<1> QED
  BY <1>2, <1>3, <1>4, <1>5 DEF Working

\* The answers the API gave are kept as long as requests keep what they said.
LEMMA HttpStands ==
    ASSUME HttpInv,
           \A r \in Creates : Stands(r) /\ http'[r] = http[r] /\ code'[r] = code[r]
    PROVE  HttpInv' /\ UNCHANGED <<Accepted202, Refused409>>
<1>1. HttpInv'
  BY DEF HttpInv, Answered, Stands
<1>2. ASSUME NEW r \in Creates, code[r] \in {202, 409}
      PROVE  req'[r] = req[r] /\ reply'[r] = reply[r]
  BY <1>2 DEF HttpInv, Stands
<1>3. UNCHANGED <<Accepted202, Refused409>>
  BY <1>2 DEF Accepted202, Refused409, key, body
<1> QED
  BY <1>1, <1>3

\* What the handlers do to keys and payouts is allowed, and no promise yet.
LEMMA WorkRefines ==
    ASSUME IndInv, HttpInv, Working,
           \A r \in Creates : http'[r] = http[r] /\ code'[r] = code[r]
    PROVE  HttpInv' /\ (Promise!Next \/ UNCHANGED Promise!vars)
<1>1. HttpInv' /\ UNCHANGED <<Accepted202, Refused409>>
  BY WorkingStands, HttpStands
<1>2. Abstract!Next \/ UNCHANGED Abstract!vars
  <2>1. Next
    BY DEF Working, Next
  <2> QED
    BY <2>1, StepRefines
<1>3. ASSUME NEW k \in Keys, NEW h \in {canonicalHash[b] : b \in Bodies},
             NEW p \in PayoutIDs, Abstract!Decide(k, h, p)
      PROVE  Promise!Decide(k, h, p)
  BY <1>1, <1>3 DEF Abstract!Decide, Promise!Decide
<1>4. ASSUME NEW k \in Keys, Abstract!Send(k)
      PROVE  Promise!Send(k)
  BY <1>1, <1>4 DEF Abstract!Send, Promise!Send
<1>5. ASSUME NEW k \in Keys,
             \/ Abstract!Accept(k)
             \/ \E h \in {canonicalHash[b] : b \in Bodies} : Abstract!Refuse(k, h)
             \/ UNCHANGED Abstract!vars
      PROVE  UNCHANGED Promise!vars
  BY <1>1, <1>5 DEF Abstract!Accept, Abstract!Refuse, Abstract!vars, Promise!vars
<1>6. CASE UNCHANGED Abstract!vars
  BY <1>1, <1>6 DEF Abstract!vars, Promise!vars
<1> QED
  BY <1>1, <1>2, <1>3, <1>4, <1>5, <1>6 DEF Abstract!Next, Promise!Next

\* The call of a create request starts the transaction and promises nothing.
LEMMA PostPromisesNothing ==
    ASSUME IndInv, GateTypeOK, HttpInv,
           NEW r \in Creates, NEW k \in Keys, NEW b \in Bodies, PostPayout(r, k, b)
    PROVE  HttpInv' /\ UNCHANGED Promise!vars
<1>1. BeginCreate(r, k, b) /\ http[r] = "idle"
  BY CalmBegins DEF PostPayout
<1>2. /\ UNCHANGED <<idempotency_keys, PayoutsSent>>
      /\ \A s \in Creates : s # r => /\ req'[s] = req[s] /\ reply'[s] = reply[s]
                                     /\ pc'[s] = pc[s]
  BY <1>1, CreateIsARequest DEF BeginCreate, Goto, Answer, storeVars, providerVars,
     IndInv, TypeOK, PayoutsSent
<1>3. /\ code' = code /\ code[r] \notin {202, 409}
      /\ http'[r] = "await" /\ \A s \in Creates : s # r => http'[s] = http[s]
  BY <1>1 DEF PostPayout, Wait, GateTypeOK, HttpInv, Calls
<1>4. HttpInv'
  BY <1>2, <1>3 DEF HttpInv, Answered
<1>5. UNCHANGED <<Accepted202, Refused409>>
  BY <1>2, <1>3 DEF Accepted202, Refused409, key, body
<1> QED
  BY <1>2, <1>4, <1>5 DEF Promise!vars

\* The status of an answer to create request r is written once, and changes
\* what was promised as the status says.
LEMMA NewStatus ==
    ASSUME GateTypeOK, NEW r \in Creates, NEW status \in Status, Write(r, status),
           code[r] \notin {202, 409}, UNCHANGED vars
    PROVE  /\ code'[r] = status /\ http'[r] = "answered"
           /\ \A s \in Creates : s # r => code'[s] = code[s] /\ http'[s] = http[s]
           /\ Accepted202' = IF status = 202
                             THEN Accepted202 \cup {<<key(r), canonicalHash[body(r)], reply[r].payout>>}
                             ELSE Accepted202
           /\ Refused409' = IF status = 409
                            THEN Refused409 \cup {<<key(r), canonicalHash[body(r)]>>}
                            ELSE Refused409
<1>1. r \in Calls /\ UNCHANGED <<req, reply>>
  BY DEF Calls, vars, localVars
<1>2. code'[r] = status /\ http'[r] = "answered"
  BY <1>1 DEF Write, GateTypeOK
<1>3. \A s \in Creates : s # r => code'[s] = code[s] /\ http'[s] = http[s]
  BY DEF Write, GateTypeOK, Calls
<1>4. Accepted202' = IF status = 202
                     THEN Accepted202 \cup {<<key(r), canonicalHash[body(r)], reply[r].payout>>}
                     ELSE Accepted202
  BY <1>1, <1>2, <1>3 DEF Accepted202, key, body
<1>5. Refused409' = IF status = 409
                    THEN Refused409 \cup {<<key(r), canonicalHash[body(r)]>>}
                    ELSE Refused409
  BY <1>1, <1>2, <1>3 DEF Refused409, key, body
<1> QED
  BY <1>2, <1>3, <1>4, <1>5

\* A request that is answered 502, or not at all, gets no promise.
LEMMA NoPromise ==
    ASSUME GateTypeOK, HttpInv, NEW q \in Calls, UNCHANGED vars,
           http[q] \in {"idle", "await"},
           \E label : http' = [http EXCEPT ![q] = label] /\ label # "idle",
           code' \in {code, [code EXCEPT ![q] = 502]}
    PROVE  HttpInv' /\ UNCHANGED Promise!vars
<1>1. UNCHANGED <<pc, req, reply, idempotency_keys, PayoutsSent>>
  BY DEF vars, localVars, storeVars, providerVars, PayoutsSent
<1>2. /\ http'[q] # "idle"
      /\ \A r \in Creates : r # q => code'[r] = code[r] /\ http'[r] = http[r]
  BY DEF GateTypeOK, Calls
<1>3. q \in Creates => code[q] \notin {202, 409} /\ code'[q] \notin {202, 409}
  BY DEF HttpInv, GateTypeOK
<1>4. HttpInv'
  BY <1>1, <1>2, <1>3 DEF HttpInv, Answered
<1>5. UNCHANGED <<Accepted202, Refused409>>
  BY <1>1, <1>2, <1>3 DEF Accepted202, Refused409, key, body
<1> QED
  BY <1>1, <1>4, <1>5 DEF Promise!vars

\* An answer of the orchestrator to a create request becomes the promise the
\* status makes.
LEMMA AnswerPromises ==
    ASSUME IndInv, GateTypeOK, HttpInv, NEW r \in Creates, UNCHANGED vars,
           http[r] = "await", reply[r] # Null, Write(r, CreateStatus(reply[r].code))
    PROVE  HttpInv' /\ (Promise!Next \/ UNCHANGED Promise!vars)
<1> DEFINE status == CreateStatus(reply[r].code)
<1>1. /\ UNCHANGED <<pc, req, reply, idempotency_keys, PayoutsSent>>
      /\ pc[r] = "done" /\ code[r] \notin {202, 409}
  <2>1. UNCHANGED <<pc, req, reply, idempotency_keys, PayoutsSent>>
    BY DEF vars, localVars, storeVars, providerVars, PayoutsSent
  <2>2. pc[r] = "done"
    BY DEF IndInv, RequestInv
  <2> QED
    BY <2>1, <2>2 DEF HttpInv
<1>2. /\ status \in Status
      /\ status = 202 => Answered(r, "OK")
      /\ status = 409 => Answered(r, "AlreadyExists")
  <2>1. \A c : /\ CreateStatus(c) \in Status
               /\ CreateStatus(c) = 202 => c = "OK"
               /\ CreateStatus(c) = 409 => c = "AlreadyExists"
    BY DEF CreateStatus, Status
  <2> QED
    BY <2>1 DEF Answered
<1> HIDE DEF status
<1>3. /\ code'[r] = status /\ http'[r] = "answered"
      /\ \A s \in Creates : s # r => code'[s] = code[s] /\ http'[s] = http[s]
      /\ Accepted202' = IF status = 202
                        THEN Accepted202 \cup {<<key(r), canonicalHash[body(r)], reply[r].payout>>}
                        ELSE Accepted202
      /\ Refused409' = IF status = 409
                       THEN Refused409 \cup {<<key(r), canonicalHash[body(r)]>>}
                       ELSE Refused409
  BY <1>1, <1>2, NewStatus DEF status
<1>4. HttpInv'
  BY <1>1, <1>2, <1>3 DEF HttpInv, Answered
<1>5. key(r) \in Keys /\ canonicalHash[body(r)] \in {canonicalHash[b] : b \in Bodies}
  BY <1>1, RequestIsKnown
<1>6. CASE status = 202
  <2>1. /\ Bound(key(r)) /\ idempotency_keys[key(r)].payout_id = reply[r].payout
        /\ idempotency_keys[key(r)].request_hash = canonicalHash[body(r)]
    BY <1>2, <1>6 DEF IndInv, AnswersAgreeWithKeys
  <2>2. Promise!Accept(key(r))
    BY <1>1, <1>3, <1>6, <2>1 DEF Promise!Accept, Bound
  <2> QED
    BY <1>4, <1>5, <2>2 DEF Promise!Next
<1>7. CASE status = 409
  <2>1. Bound(key(r)) /\ idempotency_keys[key(r)].request_hash # canonicalHash[body(r)]
    BY <1>2, <1>7 DEF IndInv, AnswersAgreeWithKeys
  <2>2. Promise!Refuse(key(r), canonicalHash[body(r)])
    BY <1>1, <1>3, <1>7, <2>1 DEF Promise!Refuse, Bound
  <2> QED
    BY <1>4, <1>5, <2>2 DEF Promise!Next
<1>8. CASE status \notin {202, 409}
  BY <1>1, <1>3, <1>4, <1>8 DEF Promise!vars
<1> QED
  BY <1>6, <1>7, <1>8

\* Every step keeps what the answers rest on, and is one of the abstract
\* specification or invisible to it.
LEMMA GateStepPromises ==
    IndInv /\ GateTypeOK /\ HttpInv /\ [GateNext]_allVars
        => HttpInv' /\ [Promise!Next]_(Promise!vars)
<1> SUFFICES ASSUME IndInv, GateTypeOK, HttpInv, [GateNext]_allVars
             PROVE  HttpInv' /\ (Promise!Next \/ UNCHANGED Promise!vars)
  OBVIOUS
<1>1. ASSUME NEW r \in Creates, NEW k \in Keys, NEW b \in Bodies, PostPayout(r, k, b)
      PROVE  HttpInv' /\ UNCHANGED Promise!vars
  BY <1>1, PostPromisesNothing
<1>2. ASSUME Working, UNCHANGED <<http, code>>
      PROVE  HttpInv' /\ (Promise!Next \/ UNCHANGED Promise!vars)
  BY <1>2, WorkRefines
<1>3. ASSUME NEW c \in Cancels, NEW id \in Watched, PostCancel(c, id)
      PROVE  HttpInv' /\ (Promise!Next \/ UNCHANGED Promise!vars)
  <2>1. /\ BeginCancel(c, id) /\ id \in PayoutIDs /\ c \notin Creates
        /\ http' = [http EXCEPT ![c] = "await"] /\ code' = code
    BY <1>3, CalmBegins, GateAssumption, KindsDiffer DEF PostCancel, Wait
  <2>2. \A r \in Creates : http'[r] = http[r] /\ code'[r] = code[r]
    BY <2>1 DEF GateTypeOK, Calls
  <2>3. Working
    BY <2>1 DEF Working
  <2> QED
    BY <2>2, <2>3, WorkRefines
<1>4. ASSUME NEW q \in Calls, NotReached(q) \/ HangUp(q)
      PROVE  HttpInv' /\ UNCHANGED Promise!vars
  BY <1>4, NoPromise DEF NotReached, HangUp, Write
<1>5. ASSUME NEW q \in Calls, Respond(q)
      PROVE  HttpInv' /\ (Promise!Next \/ UNCHANGED Promise!vars)
  <2>1. http[q] = "await" /\ UNCHANGED vars
    BY <1>5 DEF Respond
  <2>2. CASE Write(q, 502)
    <3>1. \E label : http' = [http EXCEPT ![q] = label] /\ label # "idle"
      <4>1. http' = [http EXCEPT ![q] = "answered"] /\ "answered" # "idle"
        BY <2>2 DEF Write
      <4> QED
        BY <4>1, Zenon
    <3>2. code' \in {code, [code EXCEPT ![q] = 502]}
      BY <2>2 DEF Write
    <3>3. HttpInv' /\ UNCHANGED Promise!vars
      BY <2>1, <3>1, <3>2, NoPromise
    <3> QED
      BY <3>3
  <2>3. CASE q \in Creates /\ reply[q] # Null /\ Write(q, CreateStatus(reply[q].code))
    BY <2>1, <2>3, AnswerPromises
  <2>4. CASE q \notin Creates /\ \E status : Write(q, status)
    <3>1. \A r \in Creates : code'[r] = code[r] /\ http'[r] = http[r]
      BY <2>4 DEF Write, GateTypeOK, Calls
    <3>2. UNCHANGED <<pc, req, reply, idempotency_keys, PayoutsSent>>
      BY <2>1 DEF vars, localVars, storeVars, providerVars, PayoutsSent
    <3>3. HttpInv' /\ UNCHANGED <<Accepted202, Refused409>>
      BY <3>1, <3>2, HttpStands DEF Stands
    <3> QED
      BY <3>2, <3>3 DEF Promise!vars
  <2> QED
    BY <1>5, <2>2, <2>3, <2>4 DEF Respond
<1>6. ASSUME NEW q \in Calls, Handle(q)
      PROVE  Working /\ UNCHANGED <<http, code>>
  BY <1>6, CalmIsAllowed DEF Handle, Working, gateVars
<1>7. ASSUME NEW u \in Updates, Notify(u) \/ Apply(u)
      PROVE  Working /\ UNCHANGED <<http, code>>
  BY <1>7, CalmBegins, CalmIsAllowed DEF Notify, Apply, Working, gateVars
<1>8. CASE ProviderSettles /\ UNCHANGED gateVars
  BY <1>2, <1>8 DEF Working, gateVars
<1>9. ASSUME \/ \E id \in Watched : ShowPayout(id)
             \/ Terminate \/ GracefulStop \/ Restart \/ UNCHANGED allVars
      PROVE  HttpInv' /\ UNCHANGED Promise!vars
  <2>1. UNCHANGED <<http, code, pc, req, reply, idempotency_keys, attempts>>
    BY <1>9 DEF ShowPayout, GetPayout, Terminate, GracefulStop, Restart, ForgetStats, allVars, gateVars,
       clientVars, vars, localVars, storeVars, providerVars
  <2>2. HttpInv' /\ UNCHANGED <<Accepted202, Refused409>>
    BY <2>1, HttpStands DEF Stands
  <2> QED
    BY <2>1, <2>2 DEF Promise!vars, PayoutsSent
<1> QED
  BY <1>1, <1>2, <1>3, <1>4, <1>5, <1>6, <1>7, <1>8, <1>9 DEF GateNext

\* Nothing is promised before anybody has called.
LEMMA GateInitPromises == GateInit => Promise!Init
<1> SUFFICES ASSUME GateInit PROVE Promise!Init
  OBVIOUS
<1>1. Abstract!Init
  BY InitRefines DEF GateInit
<1>2. Accepted202 = {} /\ Refused409 = {}
  BY GateAssumption DEF GateInit, Accepted202, Refused409, Status, Calls
<1> QED
  BY <1>1, <1>2 DEF Abstract!Init, Promise!Init

\* What holds of the orchestrator by itself holds behind the API service too,
\* over clients that go away, lost calls, stops and restarts: keys, rows,
\* transactions and the fallback loop stay in step.
THEOREM GateInvariance == GateSpec => []IndInv
BY GateInitIndInv, GateIndInv, PTL DEF GateSpec

\* Every HTTP status the handlers answer is one they know, and what a GET
\* tells is a row.
THEOREM GateTypeCorrectness == GateSpec => []GateTypeOK
BY GateInvariance, GateInitTypes, GateTypes, PTL DEF GateSpec

\* A client that retries with one key until it gets 202 or 409 deals with one
\* payout, paid for at most one request, whatever was lost, cut off or stopped
\* on the way.
THEOREM HttpKeyPromise == GateSpec => HttpKeepsTheKeyPromise
<1>1. GateSpec => []HttpInv
  BY GateInvariance, GateTypeCorrectness, GateInitTypes, GateStepPromises, PTL DEF GateSpec
<1> QED
  BY <1>1, GateInvariance, GateTypeCorrectness, GateInitPromises, GateStepPromises, PTL
     DEF GateSpec, HttpKeepsTheKeyPromise, Promise!Spec

-----------------------------------------------------------------------------
(***************************************************************************)
(* Reads: what clients were shown of a payout is a bound on what its row   *)
(* can still become.  As for the rows themselves, no update names a payout *)
(* by its UUID.                                                            *)
(***************************************************************************)
KeptSince(old, new) ==
    /\ old.external_id # Null =>
          new.external_id = old.external_id /\ new.provider = old.provider
    /\ old.state = "completed" => new.state = "completed"
    /\ new.state = "created" => old.state = "created"

ToldInv ==
    \A id \in PayoutIDs :
        /\ told[id] # Null => Exists(id)
        /\ told[id] # NoRow
        /\ told[id] \in Row => KeptSince(told[id], payouts[id])

\* Nobody has been told anything.
LEMMA NothingTold == GateInit => ToldInv
<1> SUFFICES ASSUME GateInit PROVE ToldInv
  OBVIOUS
<1>1. NoRow \in Row
  BY DEF NoRow, Row
<1>2. \A id \in PayoutIDs : told[id] = Null
  BY DEF GateInit
<1> QED
  BY <1>1, <1>2, GateAssumption DEF ToldInv

\* What cannot be taken back from a row stays through every step.
LEMMA RowsKept ==
    ASSUME IndInv, RowIndInv, [Next]_vars, NEW id \in PayoutIDs, Exists(id)
    PROVE  Exists(id)' /\ KeptSince(payouts[id], payouts'[id])
<1>1. RowOK(id)
  BY DEF RowIndInv, RowInv
<1>2. CASE UNCHANGED payouts
  BY <1>2 DEF Exists, KeptSince
<1>3. ASSUME NEW moved \in PayoutIDs, Moves(moved)
      PROVE  Exists(id)' /\ KeptSince(payouts[id], payouts'[id])
  <2>1. CASE moved # id
    BY <1>3, <2>1 DEF Moves, Exists, KeptSince
  <2>2. CASE moved = id
    BY <1>1, <1>3, <2>2 DEF Moves, MoveCreate, MoveSent, MoveFailed, MoveCancel, MoveLearn,
       Unsent, Reported, KeepsReference, Closed, Exists, KeptSince, RowOK
  <2> QED
    BY <2>1, <2>2
<1> QED
  BY <1>2, <1>3, StepMoves DEF ChargeMoves

\* A payout named in a 202 has a row.
LEMMA AcceptedExists ==
    ASSUME IndInv, NEW r \in Creates, reply[r] # Null, CreateStatus(reply[r].code) = 202
    PROVE  Exists(reply[r].payout)
<1>1. Answered(r, "OK")
  BY DEF CreateStatus, Answered
<1>2. pc[r] # "idle"
  BY DEF IndInv, RequestInv
<1>3. key(r) \in Keys /\ Bound(key(r)) /\ idempotency_keys[key(r)].payout_id = reply[r].payout
  BY <1>1, <1>2, RequestIsKnown DEF IndInv, AnswersAgreeWithKeys
<1> QED
  BY <1>3 DEF IndInv, KeyInv

\* Clients learn of a payout from the 202 that names it and from GETs.
LEMMA Learning ==
    ASSUME IndInv, GateTypeOK, [GateNext]_allVars, NEW id \in PayoutIDs
    PROVE  \/ UNCHANGED told[id]
           \/ UNCHANGED payouts /\ told[id] = Null /\ told'[id] = Named /\ Exists(id)
           \/ UNCHANGED payouts /\ told[id] # Null /\ told'[id] = payouts[id]
<1>1. ASSUME NEW q \in Calls, Respond(q)
      PROVE  \/ UNCHANGED told[id]
             \/ UNCHANGED payouts /\ told[id] = Null /\ told'[id] = Named /\ Exists(id)
  <2>1. UNCHANGED payouts
    BY <1>1 DEF Respond, vars, storeVars
  <2>2. CASE UNCHANGED told
    BY <2>2
  <2>3. CASE /\ reply[q] # Null
             /\ Write(q, IF q \in Creates THEN CreateStatus(reply[q].code)
                                          ELSE CancelStatus(reply[q].code))
             /\ told' = [i \in PayoutIDs |->
                   IF code'[q] = 202 /\ reply[q].payout = i /\ told[i] = Null
                   THEN Named ELSE told[i]]
    <3>1. code'[q] = IF q \in Creates THEN CreateStatus(reply[q].code)
                                      ELSE CancelStatus(reply[q].code)
      BY <2>3 DEF Write, GateTypeOK
    <3>2. CancelStatus(reply[q].code) # 202
      BY DEF CancelStatus
    <3>3. code'[q] = 202 => q \in Creates /\ Exists(reply[q].payout)
      BY <2>3, <3>1, <3>2, AcceptedExists
    <3> QED
      BY <2>1, <2>3, <3>3
  <2> QED
    BY <1>1, <2>2, <2>3 DEF Respond
<1>2. ASSUME NEW watched \in Watched, ShowPayout(watched)
      PROVE  \/ UNCHANGED told[id]
             \/ UNCHANGED payouts /\ told[id] # Null /\ told'[id] = payouts[id]
  <2>1. UNCHANGED payouts /\ told[watched] # Null /\ told' = [told EXCEPT ![watched] = payouts[watched]]
    BY <1>2 DEF ShowPayout, GetPayout, vars, storeVars
  <2> QED
    BY <2>1 DEF GateTypeOK
<1>3. ASSUME NEW q \in Calls, NotReached(q) \/ HangUp(q) \/ Handle(q)
      PROVE  UNCHANGED told
  BY <1>3 DEF NotReached, HangUp, Handle, gateVars
<1>4. ASSUME NEW r \in Creates, NEW k \in Keys, NEW b \in Bodies, PostPayout(r, k, b)
      PROVE  UNCHANGED told
  BY <1>4 DEF PostPayout
<1>5. ASSUME NEW c \in Cancels, NEW watched \in Watched, PostCancel(c, watched)
      PROVE  UNCHANGED told
  BY <1>5 DEF PostCancel
<1>6. ASSUME NEW u \in Updates, Notify(u) \/ Apply(u)
      PROVE  UNCHANGED told
  BY <1>6 DEF Notify, Apply, gateVars
<1>7. CASE (ProviderSettles /\ UNCHANGED gateVars) \/ Terminate \/ GracefulStop \/ Restart
  BY <1>7 DEF gateVars, Terminate, GracefulStop, Restart, clientVars
<1>8. CASE UNCHANGED allVars
  BY <1>8 DEF allVars, gateVars
<1> QED
  BY <1>1, <1>2, <1>3, <1>4, <1>5, <1>6, <1>7, <1>8 DEF GateNext

\* A restart touches no row and no charge.
LEMMA GateRows ==
    ASSUME IndInv, RowIndInv, ~DirectUpdates, [GateNext]_allVars
    PROVE  RowIndInv'
<1>1. CASE [Next]_vars
  BY <1>1, NextRowIndInv
<1>2. CASE Restart
  <2>1. UNCHANGED <<payouts, idempotency_keys, pc, seen, attempts, charges, events>>
    BY <1>2 DEF Restart, ForgetStats, storeVars, localVars
  <2> QED
    BY <2>1 DEF RowIndInv, ChargeInv, Charged, EventInv, RowInv, RowOK, Last, Sending,
       ApplyInv, Reported
<1> QED
  BY <1>1, <1>2, GateStepIsAllowed

\* What clients were told stays a bound on the row.
LEMMA ToldKept ==
    ASSUME IndInv, RowIndInv, GateTypeOK, ToldInv, [GateNext]_allVars
    PROVE  ToldInv'
<1> SUFFICES ASSUME NEW id \in PayoutIDs
             PROVE  /\ told'[id] # Null => Exists(id)'
                    /\ told'[id] # NoRow
                    /\ told'[id] \in Row => KeptSince(told'[id], payouts'[id])
  BY DEF ToldInv
<1>1. Exists(id) => Exists(id)' /\ KeptSince(payouts[id], payouts'[id])
  <2>1. CASE [Next]_vars
    BY <2>1, RowsKept
  <2>2. CASE Restart
    BY <2>2 DEF Restart, storeVars, Exists, KeptSince
  <2> QED
    BY <2>1, <2>2, GateStepIsAllowed
<1>2. CASE UNCHANGED told[id]
  BY <1>1, <1>2, GateAssumption DEF ToldInv, KeptSince
<1>3. CASE UNCHANGED payouts /\ told'[id] = Named /\ Exists(id)
  BY <1>3 DEF Exists, Named, NoRow, Row, PayoutState
<1>4. CASE UNCHANGED payouts /\ told[id] # Null /\ told'[id] = payouts[id]
  BY <1>4 DEF ToldInv, Exists, NoRow, KeptSince
<1> QED
  BY <1>2, <1>3, <1>4, Learning

\* The row a client is shown, and the 202 that names it, come after what it
\* was told before: a step from one to the other never goes back.
LEMMA ShownInOrder ==
    ASSUME IndInv, GateTypeOK, ToldInv, [GateNext]_allVars, NEW id \in PayoutIDs
    PROVE  /\ told[id] # Null => told'[id] # NoRow
           /\ told[id] \in Row /\ told'[id] \in Row => KeptSince(told[id], told'[id])
<1>1. CASE UNCHANGED told[id]
  BY <1>1 DEF ToldInv, KeptSince
<1>2. CASE told[id] = Null
  BY <1>2, GateAssumption
<1>3. CASE told[id] # Null /\ told'[id] = payouts[id]
  BY <1>3 DEF ToldInv, Exists, NoRow
<1> QED
  BY <1>1, <1>2, <1>3, Learning

\* A payout named in a 202 or shown by a GET never disappears, keeps its
\* provider's reference and stays completed, over stops and restarts.
THEOREM ReadsGoForward ==
    ASSUME ~DirectUpdates
    PROVE  GateSpec => ReadsDoNotGoBack
<1>1. GateInit => RowIndInv /\ ToldInv
  BY InitRowIndInv, NothingTold DEF GateInit
<1>2. IndInv /\ RowIndInv /\ GateTypeOK /\ ToldInv /\ [GateNext]_allVars => RowIndInv' /\ ToldInv'
  BY GateRows, ToldKept
<1>3. IndInv /\ GateTypeOK /\ ToldInv /\ [GateNext]_allVars =>
         [\A id \in PayoutIDs :
             LET old == told[id]
                 new == told'[id]
             IN /\ old # Null => new # NoRow
                /\ old \in Row /\ new \in Row =>
                      /\ old.external_id # Null =>
                            new.external_id = old.external_id /\ new.provider = old.provider
                      /\ old.state = "completed" => new.state = "completed"
                      /\ new.state = "created" => old.state = "created"]_allVars
  BY ShownInOrder DEF KeptSince
<1>4. GateSpec => [](RowIndInv /\ ToldInv)
  BY <1>1, <1>2, GateInvariance, GateTypeCorrectness, PTL DEF GateSpec
<1> QED
  BY <1>3, <1>4, GateInvariance, GateTypeCorrectness, PTL DEF GateSpec, ReadsDoNotGoBack

-----------------------------------------------------------------------------
(***************************************************************************)
(* One step of a call: it goes on, or it is answered and done.             *)
(***************************************************************************)
Takes(q) ==
    \/ /\ UNCHANGED reply
       /\ \E label \in Label \ {"idle", "done", "lost"} : pc' = [pc EXCEPT ![q] = label]
    \/ /\ pc' = [pc EXCEPT ![q] = "done"]
       /\ \E answer \in Reply : reply' = [reply EXCEPT ![q] = answer]

LEMMA InternalIsAnAnswer ==
    \A c \in Code : [code |-> c, payout |-> Null, status |-> Null] \in Reply
BY DEF Reply

\* A create request in progress takes such steps, and starts over in none.
LEMMA CreateTakes ==
    ASSUME IndInv, NEW r \in Creates, CreateStep(r)
    PROVE  /\ Takes(r) /\ InProgress(r)
           /\ UNCHANGED <<req, visible, seen>>
           /\ pc'[r] # "insert_key"
<1> USE DEF Goto, localVars, InProgress
<1>1. r \in Requests /\ r \in PayoutIDs /\ pc \in [Requests -> Label]
  BY CreateIsARequest DEF IndInv, TypeOK
<1>2. ASSUME InsertKey(r) \/ FindKey(r) \/ NoProviders(r)
      PROVE  /\ Takes(r) /\ InProgress(r) /\ UNCHANGED <<req, visible, seen>>
             /\ pc'[r] # "insert_key"
  BY <1>1, <1>2 DEF InsertKey, FindKey, NoProviders, Takes, Label
<1>3. ASSUME SendPayout(r)
      PROVE  /\ Takes(r) /\ InProgress(r) /\ UNCHANGED <<req, visible, seen>>
             /\ pc'[r] # "insert_key"
  BY <1>1, <1>3 DEF SendPayout, Takes, Label
<1>4. ASSUME SerializationFailure(r) \/ TxFails(r)
      PROVE  /\ Takes(r) /\ InProgress(r) /\ UNCHANGED <<req, visible, seen>>
             /\ pc'[r] # "insert_key"
  <2>1. Answer(r, "Internal", Null, Null) => Takes(r) /\ pc'[r] = "done"
    BY <1>1, InternalIsAnAnswer DEF Answer, Takes, Code
  <2> QED
    BY <1>4, <2>1 DEF SerializationFailure, TxFails
<1>5. ASSUME CommitTx(r)
      PROVE  /\ Takes(r) /\ InProgress(r) /\ UNCHANGED <<req, visible, seen>>
             /\ pc'[r] # "insert_key"
  <2>1. Answer(r, "Internal", Null, Null) => Takes(r) /\ pc'[r] = "done"
    BY <1>1, InternalIsAnAnswer DEF Answer, Takes, Code
  <2>2. Goto(r, "send") => Takes(r) /\ pc'[r] = "send"
    BY <1>1 DEF Takes, Label
  <2> QED
    BY <1>5, <2>1, <2>2 DEF CommitTx
<1>6. ASSUME Replay(r)
      PROVE  /\ Takes(r) /\ InProgress(r) /\ UNCHANGED <<req, visible, seen>>
             /\ pc'[r] # "insert_key"
  <2>1. \A c \in Code : Answer(r, c, Null, Null) => Takes(r) /\ pc'[r] = "done"
    BY <1>1, InternalIsAnAnswer DEF Answer, Takes
  <2>2. existing[r].payout_id \in PayoutIDs
    <3>1. Bound(key(r)) /\ existing[r] = idempotency_keys[key(r)] /\ pc[r] # "idle"
      BY <1>6 DEF Replay, IndInv, ReplayInv
    <3>2. idempotency_keys[key(r)] \in Binding
      BY <3>1, RequestIsKnown DEF IndInv, TypeOK, StoreTypeOK, Bound
    <3> QED
      BY <3>1, <3>2 DEF Binding
  <2>3. Exists(existing[r].payout_id) => payouts[existing[r].payout_id].state \in PayoutState
    BY <2>2 DEF IndInv, TypeOK, StoreTypeOK, Row, Exists
  <2>4. Exists(existing[r].payout_id)
          /\ Answer(r, "OK", existing[r].payout_id, payouts[existing[r].payout_id].state)
             => Takes(r) /\ pc'[r] = "done"
    BY <1>1, <2>2, <2>3, AnswerIsReply DEF Answer, Takes, Code
  <2> QED
    BY <1>6, <2>1, <2>4 DEF Replay, Code
<1>7. ASSUME RecordSent(r) \/ RecordFailed(r) \/ RecordRefused(r)
      PROVE  /\ Takes(r) /\ InProgress(r) /\ UNCHANGED <<req, visible, seen>>
             /\ pc'[r] # "insert_key"
  <2>1. \A state \in {"sent", "failed", "created"} :
           Answer(r, "OK", r, state) => Takes(r) /\ pc'[r] = "done"
    BY <1>1, AnswerIsReply DEF Answer, Takes, Code, PayoutState
  <2> QED
    BY <1>7, <2>1 DEF RecordSent, RecordFailed, Record, RecordRefused
<1> QED
  BY <1>2, <1>3, <1>4, <1>5, <1>6, <1>7 DEF CreateStep

\* So do a cancel and an update, from their first step on.
LEMMA CancelOrApplyTakes ==
    ASSUME IndInv, NEW c \in Cancels \cup Updates,
           \/ c \in Cancels /\ ((\E id \in PayoutIDs : BeginCancel(c, id)) \/ CancelStep(c))
           \/ c \in Updates /\ ((\E e \in Notifications : BeginApply(c, e)) \/ ApplyUpdate(c))
    PROVE  /\ Takes(c)
           /\ UNCHANGED <<req, visible, idempotency_keys>>
<1> USE DEF Goto, localVars, storeVars
<1>1. \A ans \in Code, id \in PayoutIDs \cup {Null} : Answer(c, ans, id, Null) => Takes(c)
  BY AnswerIsReply DEF Answer, Takes
<1>2. \A label \in Label \ {"idle", "done", "lost"} : Goto(c, label) => Takes(c)
  BY DEF Takes
<1>3. {"OK", "NotFound", "FailedPrecondition", "InvalidArgument", "Internal"} \subseteq Code
  BY DEF Code
<1>4. {"cancel_provider", "cancel_db", "apply"} \subseteq Label \ {"idle", "done", "lost"}
  BY DEF Label
<1>5. ASSUME NEW id \in PayoutIDs, BeginCancel(c, id)
      PROVE  Takes(c) /\ UNCHANGED <<req, visible, idempotency_keys>>
  BY <1>1, <1>2, <1>3, <1>4, <1>5 DEF BeginCancel
<1>6. ASSUME CancelWithProvider(c)
      PROVE  Takes(c) /\ UNCHANGED <<req, visible, idempotency_keys>>
  BY <1>2, <1>4, <1>6 DEF CancelWithProvider
<1>7. ASSUME NEW e \in Notifications, BeginApply(c, e)
      PROVE  Takes(c) /\ UNCHANGED <<req, visible, idempotency_keys>>
  BY <1>1, <1>2, <1>3, <1>4, <1>7 DEF BeginApply
<1>8. pc[c] \in {"cancel_db", "apply"} => seen[c].id \in PayoutIDs
  BY DEF IndInv, TypeOK, SeenInv, Observation
<1>9. ASSUME CancelInDB(c)
      PROVE  Takes(c) /\ UNCHANGED <<req, visible, idempotency_keys>>
  BY <1>1, <1>3, <1>8, <1>9 DEF CancelInDB, CancelPayoutIfCancelable
<1>10. ASSUME ApplyUpdate(c)
       PROVE  Takes(c) /\ UNCHANGED <<req, visible, idempotency_keys>>
  BY <1>1, <1>3, <1>8, <1>10 DEF ApplyUpdate, UpdatePayoutState
<1> QED
  BY <1>5, <1>6, <1>7, <1>9, <1>10 DEF CancelStep

-----------------------------------------------------------------------------
(***************************************************************************)
(* The causes of a 502, when no statement fails of its own accord while a  *)
(* caller waits.  A request that finds its key bound after its snapshot    *)
(* was in progress together with the one that bound it.                    *)
(***************************************************************************)
Excused(r) == r \in disturbed \/ rail(r) \notin SchemaRails

CauseInv ==
    /\ gone \cap Creates \subseteq disturbed
    /\ \A r, s \in Creates :
          r # s /\ InProgress(r) /\ InProgress(s) /\ key(r) = key(s) => r \in disturbed
    /\ \A r \in Creates :
          /\ pc[r] = "insert_key" /\ Bound(key(r)) /\ ~visible[r] => r \in disturbed
          /\ reply[r] # Null /\ reply[r].code \notin {"OK", "AlreadyExists"} => Excused(r)
          /\ code[r] = 502 => http[r] # "idle" /\ Excused(r)

\* While its caller waits a create request fails only against a rival.
LEMMA CalmFailsForRivals ==
    ASSUME IndInv, "db" \notin CalmFaults, NEW r \in Creates, Calm!CreateStep(r)
    PROVE  \/ UNCHANGED reply
           \/ reply'[r].code \in {"OK", "AlreadyExists"}
           \/ pc[r] = "insert_key" /\ Bound(key(r)) /\ ~visible[r]
<1> USE DEF Calm!Goto, Calm!Answer, Calm!DbMayFail
<1>1. r \in Requests /\ reply \in [Requests -> Reply \cup {Null}]
  BY CreateIsARequest DEF IndInv, TypeOK
<1>2. Calm!InsertKey(r) \/ Calm!FindKey(r) \/ Calm!SendPayout(r) \/ Calm!NoProviders(r)
        => UNCHANGED reply
  BY DEF Calm!InsertKey, Calm!FindKey, Calm!SendPayout, Calm!NoProviders
<1>3. Calm!SerializationFailure(r) => pc[r] = "insert_key" /\ Bound(key(r)) /\ ~visible[r]
  BY CalmTransaction DEF SerializationFailure
<1>4. Calm!CommitTx(r) => UNCHANGED reply
  BY DEF Calm!CommitTx
<1>5. ~Calm!TxFails(r)
  BY DEF Calm!TxFails
<1>6. ASSUME Calm!Replay(r) PROVE reply'[r].code \in {"OK", "AlreadyExists"}
  <2>1. pc[r] = "replay"
    BY <1>6 DEF Calm!Replay
  <2>2. Bound(key(r)) /\ existing[r] = idempotency_keys[key(r)]
    BY <2>1 DEF IndInv, ReplayInv
  <2>3. key(r) \in Keys
    BY <2>1, RequestIsKnown
  <2>4. Exists(existing[r].payout_id)
    BY <2>2, <2>3 DEF IndInv, KeyInv
  <2> QED
    BY <1>1, <1>6, <2>4 DEF Calm!Replay, Calm!Exists, Exists
<1>7. ASSUME Calm!RecordSent(r) \/ Calm!RecordFailed(r) \/ Calm!RecordRefused(r)
      PROVE  reply'[r].code = "OK"
  BY <1>1, <1>7 DEF Calm!RecordSent, Calm!RecordFailed, Calm!Record, Calm!RecordRefused
<1> QED
  BY <1>2, <1>3, <1>4, <1>5, <1>6, <1>7 DEF Calm!CreateStep

\* Where nothing happens to create requests, causes stay.
LEMMA CauseUntouched ==
    ASSUME CauseInv, UNCHANGED <<req, visible, idempotency_keys, disturbed>>,
           gone' \cap Creates = gone \cap Creates,
           \A r \in Creates : /\ pc'[r] = pc[r] /\ reply'[r] = reply[r]
                              /\ http'[r] = http[r] /\ code'[r] = code[r]
    PROVE  CauseInv'
BY DEF CauseInv, Excused, InProgress, Bound, key, rail, body

\* A create request goes on.
LEMMA CauseOfHandle ==
    ASSUME IndInv, CauseInv, "db" \notin CalmFaults, NEW r \in Creates, Handle(r)
    PROVE  CauseInv'
<1>1. /\ CreateStep(r) /\ UNCHANGED gateVars
      /\ r \notin gone => Calm!CreateStep(r)
  BY CalmIsAllowed, CreateIsARequest DEF Handle
<1>2. /\ Takes(r) /\ InProgress(r) /\ UNCHANGED <<req, visible>> /\ pc'[r] # "insert_key"
  BY <1>1, CreateTakes
<1>3. /\ r \in Requests /\ pc \in [Requests -> Label] /\ reply \in [Requests -> Reply \cup {Null}]
      /\ \A s \in Creates : s \in Requests
  BY CreateIsARequest DEF IndInv, TypeOK
<1>4. \A s \in Creates : s # r => pc'[s] = pc[s] /\ reply'[s] = reply[s]
  BY <1>2, <1>3 DEF Takes
<1>5. \A s \in Creates : /\ key(s)' = key(s) /\ (Excused(s)' <=> Excused(s))
                         /\ InProgress(s)' => InProgress(s)
  BY <1>1, <1>2, <1>4 DEF key, Excused, rail, body, gateVars, InProgress
<1>6. /\ (gone \cap Creates \subseteq disturbed)'
      /\ \A s, t \in Creates :
            s # t /\ InProgress(s)' /\ InProgress(t)' /\ key(s)' = key(t)' => s \in disturbed'
      /\ \A s \in Creates : code'[s] = 502 => http'[s] # "idle" /\ Excused(s)'
  BY <1>1, <1>5 DEF CauseInv, gateVars
<1>7. ASSUME NEW s \in Creates, pc'[s] = "insert_key", Bound(key(s))', ~visible'[s]
      PROVE  s \in disturbed
  <2>1. s # r /\ pc[s] = "insert_key" /\ ~visible[s] /\ InProgress(s)
    BY <1>2, <1>4, <1>7 DEF InProgress
  <2>2. CASE UNCHANGED idempotency_keys
    BY <1>5, <1>7, <2>1, <2>2 DEF CauseInv, Bound
  <2>3. CASE CommitTx(r)
    <3>1. CASE key(s) = key(r)
      BY <1>2, <2>1, <3>1 DEF CauseInv
    <3>2. CASE key(s) # key(r)
      <4>1. idempotency_keys'[key(s)] = idempotency_keys[key(s)]
        <5>1. key(s) \in Keys
          BY <2>1, RequestIsKnown
        <5> QED
          BY <2>3, <3>2, <5>1 DEF CommitTx, CommitPayoutAndKey, IndInv, TypeOK, StoreTypeOK
      <4> QED
        BY <1>5, <1>7, <2>1, <4>1 DEF CauseInv, Bound
    <3> QED
      BY <3>1, <3>2
  <2>4. CommitTx(r) \/ UNCHANGED idempotency_keys
    BY <1>1 DEF CreateStep, InsertKey, FindKey, SerializationFailure, TxFails, Replay,
       SendPayout, NoProviders, RecordSent, RecordFailed, Record, UpdatePayoutState,
       RecordRefused, storeVars
  <2> QED
    BY <2>2, <2>3, <2>4
<1>8. ASSUME NEW s \in Creates, reply'[s] # Null, reply'[s].code \notin {"OK", "AlreadyExists"}
      PROVE  Excused(s)
  <2>1. CASE s # r
    BY <1>4, <1>8, <2>1 DEF CauseInv
  <2>2. CASE s = r /\ r \in gone
    BY <2>2 DEF CauseInv, Excused
  <2>3. CASE s = r /\ r \notin gone
    <3>1. UNCHANGED reply \/ (pc[r] = "insert_key" /\ Bound(key(r)) /\ ~visible[r])
      BY <1>1, <1>8, <2>3, CalmFailsForRivals
    <3> QED
      BY <1>8, <2>3, <3>1 DEF CauseInv, Excused
  <2> QED
    BY <2>1, <2>2, <2>3
<1> QED
  BY <1>1, <1>5, <1>6, <1>7, <1>8 DEF CauseInv, gateVars

\* A request arrives: from now on it and its rivals are disturbed.
LEMMA CauseOfPost ==
    ASSUME IndInv, CauseInv, "db" \notin CalmFaults,
           NEW r \in Creates, NEW k \in Keys, NEW b \in Bodies, PostPayout(r, k, b)
    PROVE  CauseInv'
<1>1. /\ http[r] = "idle" /\ pc[r] = "idle" /\ reply[r] = Null
      /\ UNCHANGED <<code, gone, idempotency_keys>>
      /\ http' = [http EXCEPT ![r] = "await"]
  BY CalmBegins DEF PostPayout, Wait, BeginCreate, storeVars, IndInv, RequestInv
<1>2. /\ disturbed \subseteq disturbed'
      /\ Rivals(k) # {} => disturbed' = disturbed \cup Rivals(k) \cup {r}
  BY DEF PostPayout
<1>3. /\ req' = [req EXCEPT ![r] = [key |-> k, body |-> b]]
      /\ visible' = [visible EXCEPT ![r] = Bound(k)]
      /\ \/ pc' = [pc EXCEPT ![r] = "insert_key"] /\ UNCHANGED reply
         \/ /\ RailOf[b] \notin SchemaRails
            /\ pc' = [pc EXCEPT ![r] = "done"]
            /\ reply' = [reply EXCEPT ![r] = [code |-> "Internal", payout |-> Null, status |-> Null]]
  BY DEF PostPayout, Calm!BeginCreate, Calm!Goto, Calm!Answer, Calm!DbMayFail, Calm!Bound,
     Bound, Calm!SchemaRails, SchemaRails
<1>4. /\ r \in Requests /\ \A s \in Creates : s \in Requests
      /\ pc \in [Requests -> Label] /\ reply \in [Requests -> Reply \cup {Null}]
      /\ req \in [Creates -> CreateRequest \cup {Null}] /\ visible \in [Creates -> BOOLEAN]
  BY CreateIsARequest DEF IndInv, TypeOK
<1>5. /\ key(r)' = k /\ rail(r)' = RailOf[b] /\ visible'[r] = Bound(k)
      /\ \A s \in Creates : s # r => /\ key(s)' = key(s) /\ rail(s)' = rail(s)
                                     /\ pc'[s] = pc[s] /\ reply'[s] = reply[s]
                                     /\ visible'[s] = visible[s]
  BY <1>3, <1>4 DEF key, rail, body
<1>6. ASSUME NEW s \in Creates, NEW t \in Creates, s # t,
             InProgress(s)', InProgress(t)', key(s)' = key(t)'
      PROVE  s \in disturbed'
  <2>1. CASE s # r /\ t # r
    BY <1>2, <1>5, <1>6, <2>1 DEF CauseInv, InProgress
  <2>2. CASE s = r
    <3>1. t \in Rivals(k)
      BY <1>5, <1>6, <2>2 DEF Rivals, InProgress
    <3> QED
      BY <1>2, <2>2, <3>1
  <2>3. CASE t = r
    <3>1. s \in Rivals(k)
      BY <1>5, <1>6, <2>3 DEF Rivals, InProgress
    <3> QED
      BY <1>2, <3>1
  <2> QED
    BY <2>1, <2>2, <2>3
<1>7. ASSUME NEW s \in Creates
      PROVE  /\ pc'[s] = "insert_key" /\ Bound(key(s))' /\ ~visible'[s] => s \in disturbed'
             /\ reply'[s] # Null /\ reply'[s].code \notin {"OK", "AlreadyExists"} => Excused(s)'
             /\ code'[s] = 502 => http'[s] # "idle" /\ Excused(s)'
  <2>1. CASE s # r
    <3>1. (Bound(key(s))' <=> Bound(key(s))) /\ (Excused(s) => Excused(s)')
      BY <1>1, <1>2, <1>5, <2>1 DEF Bound, Excused
    <3>2. code'[s] = code[s] /\ (http'[s] = "idle" => http[s] = "idle")
      BY <1>1, <2>1
    <3> QED
      BY <1>2, <1>5, <2>1, <3>1, <3>2 DEF CauseInv
  <2>2. CASE s = r
    <3>1. Bound(key(r))' <=> visible'[r]
      BY <1>1, <1>5 DEF Bound
    <3>2. reply'[r] # Null => Excused(r)'
      BY <1>1, <1>3, <1>4, <1>5 DEF Excused
    <3>3. code'[r] # 502
      BY <1>1 DEF CauseInv
    <3> QED
      BY <2>2, <3>1, <3>2, <3>3
  <2> QED
    BY <2>1, <2>2
<1> QED
  BY <1>1, <1>2, <1>6, <1>7 DEF CauseInv

\* An answer is passed on, lost, or waited for no longer.
LEMMA CauseOfAnswer ==
    ASSUME IndInv, GateTypeOK, CauseInv, NEW q \in Calls,
           NotReached(q) \/ Respond(q) \/ HangUp(q)
    PROVE  CauseInv'
<1>1. UNCHANGED <<pc, req, visible, reply, idempotency_keys>> /\ disturbed \subseteq disturbed'
  BY DEF NotReached, Respond, HangUp, vars, localVars, storeVars
<1>2. \A s \in Creates : /\ key(s)' = key(s) /\ (InProgress(s)' <=> InProgress(s))
                         /\ (Bound(key(s))' <=> Bound(key(s)))
                         /\ (Excused(s) => Excused(s)')
  BY <1>1 DEF key, InProgress, Bound, Excused, rail, body
<1>3. (gone \cap Creates \subseteq disturbed)'
  BY DEF NotReached, Respond, HangUp, CauseInv
<1>4. ASSUME NEW s \in Creates, code'[s] = 502
      PROVE  http'[s] # "idle" /\ Excused(s)'
  <2>1. http'[q] # "idle" /\ \A c \in Calls : c # q => http'[c] = http[c] /\ code'[c] = code[c]
    BY DEF NotReached, Respond, HangUp, Write, GateTypeOK
  <2>2. CASE s # q
    BY <1>2, <1>4, <2>1, <2>2 DEF CauseInv, Calls
  <2>3. CASE s = q /\ q \in disturbed'
    BY <2>1, <2>3 DEF Excused
  <2>4. CASE /\ s = q /\ reply[q] # Null
             /\ code'[q] = CreateStatus(reply[q].code)
    <3>1. reply[q].code \notin {"OK", "AlreadyExists"}
      BY <1>4, <2>4 DEF CreateStatus
    <3> QED
      BY <1>2, <2>1, <2>4, <3>1 DEF CauseInv
  <2>5. s = q => \/ q \in disturbed'
                 \/ reply[q] # Null /\ code'[q] = CreateStatus(reply[q].code)
    <3>1. s = q /\ (NotReached(q) \/ HangUp(q)) => q \in disturbed'
      BY DEF NotReached, HangUp
    <3>2. s = q /\ Respond(q) => \/ q \in disturbed'
                                 \/ reply[q] # Null /\ code'[q] = CreateStatus(reply[q].code)
      BY DEF Respond, Write, GateTypeOK
    <3> QED
      BY <3>1, <3>2
  <2> QED
    BY <2>2, <2>3, <2>4, <2>5
<1>5. \A s, t \in Creates :
         s # t /\ InProgress(s)' /\ InProgress(t)' /\ key(s)' = key(t)' => s \in disturbed'
  BY <1>1, <1>2 DEF CauseInv
<1>6. \A s \in Creates :
         /\ pc'[s] = "insert_key" /\ Bound(key(s))' /\ ~visible'[s] => s \in disturbed'
         /\ reply'[s] # Null /\ reply'[s].code \notin {"OK", "AlreadyExists"} => Excused(s)'
  BY <1>1, <1>2 DEF CauseInv
<1> QED
  BY <1>3, <1>4, <1>5, <1>6 DEF CauseInv

\* The steps of anybody else leave create requests alone.
LEMMA CauseOfOthers ==
    ASSUME IndInv, GateTypeOK, CauseInv,
           \/ \E c \in Cancels : (\E id \in Watched : PostCancel(c, id)) \/ Handle(c)
           \/ \E u \in Updates : Notify(u) \/ Apply(u)
           \/ \E id \in Watched : ShowPayout(id)
           \/ ProviderSettles /\ UNCHANGED gateVars
           \/ Terminate \/ GracefulStop \/ Restart
           \/ UNCHANGED allVars
    PROVE  CauseInv'
<1>1. ASSUME NEW c \in Cancels \cup Updates, Takes(c),
             UNCHANGED <<req, visible, idempotency_keys, disturbed, gone, code>>,
             \A r \in Creates : http'[r] = http[r]
      PROVE  CauseInv'
  <2>1. \A r \in Creates : r # c /\ r \in Requests
    BY KindsDiffer DEF Requests
  <2>2. \A r \in Creates : pc'[r] = pc[r] /\ reply'[r] = reply[r]
    BY <1>1, <2>1 DEF Takes, IndInv, TypeOK
  <2> QED
    BY <1>1, <2>2, CauseUntouched
<1>2. ASSUME NEW c \in Cancels, NEW id \in Watched, PostCancel(c, id)
      PROVE  CauseInv'
  <2>1. BeginCancel(c, id) /\ id \in PayoutIDs
    BY <1>2, CalmBegins, GateAssumption DEF PostCancel
  <2>2. \A r \in Creates : http'[r] = http[r]
    BY <1>2, KindsDiffer DEF PostCancel, Wait, GateTypeOK, Calls
  <2> QED
    BY <1>1, <1>2, <2>1, <2>2, CancelOrApplyTakes DEF PostCancel, Wait
<1>3. ASSUME NEW c \in Cancels, Handle(c)
      PROVE  CauseInv'
  <2>1. CancelStep(c) /\ UNCHANGED gateVars
    BY <1>3, CalmIsAllowed, KindsDiffer DEF Handle
  <2> QED
    BY <1>1, <2>1, CancelOrApplyTakes DEF gateVars
<1>4. ASSUME NEW u \in Updates, Notify(u) \/ Apply(u)
      PROVE  CauseInv'
  <2>1. (\E e \in Notifications : BeginApply(u, e)) \/ ApplyUpdate(u)
    BY <1>4, CalmBegins, CalmIsAllowed DEF Notify, Apply
  <2>2. UNCHANGED gateVars
    BY <1>4 DEF Notify, Apply
  <2> QED
    BY <1>1, <2>1, <2>2, CancelOrApplyTakes DEF gateVars
<1>5. ASSUME NEW id \in Watched, ShowPayout(id)
      PROVE  CauseInv'
  BY <1>5, CauseUntouched DEF ShowPayout, vars, localVars, storeVars
<1>6. CASE ProviderSettles /\ UNCHANGED gateVars
  BY <1>6, CauseUntouched DEF ProviderSettles, gateVars, localVars, storeVars
<1>7. CASE Terminate \/ GracefulStop \/ Restart
  BY <1>7, CauseUntouched DEF Terminate, GracefulStop, Restart, clientVars, vars, localVars, storeVars
<1>8. CASE UNCHANGED allVars
  BY <1>8, CauseUntouched DEF allVars, gateVars, vars, localVars, storeVars
<1> QED
  BY <1>2, <1>3, <1>4, <1>5, <1>6, <1>7, <1>8

\* Nothing has happened yet.
LEMMA CauseInitially == GateInit => CauseInv
<1> SUFFICES ASSUME GateInit PROVE CauseInv
  OBVIOUS
<1>1. \A r \in Creates : r \in Requests /\ r \in Calls
  BY CreateIsARequest DEF Calls
<1>2. \A r \in Creates : pc[r] = "idle" /\ reply[r] = Null /\ code[r] = Null
  BY <1>1 DEF GateInit, Init
<1>3. Null # 502 /\ gone = {}
  BY GateAssumption DEF Status, GateInit
<1> QED
  BY <1>2, <1>3 DEF CauseInv, InProgress

LEMMA CauseKept ==
    ASSUME IndInv, GateTypeOK, CauseInv, "db" \notin CalmFaults, [GateNext]_allVars
    PROVE  CauseInv'
<1>1. ASSUME NEW q \in Calls, Handle(q) PROVE CauseInv'
  <2>1. CASE q \in Creates
    BY <1>1, <2>1, CauseOfHandle
  <2>2. CASE q \in Cancels
    BY <1>1, <2>2, CauseOfOthers
  <2> QED
    BY <2>1, <2>2 DEF Calls
<1> QED
  BY <1>1, CauseOfPost, CauseOfAnswer, CauseOfOthers DEF GateNext

\* Where no statement fails while its caller waits, a client that retries
\* alone is not answered 502.
THEOREM BadGatewayExplained ==
    ASSUME "db" \notin CalmFaults
    PROVE  GateSpec => []BadGatewayHasACause
<1>1. GateInit => CauseInv
  BY CauseInitially
<1>2. IndInv /\ GateTypeOK /\ CauseInv /\ [GateNext]_allVars => CauseInv'
  BY CauseKept
<1>3. CauseInv => BadGatewayHasACause
  BY DEF CauseInv, Excused, BadGatewayHasACause
<1> QED
  BY <1>1, <1>2, <1>3, GateInvariance, GateTypeCorrectness, PTL DEF GateSpec

-----------------------------------------------------------------------------
(***************************************************************************)
(* What a graceful stop leaves behind, when no statement fails of its own  *)
(* accord while a caller waits and the CHECK on payouts.provider knows the *)
(* providers in use.                                                       *)
(***************************************************************************)
SchemaKnowsProviders ==
    \A rl \in SchemaRails : \A i \in 1 .. Len(GetProviders(rl)) :
        GetProviders(rl)[i].provider \in SchemaProviders

\* While its caller waits, a payout is "created" only until it is recorded.
CreatedInv ==
    \A id \in PayoutIDs : payouts[id].state = "created" => id \in gone \/ pc[id] \in Sending

\* A call that was taken is in progress or answered, and a server that has
\* stopped has none in progress.
TakenInv ==
    /\ \A q \in Requests : pc[q] # "lost" /\ (pc[q] = "done" => reply[q] # Null)
    /\ \A q \in Calls : http[q] = "await" => pc[q] # "idle"
    /\ phase = "stopped" => \A r \in Requests : ~InProgress(r)

\* The row takes the result of the send.
LEMMA RecordIsAccepted ==
    ASSUME IndInv, RowIndInv, SchemaKnowsProviders, NEW r \in Creates, pc[r] \in Sending
    PROVE  /\ UpdateAccepted(r, Null, LastProvider(r))
           /\ UpdateAccepted(r, <<LastProvider(r), r>>, LastProvider(r))
<1>1. Exists(r) /\ rail(r) \in SchemaRails
  BY DEF IndInv, RequestInv
<1>2. LastProvider(r) \in SchemaProviders \cup {Null}
  <2>1. CASE attempts[r] = <<>>
    BY <2>1 DEF LastProvider
  <2>2. CASE attempts[r] # <<>>
    <3>1. Len(attempts[r]) \in 1 .. Len(attempts[r]) /\ Len(attempts[r]) <= Len(GetProviders(rail(r)))
      BY <2>2, AttemptsAreASequence, CreateIsARequest DEF IndInv, FallbackFollowsRoute
    <3>2. LastProvider(r) = GetProviders(rail(r))[Len(attempts[r])].provider
      BY <2>2, <3>1 DEF LastProvider, IndInv, FallbackFollowsRoute
    <3>3. Len(GetProviders(rail(r))) \in Nat
      BY <1>1, ProvidersOfRail
    <3>4. Len(attempts[r]) \in 1 .. Len(GetProviders(rail(r)))
      BY <3>1, <3>3
    <3> QED
      BY <1>1, <3>2, <3>4 DEF SchemaKnowsProviders
  <2> QED
    BY <2>1, <2>2
<1>3. ASSUME NEW id \in PayoutIDs, payouts[id].external_id = <<LastProvider(r), r>>,
             <<LastProvider(r), r>> # Null
      PROVE  id = r
  <2>1. RowOK(id)
    BY DEF RowIndInv, RowInv
  <2>2. <<LastProvider(r), r>> = <<payouts[id].provider, id>>
    BY <1>3, <2>1 DEF RowOK
  <2> QED
    BY <2>2
<1> QED
  BY <1>1, <1>2, <1>3 DEF UpdateAccepted, FindByExternalID

\* While its caller waits, a create request that leaves a payout "created" is
\* about to send or to record it.
LEMMA CalmRecords ==
    ASSUME IndInv, RowIndInv, SchemaKnowsProviders, "db" \notin CalmFaults,
           NEW r \in Creates, Calm!CreateStep(r),
           payouts[r].state = "created" => pc[r] \in Sending,
           payouts'[r].state = "created"
    PROVE  pc'[r] \in Sending
<1>1. /\ r \in PayoutIDs /\ r \in Requests
      /\ pc \in [Requests -> Label] /\ payouts \in [PayoutIDs -> Row]
  BY CreateIsARequest DEF IndInv, TypeOK, StoreTypeOK
<1>2. ~Calm!DbMayFail
  BY DEF Calm!DbMayFail
<1>3. ~(InsertKey(r) \/ FindKey(r) \/ SerializationFailure(r) \/ Replay(r))
  BY <1>1 DEF InsertKey, FindKey, SerializationFailure, Replay, storeVars, Sending
<1>4. Calm!CommitTx(r) \/ Calm!NoProviders(r) => pc'[r] \in Sending
  BY <1>1, <1>2 DEF Calm!CommitTx, Calm!NoProviders, Calm!Goto, Sending
<1>5. Calm!SendPayout(r) => pc'[r] \in Sending
  BY <1>1 DEF Calm!SendPayout, Calm!Goto, Sending
<1>6. ~Calm!TxFails(r)
  BY <1>2 DEF Calm!TxFails
<1>7. ~(RecordSent(r) \/ RecordFailed(r))
  BY <1>1 DEF RecordSent, RecordFailed, Record, UpdatePayoutState, Row
<1>8. ~Calm!RecordRefused(r)
  <2>1. /\ Calm!LastProvider(r) = LastProvider(r)
        /\ \A ext, p : Calm!UpdateAccepted(r, ext, p) <=> UpdateAccepted(r, ext, p)
    BY DEF Calm!LastProvider, LastProvider, Calm!UpdateAccepted, UpdateAccepted,
       Calm!Exists, Exists, Calm!SchemaProviders, SchemaProviders,
       Calm!FindByExternalID, FindByExternalID
  <2>2. Calm!RecordRefused(r) => pc[r] \in Sending
    BY DEF Calm!RecordRefused, Sending
  <2> QED
    BY <1>2, <2>1, <2>2, RecordIsAccepted DEF Calm!RecordRefused
<1> QED
  BY <1>3, <1>4, <1>5, <1>6, <1>7, <1>8, CalmTransaction, CalmWrites DEF Calm!CreateStep

\* Only COMMIT makes a payout "created".
LEMMA OthersCreateNothing ==
    ASSUME IndInv, RowIndInv, NEW c \in Cancels \cup Updates,
           \/ c \in Cancels /\ ((\E id \in PayoutIDs : BeginCancel(c, id)) \/ CancelStep(c))
           \/ c \in Updates /\ ((\E e \in Notifications : BeginApply(c, e)) \/ ApplyUpdate(c)),
           NEW id \in PayoutIDs, payouts'[id].state = "created"
    PROVE  payouts[id].state = "created"
<1>1. CASE UNCHANGED payouts
  BY <1>1
<1>2. CASE \/ c \in Cancels /\ CancelInDB(c)
           \/ c \in Updates /\ ApplyUpdate(c)
  <2>1. payouts \in [PayoutIDs -> Row] /\ pc[c] \in {"cancel_db", "apply"}
    BY <1>2 DEF IndInv, TypeOK, StoreTypeOK, CancelInDB, ApplyUpdate
  <2>2. seen[c].id \in PayoutIDs
    BY <2>1 DEF IndInv, TypeOK, SeenInv, Observation
  <2>3. CASE c \in Cancels /\ CancelInDB(c)
    BY <2>1, <2>2, <2>3 DEF CancelInDB, CancelPayoutIfCancelable, storeVars, Row
  <2>4. CASE c \in Updates /\ ApplyUpdate(c)
    <3>1. seen[c].to \in {"completed", "failed", "canceled"}
      BY <2>4 DEF ApplyUpdate, RowIndInv, ApplyInv, Reported
    <3> QED
      BY <2>1, <2>2, <2>4, <3>1 DEF ApplyUpdate, UpdatePayoutState, storeVars, Row
  <2> QED
    BY <1>2, <2>3, <2>4
<1>3. \/ UNCHANGED payouts
      \/ c \in Cancels /\ CancelInDB(c)
      \/ c \in Updates /\ ApplyUpdate(c)
  BY DEF BeginCancel, BeginApply, CancelStep, CancelWithProvider, storeVars
<1> QED
  BY <1>1, <1>2, <1>3

\* Nobody who waits is left with a payout that stays "created".
LEMMA CreatedKept ==
    ASSUME IndInv, RowIndInv, CreatedInv, SchemaKnowsProviders, "db" \notin CalmFaults,
           [GateNext]_allVars
    PROVE  CreatedInv'
<1> USE DEF CreatedInv
<1>1. /\ payouts \in [PayoutIDs -> Row] /\ pc \in [Requests -> Label]
      /\ Creates = PayoutIDs /\ PayoutIDs \subseteq Requests
  BY DEF IndInv, TypeOK, StoreTypeOK, Creates, Requests
<1>2. ASSUME NEW r \in Creates, Handle(r)
      PROVE  CreatedInv'
  <2>1. CreateStep(r) /\ UNCHANGED gone /\ (r \notin gone => Calm!CreateStep(r))
    BY <1>2, CalmIsAllowed, CreateIsARequest DEF Handle, gateVars
  <2>2. \A id \in PayoutIDs : id # r => pc'[id] = pc[id] /\ payouts'[id] = payouts[id]
    <3>1. \A id \in PayoutIDs : id # r => pc'[id] = pc[id]
      BY <1>1, <2>1, CreateTakes DEF Takes
    <3>2. \A id \in PayoutIDs : id # r => payouts'[id] = payouts[id]
      BY <1>1, <2>1 DEF CreateStep, InsertKey, FindKey, SerializationFailure, TxFails, Replay,
         SendPayout, NoProviders, RecordSent, RecordFailed, Record, UpdatePayoutState,
         RecordRefused, CommitTx, CommitPayoutAndKey, storeVars
    <3> QED
      BY <3>1, <3>2
  <2>3. r \in gone \/ (payouts'[r].state = "created" => pc'[r] \in Sending)
    BY <1>1, <2>1, CalmRecords
  <2> QED
    BY <2>1, <2>2, <2>3
<1>3. ASSUME NEW c \in Cancels \cup Updates,
             \/ c \in Cancels /\ ((\E id \in PayoutIDs : BeginCancel(c, id)) \/ CancelStep(c))
             \/ c \in Updates /\ ((\E e \in Notifications : BeginApply(c, e)) \/ ApplyUpdate(c)),
             UNCHANGED gone
      PROVE  CreatedInv'
  <2>1. \A id \in PayoutIDs : pc'[id] = pc[id]
    <3>1. \A id \in PayoutIDs : id # c
      BY <1>1, <1>3, KindsDiffer
    <3> QED
      BY <1>1, <1>3, <3>1, CancelOrApplyTakes DEF Takes
  <2> QED
    BY <1>3, <2>1, OthersCreateNothing
<1>4. ASSUME UNCHANGED <<payouts, pc>>, gone \subseteq gone'
      PROVE  CreatedInv'
  BY <1>4
<1>5. ASSUME NEW r \in Creates, NEW k \in Keys, NEW b \in Bodies, PostPayout(r, k, b)
      PROVE  CreatedInv'
  <2>1. BeginCreate(r, k, b) /\ UNCHANGED gone
    BY <1>5, CalmBegins DEF PostPayout
  <2>2. /\ UNCHANGED payouts /\ pc[r] = "idle"
        /\ \A id \in PayoutIDs : id # r => pc'[id] = pc[id]
    BY <1>1, <2>1 DEF BeginCreate, Goto, Answer, storeVars
  <2> QED
    BY <2>1, <2>2 DEF Sending
<1>6. ASSUME NEW c \in Cancels, NEW id \in Watched, PostCancel(c, id)
      PROVE  CreatedInv'
  BY <1>3, <1>6, CalmBegins, GateAssumption DEF PostCancel
<1>7. ASSUME NEW c \in Cancels, Handle(c)
      PROVE  CreatedInv'
  BY <1>3, <1>7, CalmIsAllowed, KindsDiffer DEF Handle, gateVars
<1>8. ASSUME NEW u \in Updates, Notify(u) \/ Apply(u)
      PROVE  CreatedInv'
  BY <1>3, <1>8, CalmBegins, CalmIsAllowed DEF Notify, Apply, gateVars
<1>9. ASSUME NEW q \in Calls, NotReached(q) \/ Respond(q) \/ HangUp(q)
      PROVE  CreatedInv'
  BY <1>4, <1>9 DEF NotReached, Respond, HangUp, vars, storeVars
<1>10. ASSUME NEW id \in Watched, ShowPayout(id)
       PROVE  CreatedInv'
  BY <1>4, <1>10 DEF ShowPayout, vars, storeVars
<1>11. CASE (ProviderSettles /\ UNCHANGED gateVars) \/ Terminate \/ GracefulStop \/ Restart
  BY <1>4, <1>11 DEF ProviderSettles, gateVars, Terminate, GracefulStop, Restart, clientVars,
     vars, storeVars
<1>12. CASE UNCHANGED allVars
  BY <1>4, <1>12 DEF allVars, gateVars, vars, storeVars
<1> QED
  BY <1>2, <1>5, <1>6, <1>7, <1>8, <1>9, <1>10, <1>11, <1>12 DEF GateNext, Calls

\* A step of the composition is taken by one call that is in progress or
\* begins while the server takes calls, or by none.
LEMMA WhoTakesAStep ==
    ASSUME IndInv, GateTypeOK, [GateNext]_allVars
    PROVE  \/ /\ UNCHANGED <<pc, reply>>
              /\ \A c \in Calls : http'[c] = "await" => http[c] = "await"
              /\ phase' = "stopped" => phase = "stopped" \/ \A r \in Requests : ~InProgress(r)
           \/ \E q \in Requests :
                 /\ Takes(q) /\ UNCHANGED phase
                 /\ InProgress(q) \/ Serving
                 /\ \A c \in Calls : c # q /\ http'[c] = "await" => http[c] = "await"
<1> DEFINE Nobody ==
             /\ UNCHANGED <<pc, reply>>
             /\ \A c \in Calls : http'[c] = "await" => http[c] = "await"
             /\ phase' = "stopped" => phase = "stopped" \/ \A r \in Requests : ~InProgress(r)
           Goes(q) ==
             /\ Takes(q) /\ UNCHANGED phase
             /\ InProgress(q) \/ Serving
             /\ \A c \in Calls : c # q /\ http'[c] = "await" => http[c] = "await"
<1>1. /\ \A q \in Calls : q \in Requests
      /\ \A u \in Updates : u \in Requests
  BY DEF Calls, Requests
<1>2. ASSUME NEW r \in Creates, NEW k \in Keys, NEW b \in Bodies, PostPayout(r, k, b)
      PROVE  Goes(r)
  <2>1. BeginCreate(r, k, b) => Takes(r)
    BY InternalIsAnAnswer DEF BeginCreate, Goto, Answer, Takes, Label, Code
  <2> QED
    BY <1>2, <2>1, CalmBegins DEF PostPayout, Wait, GateTypeOK
<1>3. ASSUME NEW c \in Cancels, NEW id \in Watched, PostCancel(c, id)
      PROVE  Goes(c)
  BY <1>3, CalmBegins, CancelOrApplyTakes, GateAssumption DEF PostCancel, Wait, GateTypeOK
<1>4. ASSUME NEW q \in Calls, Handle(q)
      PROVE  Goes(q)
  <2>1. UNCHANGED <<phase, http>>
    BY <1>4 DEF Handle, gateVars
  <2>2. CASE q \in Creates
    BY <1>4, <2>1, <2>2, CalmIsAllowed, CreateTakes, CreateIsARequest DEF Handle
  <2>3. CASE q \in Cancels
    <3>1. CancelStep(q)
      BY <1>4, <2>3, CalmIsAllowed, KindsDiffer DEF Handle
    <3>2. InProgress(q)
      BY <3>1 DEF CancelStep, CancelWithProvider, CancelInDB, InProgress
    <3> QED
      BY <2>1, <2>3, <3>1, <3>2, CancelOrApplyTakes
  <2> QED
    BY <2>2, <2>3 DEF Calls
<1>5. ASSUME NEW u \in Updates, Notify(u)
      PROVE  Goes(u)
  BY <1>5, CalmBegins, CancelOrApplyTakes DEF Notify, gateVars
<1>6. ASSUME NEW u \in Updates, Apply(u)
      PROVE  Goes(u)
  <2>1. ApplyUpdate(u) /\ UNCHANGED gateVars
    BY <1>6, CalmIsAllowed DEF Apply
  <2>2. InProgress(u)
    BY <2>1 DEF ApplyUpdate, InProgress
  <2> QED
    BY <2>1, <2>2, CancelOrApplyTakes DEF gateVars
<1>7. ASSUME NEW q \in Calls, NotReached(q) \/ Respond(q) \/ HangUp(q)
      PROVE  Nobody
  BY <1>7 DEF NotReached, Respond, HangUp, Write, GateTypeOK, vars
<1>8. ASSUME NEW id \in Watched, ShowPayout(id)
      PROVE  Nobody
  BY <1>8 DEF ShowPayout, vars
<1>9. CASE (ProviderSettles /\ UNCHANGED gateVars) \/ Terminate \/ GracefulStop \/ Restart
  BY <1>9 DEF ProviderSettles, gateVars, Terminate, GracefulStop, Restart, clientVars, vars
<1>10. CASE UNCHANGED allVars
  BY <1>10 DEF allVars, gateVars, vars
<1> QED
  BY <1>1, <1>2, <1>3, <1>4, <1>5, <1>6, <1>7, <1>8, <1>9, <1>10 DEF GateNext, Calls

LEMMA TakenKept ==
    ASSUME IndInv, GateTypeOK, TakenInv, [GateNext]_allVars
    PROVE  TakenInv'
<1> USE DEF TakenInv
<1>1. pc \in [Requests -> Label] /\ reply \in [Requests -> Reply \cup {Null}]
      /\ \A q \in Calls : q \in Requests
  BY DEF IndInv, TypeOK, Calls, Requests
<1>2. ASSUME UNCHANGED <<pc, reply>>,
             \A c \in Calls : http'[c] = "await" => http[c] = "await",
             phase' = "stopped" => phase = "stopped" \/ \A r \in Requests : ~InProgress(r)
      PROVE  TakenInv'
  BY <1>2 DEF InProgress
<1>3. ASSUME NEW q \in Requests, Takes(q), UNCHANGED phase, InProgress(q) \/ Serving,
             \A c \in Calls : c # q /\ http'[c] = "await" => http[c] = "await"
      PROVE  TakenInv'
  <2>1. /\ pc'[q] \notin {"idle", "lost"} /\ (pc'[q] = "done" => reply'[q] # Null)
        /\ \A c \in Requests : c # q => pc'[c] = pc[c] /\ reply'[c] = reply[c]
    BY <1>1, <1>3, NullIsNoValue DEF Takes
  <2>2. phase # "stopped"
    BY <1>3 DEF Serving
  <2> QED
    BY <1>1, <1>3, <2>1, <2>2
<1> QED
  BY <1>2, <1>3, WhoTakesAStep

\* Nothing is taken and no row exists.
LEMMA CleanInitially == GateInit => CreatedInv /\ TakenInv
<1> SUFFICES ASSUME GateInit PROVE CreatedInv /\ TakenInv
  OBVIOUS
<1>1. /\ \A id \in PayoutIDs : payouts[id].state = "absent"
      /\ \A q \in Requests : pc[q] = "idle"
      /\ \A q \in Calls : http[q] = "idle"
      /\ phase = "serving"
  BY DEF GateInit, Init, StoreInit, NoRow
<1> QED
  BY <1>1 DEF CreatedInv, TakenInv

\* When the orchestrator has stopped, every payout whose caller stayed has
\* been recorded, and everybody who waits has an answer on its way.
THEOREM StopLeavesNothingBehind ==
    ASSUME ~DirectUpdates, "db" \notin CalmFaults, SchemaKnowsProviders
    PROVE  GateSpec => []StoppedIsClean
<1>1. GateInit => RowIndInv /\ CreatedInv /\ TakenInv
  BY InitRowIndInv, CleanInitially DEF GateInit
<1>2. IndInv /\ GateTypeOK /\ RowIndInv /\ CreatedInv /\ TakenInv /\ [GateNext]_allVars
        => RowIndInv' /\ CreatedInv' /\ TakenInv'
  BY GateRows, CreatedKept, TakenKept
<1>3. CreatedInv /\ TakenInv => StoppedIsClean
  BY DEF CreatedInv, TakenInv, StoppedIsClean, InProgress, Sending, Calls, Requests, Creates
<1> QED
  BY <1>1, <1>2, <1>3, GateInvariance, GateTypeCorrectness, PTL DEF GateSpec

-----------------------------------------------------------------------------
(***************************************************************************)
(* The money of the payouts of which clients learn.                        *)
(***************************************************************************)

\* A client that was shown "failed" was shown a payout that nobody will send any
\* more, and for which nothing is open or paid if its calls were answered.
ToldFailed(id) == told[id] \in Row /\ told[id].state = "failed"

GivenUp(id) == Exists(id) /\ pc[id] \notin Sending

Unpaid(id) == \A p \in Provider : ~Live(id, p)

ToldFailedInv ==
    \A id \in PayoutIDs : ToldFailed(id) =>
        GivenUp(id) /\ (AnswersKnown(id) => Unpaid(id))

\* What is known of the money is kept, also behind the API and over restarts.
LEMMA GateMoney ==
    ASSUME IndInv, RowIndInv, MoneyInv, [GateNext]_allVars
    PROVE  MoneyInv'
<1>1. CASE [Next]_vars
  BY <1>1, NextMoneyInv
<1>2. CASE Restart
  <2>1. UNCHANGED <<payouts, attempts, charges, pc>>
    BY <1>2 DEF Restart, ForgetStats, storeVars
  <2>2. ASSUME NEW id \in PayoutIDs
        PROVE  MoneyFor(id)'
    BY <2>1 DEF MoneyInv, MoneyFor, TriedFor, GaveUpFor, FailedFor, AllFailed, Live
  <2> QED
    BY <2>2 DEF MoneyInv
<1> QED
  BY <1>1, <1>2, GateStepIsAllowed

\* A payout that nobody sends any more is not sent again.
LEMMA NotSentAgain ==
    ASSUME IndInv, [Next]_vars, NEW id \in PayoutIDs, Exists(id), pc[id] \notin Sending
    PROVE  pc'[id] \notin Sending
<1>1. /\ id \in Requests /\ id \in Creates /\ pc \in [Requests -> Label]
      /\ pc[id] \notin {"idle", "insert_key", "commit"}
  BY CreateIsARequest DEF IndInv, RequestInv, InTransaction, TypeOK, Creates
<1>2. ASSUME NEW q \in Requests, NEW label, pc' = [pc EXCEPT ![q] = label], q # id \/ label \notin Sending
      PROVE  pc'[id] \notin Sending
  BY <1>1, <1>2
<1>3. ASSUME NEW r \in Creates,
             (\E k \in Keys, b \in Bodies : BeginCreate(r, k, b)) \/ CreateStep(r)
      PROVE  pc'[id] \notin Sending
  <2>1. CASE r = id
    BY <1>1, <1>3, <2>1 DEF BeginCreate, CreateStep, InsertKey, FindKey, SerializationFailure,
       TxFails, CommitTx, Replay, SendPayout, NoProviders, RecordSent, RecordFailed, Record,
       RecordRefused, Goto, Answer, Sending
  <2>2. \E label : pc' = [pc EXCEPT ![r] = label]
    BY <1>3 DEF BeginCreate, CreateStep, InsertKey, FindKey, SerializationFailure,
       TxFails, CommitTx, Replay, SendPayout, NoProviders, RecordSent, RecordFailed, Record,
       RecordRefused, Goto, Answer
  <2> QED
    BY <1>2, <2>1, <2>2, CreateIsARequest
<1>4. ASSUME NEW c \in Cancels \cup Updates,
             \/ c \in Cancels /\ ((\E i \in PayoutIDs : BeginCancel(c, i)) \/ CancelStep(c))
             \/ c \in Updates /\ ((\E e \in Notifications : BeginApply(c, e)) \/ ApplyUpdate(c))
      PROVE  pc'[id] \notin Sending
  <2>1. \E label : pc' = [pc EXCEPT ![c] = label]
    BY <1>4 DEF BeginCancel, CancelStep, CancelWithProvider, CancelInDB, BeginApply, ApplyUpdate,
       Goto, Answer
  <2> QED
    BY <1>1, <1>2, <2>1, KindsDiffer DEF Requests
<1>5. CASE ProviderSettles \/ Crash \/ UNCHANGED vars
  BY <1>1, <1>5 DEF ProviderSettles, Crash, vars, Sending
<1> QED
  BY <1>3, <1>4, <1>5 DEF Next

\* A payout that is given up is given up for good: no further call is made for
\* it, and what is unpaid stays unpaid.
LEMMA GivenUpKept ==
    ASSUME IndInv, RowIndInv, [GateNext]_allVars, NEW id \in PayoutIDs, GivenUp(id)
    PROVE  GivenUp(id)' /\ attempts'[id] = attempts[id] /\ (Unpaid(id) => Unpaid(id)')
<1>1. CASE [Next]_vars
  <2>1. GivenUp(id)'
    BY <1>1, NotSentAgain, RowsKept DEF GivenUp
  <2>2. ASSUME NEW r \in Creates, SendPayout(r)
        PROVE  /\ attempts'[id] = attempts[id]
               /\ \A p \in Provider : charges'[id][p] = charges[id][p]
    <3>1. r # id /\ r \in PayoutIDs
      BY <2>2 DEF GivenUp, SendPayout, Sending, Creates
    <3>2. PICK q \in Provider, out \in Outcome :
             ~Charged(r, q) /\ TryProvider(r, rail(r), q, out)
      BY <2>2, SendStep
    <3> QED
      BY <3>1, <3>2, TryKeepsCharges
  <2>3. CASE \E r \in Creates : SendPayout(r)
    BY <2>1, <2>2, <2>3 DEF Unpaid, Live
  <2>4. CASE UNCHANGED attempts /\ \A i \in PayoutIDs, p \in Provider : Live(i, p)' => Live(i, p)
    BY <2>1, <2>4 DEF Unpaid
  <2> QED
    BY <1>1, <2>3, <2>4, OtherSteps
<1>2. CASE Restart
  BY <1>2 DEF Restart, ForgetStats, storeVars, GivenUp, Unpaid, Exists, Live
<1> QED
  BY <1>1, <1>2, GateStepIsAllowed

\* A client is shown "failed" when the row says so: the payout is given up, and
\* if its calls were answered nothing is paid.
LEMMA ToldFailedKept ==
    ASSUME IndInv, RowIndInv, GateTypeOK, MoneyInv, ToldFailedInv, [GateNext]_allVars
    PROVE  ToldFailedInv'
<1> SUFFICES ASSUME NEW id \in PayoutIDs, ToldFailed(id)'
             PROVE  GivenUp(id)' /\ (AnswersKnown(id)' => Unpaid(id)')
  BY DEF ToldFailedInv
<1>1. ASSUME GivenUp(id), AnswersKnown(id) => Unpaid(id)
      PROVE  GivenUp(id)' /\ (AnswersKnown(id)' => Unpaid(id)')
  <2>1. GivenUp(id)' /\ attempts'[id] = attempts[id] /\ (Unpaid(id) => Unpaid(id)')
    BY <1>1, GivenUpKept
  <2>2. AnswersKnown(id)' => AnswersKnown(id)
    BY <2>1 DEF AnswersKnown
  <2> QED
    BY <1>1, <2>1, <2>2
<1>2. CASE UNCHANGED told[id]
  BY <1>1, <1>2 DEF ToldFailedInv, ToldFailed
<1>3. CASE told'[id] = Named
  BY <1>3 DEF ToldFailed, Named, NoRow
<1>4. CASE told'[id] = payouts[id]
  <2>1. payouts[id].state = "failed" /\ MoneyFor(id)
    BY <1>4 DEF ToldFailed, MoneyInv
  <2>2. GivenUp(id)
    BY <2>1 DEF GivenUp, Exists, RowIndInv, RowInv, RowOK
  <2>3. AnswersKnown(id) => Unpaid(id)
    BY <2>1, UnpaidPayout DEF Unpaid
  <2> QED
    BY <1>1, <2>2, <2>3
<1> QED
  BY <1>2, <1>3, <1>4, Learning

\* Nobody has called, been paid or been told anything.
LEMMA NothingPaid == GateInit => MoneyInv /\ ToldFailedInv
<1> SUFFICES ASSUME GateInit PROVE MoneyInv /\ ToldFailedInv
  OBVIOUS
<1>1. MoneyInv
  BY InitMoney DEF GateInit
<1>2. \A id \in PayoutIDs : told[id] = Null
  BY DEF GateInit
<1> QED
  BY <1>1, <1>2, GateAssumption DEF ToldFailedInv, ToldFailed

\* The invariants hold together while callers hang up and the server restarts.
LEMMA GateMoneyInvariance ==
    ASSUME ~DirectUpdates
    PROVE  GateSpec => [](IndInv /\ RowIndInv /\ MoneyInv /\ ToldFailedInv)
<1>1. GateInit => RowIndInv /\ MoneyInv /\ ToldFailedInv
  BY InitRowIndInv, NothingPaid DEF GateInit
<1>2. IndInv /\ GateTypeOK /\ RowIndInv /\ MoneyInv /\ ToldFailedInv /\ [GateNext]_allVars
        => RowIndInv' /\ MoneyInv' /\ ToldFailedInv'
  BY GateRows, GateMoney, ToldFailedKept
<1> QED
  BY <1>1, <1>2, GateInvariance, GateTypeCorrectness, PTL DEF GateSpec

\* Through the API too, a key is paid for twice only if the answer of a call made
\* for it was lost, whoever hangs up and however often the orchestrator is
\* stopped and started again (createPayoutHandlerWithClient passes its own
\* context on).
THEOREM ClientsPayTwiceOnlyIfLost ==
    ASSUME ~DirectUpdates
    PROVE  GateSpec => []PaidTwiceOnlyIfLost
BY GateMoneyInvariance, OnlyLostFollows, PTL

\* A client that was shown "failed" pays and will pay nothing for that payout,
\* unless the answer of a call made for it was lost (getPayoutHandler, on top of
\* the send and of every later write).
THEOREM ShownFailedUnpaid ==
    ASSUME ~DirectUpdates
    PROVE  GateSpec => []ToldFailedIsUnpaid
<1>1. ToldFailedInv => ToldFailedIsUnpaid
  BY DEF ToldFailedInv, ToldFailed, Unpaid, ToldFailedIsUnpaid
<1> QED
  BY <1>1, GateMoneyInvariance, PTL

=============================================================================
