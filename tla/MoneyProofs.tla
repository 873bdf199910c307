---------------------------- MODULE MoneyProofs ----------------------------
(***************************************************************************)
(* No money is sent twice, and a payout that failed may be paid by other   *)
(* means, but for payouts that had the answer of a provider call lost:     *)
(* proofs for any number of requests, any registry and any faults, where   *)
(* updates name payouts as the providers do.  And the tracker counts the   *)
(* calls that were made.                                                   *)
(***************************************************************************)
EXTENDS RowProofs, FiniteSetTheorems

AllFailed(id) == \A i \in 1 .. Len(attempts[id]) : attempts[id][i].outcome # "ok"

\* A call that is known not to have succeeded leaves no live charge.
TriedFor(id) ==
    \A i \in 1 .. Len(attempts[id]) :
        attempts[id][i].outcome \notin {"ok", "unknown"}
            => ~Live(id, attempts[id][i].provider)

\* A payout is given up when every call failed, and a row that says "failed"
\* was given up or has heard so from the provider.
GaveUpFor(id) == pc[id] = "record_failed" => AllFailed(id)

FailedFor(id) ==
    payouts[id].state = "failed" =>
        IF payouts[id].external_id = Null THEN AllFailed(id)
        ELSE charges[id][payouts[id].provider] = "failed"

MoneyFor(id) == TriedFor(id) /\ GaveUpFor(id) /\ FailedFor(id)

MoneyInv == \A id \in PayoutIDs : MoneyFor(id)

\* Nothing was tried yet.
LEMMA InitMoney == Init => MoneyInv
<1> SUFFICES ASSUME Init, NEW id \in PayoutIDs PROVE MoneyFor(id)
  BY DEF MoneyInv
<1>1. payouts[id] = NoRow /\ attempts[id] = <<>> /\ pc[id] = "idle"
  BY DEF Init, StoreInit, ProvidersInit, Requests, Creates
<1>2. TriedFor(id)
  BY <1>1 DEF TriedFor
<1>3. GaveUpFor(id) /\ FailedFor(id)
  BY <1>1 DEF GaveUpFor, FailedFor, NoRow
<1> QED
  BY <1>2, <1>3 DEF MoneyFor

\* A provider that has not been tried is called, and if it does not accept it
\* leaves nothing behind that could be paid.  A send touches its payout only.
LEMMA SendKeepsMoney ==
    ASSUME IndInv, RowIndInv, NEW id \in PayoutIDs, MoneyFor(id),
           NEW r \in Creates, SendPayout(r)
    PROVE  MoneyFor(id)'
<1>1. PICK p \in Provider, out \in Outcome :
         /\ out \in Outcomes(p)
         /\ ~Charged(r, p)
         /\ TryProvider(r, rail(r), p, out)
         /\ \/ out = "ok" /\ Goto(r, "record_sent")
            \/ Goto(r, "send")
            \/ Goto(r, "record_failed")
  BY SendStep
<1>r. r \in PayoutIDs /\ r \in Requests /\ PayoutIDs \subseteq Requests
  BY CreateIsARequest DEF Requests, Creates
<1>2. /\ Last(r)' = [provider |-> p, outcome |-> out]
      /\ \A i \in PayoutIDs : i # r => attempts'[i] = attempts[i]
      /\ \A i \in PayoutIDs, q \in Provider :
            i # r \/ q # p => charges'[i][q] = charges[i][q]
      /\ charges'[r][p] = ChargeOf(out)
  BY <1>1, <1>r, TryKeepsCharges
<1>3. pc[r] = "send" /\ UNCHANGED payouts /\ payouts[r].state # "failed"
  BY <1>r DEF SendPayout, storeVars, RowIndInv, RowInv, RowOK, Sending
<1>4. \A i \in 1 .. Len(attempts[id]) : attempts[id][i].provider \in Provider
  <2> TAKE i \in 1 .. Len(attempts[id])
  <2>1. attempts[id][i] \in Attempt
    BY AttemptsAreASequence, ElementOfSequence
  <2> QED
    BY <2>1 DEF Attempt
<1>5. CASE id # r
  <2>1. attempts'[id] = attempts[id] /\ payouts'[id] = payouts[id] /\ pc'[id] = pc[id]
    BY <1>1, <1>2, <1>3, <1>5, <1>r DEF Goto, IndInv, TypeOK
  <2>2. \A q \in Provider : charges'[id][q] = charges[id][q]
    BY <1>2, <1>5
  <2>3. TriedFor(id)'
    <3>1. ASSUME NEW i \in 1 .. Len(attempts[id]),
                 attempts[id][i].outcome \notin {"ok", "unknown"}
          PROVE  charges'[id][attempts[id][i].provider] \notin {"accepted", "succeeded"}
      <4>1. ~Live(id, attempts[id][i].provider)
        BY <3>1 DEF MoneyFor, TriedFor
      <4> QED
        BY <1>4, <2>2, <4>1 DEF Live
    <3> QED
      BY <2>1, <3>1 DEF TriedFor, Live
  <2>4. GaveUpFor(id)'
    BY <2>1 DEF MoneyFor, GaveUpFor, AllFailed
  <2>5. FailedFor(id)'
    <3>1. payouts[id].external_id # Null => payouts[id].provider \in Provider
      BY DEF RowIndInv, RowInv, RowOK
    <3> QED
      BY <2>1, <2>2, <3>1 DEF MoneyFor, FailedFor, AllFailed
  <2> QED
    BY <2>3, <2>4, <2>5 DEF MoneyFor
<1>6. CASE id = r
  <2>2. out \notin {"ok", "unknown"} => charges'[r][p] \notin {"accepted", "succeeded"}
    BY <1>2 DEF ChargeOf, Outcome
  <2>3. /\ attempts[r] \in Seq(Attempt) /\ Len(attempts[r]) \in Nat
        /\ [provider |-> p, outcome |-> out] \in Attempt
        /\ attempts'[r] = Append(attempts[r], [provider |-> p, outcome |-> out])
    BY <1>1, <1>r, AttemptsAreASequence
       DEF Attempt, TryProvider, IndInv, TypeOK, ProvidersTypeOK
  <2>4. /\ Len(attempts'[r]) = Len(attempts[r]) + 1
        /\ attempts'[r][Len(attempts[r]) + 1] = [provider |-> p, outcome |-> out]
        /\ \A i \in 1 .. Len(attempts[r]) : attempts'[r][i] = attempts[r][i]
    BY <2>3
  <2>5. \A i \in 1 .. Len(attempts'[r]) : i \in 1 .. Len(attempts[r]) \/ i = Len(attempts[r]) + 1
    BY <2>3, <2>4
  <2>6. TriedFor(r)'
    <3>1. ASSUME NEW i \in 1 .. Len(attempts[r]),
                 attempts'[r][i].outcome \notin {"ok", "unknown"}
          PROVE  charges'[r][attempts'[r][i].provider] \notin {"accepted", "succeeded"}
      <4>1. /\ attempts'[r][i] = attempts[r][i]
            /\ attempts[r][i].provider \in Provider /\ attempts[r][i].provider # p
        BY <1>1, <1>4, <1>6, <2>4 DEF Charged
      <4>2. ~Live(r, attempts[r][i].provider)
        BY <1>6, <3>1, <4>1 DEF MoneyFor, TriedFor
      <4> QED
        BY <1>2, <1>r, <3>1, <4>1, <4>2 DEF Live
    <3>2. attempts'[r][Len(attempts[r]) + 1].outcome \notin {"ok", "unknown"}
             => charges'[r][attempts'[r][Len(attempts[r]) + 1].provider] \notin {"accepted", "succeeded"}
      BY <2>2, <2>4
    <3> QED
      BY <2>5, <3>1, <3>2 DEF TriedFor, Live
  <2>7. GaveUpFor(r)'
    <3> SUFFICES ASSUME pc'[r] = "record_failed" PROVE AllFailed(r)'
      BY DEF GaveUpFor
    <3>1. out # "ok"
      BY <1>r, <2>4 DEF SendPayout, TryProvider, Goto, IndInv, TypeOK
    <3>2. \A i \in 1 .. Len(attempts[r]) : attempts[r][i].outcome # "ok"
      BY <1>3 DEF IndInv, RouteInv, isRetryable
    <3> QED
      BY <2>4, <2>5, <3>1, <3>2 DEF AllFailed
  <2>8. FailedFor(r)'
    BY <1>3 DEF FailedFor
  <2> QED
    BY <1>6, <2>6, <2>7, <2>8 DEF MoneyFor
<1> QED
  BY <1>5, <1>6

\* Every other step leaves the record of tries alone, makes no charge live and
\* gives up no payout, but for a rail that has no provider.
LEMMA OtherSteps ==
    ASSUME IndInv, RowIndInv, [Next]_vars
    PROVE  \/ \E r \in Creates : SendPayout(r)
           \/ /\ UNCHANGED attempts
              /\ \A id \in PayoutIDs, p \in Provider : Live(id, p)' => Live(id, p)
              /\ \A id \in PayoutIDs : pc'[id] = "record_failed" =>
                    pc[id] = "record_failed" \/ NoProviders(id)
<1> DEFINE Quiet == /\ UNCHANGED attempts
                    /\ \A id \in PayoutIDs, p \in Provider : Live(id, p)' => Live(id, p)
                    /\ \A id \in PayoutIDs : pc'[id] = "record_failed" =>
                          pc[id] = "record_failed" \/ NoProviders(id)
<1>r. PayoutIDs \subseteq Requests /\ Creates = PayoutIDs /\ pc \in [Requests -> Label]
  BY DEF Requests, Creates, IndInv, TypeOK
<1>1. ASSUME NEW r \in Requests, NEW label, UNCHANGED <<attempts, charges>>,
             pc' = [pc EXCEPT ![r] = label], label # "record_failed"
      PROVE  Quiet
  BY <1>1, <1>r DEF Live
<1>2. ASSUME NEW r \in Creates,
             \/ \E k \in Keys, b \in Bodies : BeginCreate(r, k, b)
             \/ InsertKey(r) \/ FindKey(r) \/ SerializationFailure(r) \/ TxFails(r)
             \/ CommitTx(r) \/ Replay(r) \/ RecordSent(r) \/ RecordFailed(r) \/ RecordRefused(r)
      PROVE  Quiet
  <2>1. r \in Requests /\ UNCHANGED <<attempts, charges>>
    BY <1>2, <1>r DEF BeginCreate, InsertKey, FindKey, SerializationFailure, TxFails, CommitTx,
       Replay, RecordSent, RecordFailed, Record, RecordRefused, providerVars
  <2>2. \E label : pc' = [pc EXCEPT ![r] = label] /\ label # "record_failed"
    BY <1>2 DEF BeginCreate, InsertKey, FindKey, SerializationFailure, TxFails, CommitTx,
       Replay, RecordSent, RecordFailed, Record, RecordRefused, Goto, Answer
  <2> QED
    BY <1>1, <2>1, <2>2
<1>3. ASSUME NEW r \in Creates, NoProviders(r) PROVE Quiet
  BY <1>3, <1>r DEF NoProviders, Goto, providerVars, Live
<1>4. ASSUME NEW c \in Cancels \cup Updates,
             \/ c \in Cancels /\ \E id \in PayoutIDs : BeginCancel(c, id)
             \/ c \in Cancels /\ CancelInDB(c)
             \/ c \in Updates /\ \E e \in Notifications : BeginApply(c, e)
             \/ c \in Updates /\ ApplyUpdate(c)
      PROVE  Quiet
  <2>1. c \in Requests /\ UNCHANGED <<attempts, charges>>
    BY <1>4 DEF BeginCancel, CancelInDB, BeginApply, ApplyUpdate, providerVars, Requests
  <2>2. \E label : pc' = [pc EXCEPT ![c] = label] /\ label # "record_failed"
    BY <1>4 DEF BeginCancel, CancelInDB, BeginApply, ApplyUpdate, Goto, Answer
  <2> QED
    BY <1>1, <2>1, <2>2
<1>5. ASSUME NEW c \in Cancels, CancelWithProvider(c) PROVE Quiet
  <2>1. /\ UNCHANGED attempts /\ pc' = [pc EXCEPT ![c] = "cancel_db"]
        /\ \/ UNCHANGED charges
           \/ charges' = [charges EXCEPT ![seen[c].id][seen[c].row.provider] = "canceled"]
    BY <1>5 DEF CancelWithProvider, CancelAtProvider, Goto
  <2>2. \A id \in PayoutIDs, p \in Provider :
           charges'[id][p] = charges[id][p] \/ charges'[id][p] = "canceled"
    <3>1. ASSUME NEW i, NEW q, charges' = [charges EXCEPT ![i][q] = "canceled"],
                 NEW id \in PayoutIDs, NEW p \in Provider
          PROVE  charges'[id][p] = charges[id][p] \/ charges'[id][p] = "canceled"
      <4>1. charges \in [PayoutIDs -> [Provider -> ChargeState]]
        BY DEF IndInv, TypeOK, ProvidersTypeOK
      <4>2. CASE i = id
        <5>1. charges'[id] = [charges[id] EXCEPT ![q] = "canceled"]
          BY <3>1, <4>1, <4>2
        <5> QED
          BY <4>1, <5>1
      <4>3. CASE i # id
        BY <3>1, <4>1, <4>3
      <4> QED
        BY <4>2, <4>3
    <3> QED
      BY <2>1, <3>1
  <2>3. \A id \in PayoutIDs, p \in Provider : Live(id, p)' => Live(id, p)
    BY <2>2 DEF Live
  <2> QED
    BY <1>r, <2>1, <2>3
<1>6. ASSUME ProviderSettles PROVE Quiet
  <2>1. PICK id \in PayoutIDs, p \in Provider : Settle(id, p)
    BY <1>6 DEF ProviderSettles
  <2>2. /\ charges[id][p] = "accepted" /\ UNCHANGED <<attempts, pc>>
        /\ \E c \in ChargeState : charges' = [charges EXCEPT ![id][p] = c]
    BY <1>6, <2>1 DEF ProviderSettles, Settle, ChargeState
  <2>3. \A i \in PayoutIDs, q \in Provider : Live(i, q)' => Live(i, q)
    BY <2>2 DEF Live, IndInv, TypeOK, ProvidersTypeOK
  <2> QED
    BY <2>2, <2>3
<1>7. ASSUME Crash PROVE Quiet
  BY <1>7, <1>r DEF Crash, ForgetStats, Live
<1>8. ASSUME UNCHANGED vars PROVE Quiet
  BY <1>8 DEF vars, providerVars, Live
<1> HIDE DEF Quiet
<1>9. Quiet \/ \E r \in Creates : SendPayout(r)
  <2>1. ASSUME NEW c \in Cancels,
               (\E id \in PayoutIDs : BeginCancel(c, id)) \/ CancelStep(c)
        PROVE  Quiet
    BY <1>4, <1>5, <2>1 DEF CancelStep
  <2>2. ASSUME NEW u \in Updates,
               (\E e \in Notifications : BeginApply(u, e)) \/ ApplyUpdate(u)
        PROVE  Quiet
    BY <1>4, <2>2
  <2>3. ASSUME NEW r \in Creates,
               (\E k \in Keys, b \in Bodies : BeginCreate(r, k, b)) \/ CreateStep(r)
        PROVE  Quiet \/ SendPayout(r)
    BY <1>2, <1>3, <2>3 DEF CreateStep
  <2> QED
    BY <1>6, <1>7, <1>8, <2>1, <2>2, <2>3 DEF Next
<1> QED
  BY <1>9 DEF Quiet

\* A row comes to say "failed" when its payout is given up or its charge failed,
\* and a charge that failed stays so.
LEMMA FailedKept ==
    ASSUME IndInv, RowIndInv, NEW id \in PayoutIDs, MoneyFor(id), [Next]_vars,
           attempts'[id] = attempts[id]
    PROVE  FailedFor(id)'
<1> SUFFICES ASSUME payouts'[id].state = "failed"
             PROVE  IF payouts'[id].external_id = Null THEN AllFailed(id)'
                    ELSE charges'[id][payouts'[id].provider] = "failed"
  BY DEF FailedFor
<1>1. ASSUME payouts'[id] = payouts[id],
             payouts[id].external_id # Null =>
                charges'[id][payouts[id].provider] = charges[id][payouts[id].provider]
      PROVE  IF payouts'[id].external_id = Null THEN AllFailed(id)'
             ELSE charges'[id][payouts'[id].provider] = "failed"
  BY <1>1 DEF MoneyFor, FailedFor, AllFailed
<1>2. ASSUME NEW moved \in PayoutIDs, Moves(moved)
      PROVE  IF payouts'[id].external_id = Null THEN AllFailed(id)'
             ELSE charges'[id][payouts'[id].provider] = "failed"
  <2>1. UNCHANGED charges /\ \A i \in PayoutIDs \ {moved} : payouts'[i] = payouts[i]
    BY <1>2 DEF Moves
  <2>2. CASE payouts'[id] = payouts[id]
    BY <1>1, <2>1, <2>2
  <2>3. CASE id = moved /\ MoveFailed(id)
    <3>1. AllFailed(id) /\ payouts'[id].external_id = Null
      BY <2>3 DEF MoveFailed, MoneyFor, GaveUpFor
    <3> QED
      BY <3>1 DEF AllFailed
  <2>4. CASE id = moved /\ MoveLearn(id)
    BY <2>1, <2>4 DEF MoveLearn, KeepsReference, Reported, Closed
  <2> QED
    BY <1>2, <2>1, <2>2, <2>3, <2>4 DEF Moves, MoveCreate, MoveSent, MoveCancel
<1>3. CASE UNCHANGED payouts /\ (ChargeMoves \/ UNCHANGED charges)
  <2>1. payouts'[id] = payouts[id] /\ payouts[id].state = "failed"
    BY <1>3
  <2>2. ASSUME payouts[id].external_id # Null
        PROVE  charges'[id][payouts[id].provider] = charges[id][payouts[id].provider]
    <3>1. /\ charges[id][payouts[id].provider] = "failed"
          /\ payouts[id].provider \in Provider
      BY <2>1, <2>2 DEF MoneyFor, FailedFor, RowIndInv, RowInv, RowOK
    <3>2. CASE ChargeMoves
      <4>1. PICK i \in PayoutIDs, p \in Provider, c \in ChargeState :
               /\ charges' = [charges EXCEPT ![i][p] = c]
               /\ payouts[i].external_id = Null \/ charges[i][p] = "accepted"
        BY <3>2 DEF ChargeMoves
      <4>2. i # id \/ p # payouts[id].provider
        BY <2>2, <3>1, <4>1
      <4> QED
        BY <3>1, <4>1, <4>2 DEF IndInv, TypeOK, ProvidersTypeOK
    <3> QED
      BY <1>3, <3>2
  <2> QED
    BY <1>1, <2>1, <2>2
<1> QED
  BY <1>2, <1>3, StepMoves DEF ChargeMoves

\* What is known of one payout's money is kept by every step.
LEMMA MoneyStep ==
    ASSUME IndInv, RowIndInv, NEW id \in PayoutIDs, MoneyFor(id), [Next]_vars
    PROVE  MoneyFor(id)'
<1>1. ASSUME NEW r \in Creates, SendPayout(r)
      PROVE  MoneyFor(id)'
  BY <1>1, SendKeepsMoney
<1>2. CASE /\ UNCHANGED attempts
           /\ \A i \in PayoutIDs, p \in Provider : Live(i, p)' => Live(i, p)
           /\ \A i \in PayoutIDs : pc'[i] = "record_failed" =>
                 pc[i] = "record_failed" \/ NoProviders(i)
  <2>1. TriedFor(id)'
    <3>1. ASSUME NEW i \in 1 .. Len(attempts[id]),
                 attempts[id][i].outcome \notin {"ok", "unknown"}
          PROVE  ~Live(id, attempts[id][i].provider)'
      <4>1. attempts[id][i] \in Attempt
        BY AttemptsAreASequence, ElementOfSequence
      <4>2. attempts[id][i].provider \in Provider
        BY <4>1 DEF Attempt
      <4>3. ~Live(id, attempts[id][i].provider)
        BY <3>1 DEF MoneyFor, TriedFor
      <4> QED
        BY <1>2, <4>2, <4>3
    <3> QED
      BY <1>2, <3>1 DEF TriedFor, Live
  <2>2. GaveUpFor(id)'
    <3>1. ASSUME NoProviders(id)
          PROVE  AllFailed(id)
      BY <3>1 DEF NoProviders, IndInv, RouteInv, isRetryable, AllFailed, Creates
    <3> QED
      BY <1>2, <3>1 DEF MoneyFor, GaveUpFor, AllFailed
  <2>3. FailedFor(id)'
    BY <1>2, FailedKept
  <2> QED
    BY <2>1, <2>2, <2>3 DEF MoneyFor
<1> QED
  BY <1>1, <1>2, OtherSteps

\* Every step of the service preserves the invariant.
LEMMA NextMoneyInv ==
    ASSUME IndInv, RowIndInv, MoneyInv, [Next]_vars
    PROVE  MoneyInv'
BY MoneyStep DEF MoneyInv

\* Of calls that were all answered, only the last may have left a live charge.
LEMMA LiveIsLast ==
    ASSUME IndInv, RowIndInv, NEW id \in PayoutIDs, MoneyFor(id), AnswersKnown(id),
           NEW p \in Provider, Live(id, p)
    PROVE  attempts[id] # <<>> /\ Last(id).provider = p /\ Last(id).outcome = "ok"
<1>1. PICK i \in 1 .. Len(attempts[id]) : attempts[id][i].provider = p
  BY DEF RowIndInv, ChargeInv, Live, Charged
<1>2. attempts[id][i].outcome = "ok"
  BY <1>1 DEF MoneyFor, TriedFor, AnswersKnown
<1>3. attempts[id] # <<>> /\ Len(attempts[id]) \in Nat
  BY <1>1, AttemptsAreASequence
<1>4. i \notin 1 .. Len(attempts[id]) - 1
  BY <1>2, <1>3 DEF IndInv, FallbackFollowsRoute, Creates
<1>5. i = Len(attempts[id])
  BY <1>1, <1>3, <1>4
<1> QED
  BY <1>1, <1>2, <1>3, <1>5 DEF Last

\* For one key whose calls were answered there is at most one live charge.
LEMMA OneChargeOfKey ==
    ASSUME IndInv, RowIndInv, MoneyInv, NEW k \in Keys,
           \A r \in Creates : attempts[r] # <<>> /\ key(r) = k => AnswersKnown(r)
    PROVE  Cardinality(LiveCharges(k)) <= 1
<1>0. ASSUME NEW r \in Creates, NEW p \in Provider, Live(r, p), key(r) = k
      PROVE  attempts[r] # <<>> /\ Last(r).provider = p /\ idempotency_keys[k].payout_id = r
  <2>1. r \in PayoutIDs /\ Charged(r, p)
    BY <1>0 DEF Creates, RowIndInv, ChargeInv, Live
  <2>2. attempts[r] # <<>>
    BY <2>1, AttemptsAreASequence DEF Charged
  <2>3. MoneyFor(r) /\ AnswersKnown(r)
    BY <1>0, <2>1, <2>2 DEF MoneyInv
  <2>4. Last(r).provider = p
    BY <1>0, <2>1, <2>3, LiveIsLast
  <2>5. idempotency_keys[k] = [request_hash |-> canonicalHash[body(r)], payout_id |-> r]
    BY <1>0, <2>2, OneSenderFollows DEF OneSenderPerKey
  <2> QED
    BY <2>2, <2>4, <2>5
<1>1. ASSUME NEW x \in LiveCharges(k), NEW y \in LiveCharges(k)
      PROVE  x = y
  <2>1. PICK r \in Creates, p \in Provider : x = <<r, p>> /\ Live(r, p) /\ key(r) = k
    BY <1>1 DEF LiveCharges
  <2>2. PICK s \in Creates, q \in Provider : y = <<s, q>> /\ Live(s, q) /\ key(s) = k
    BY <1>1 DEF LiveCharges
  <2>3. Last(r).provider = p /\ idempotency_keys[k].payout_id = r
    BY <1>0, <2>1
  <2>4. Last(s).provider = q /\ idempotency_keys[k].payout_id = s
    BY <1>0, <2>2
  <2> QED
    BY <2>1, <2>2, <2>3, <2>4
<1>2. CASE LiveCharges(k) = {}
  BY <1>2, FS_EmptySet
<1>3. CASE LiveCharges(k) # {}
  <2>1. PICK x \in LiveCharges(k) : TRUE
    BY <1>3
  <2>2. LiveCharges(k) = {x}
    BY <1>1, <2>1
  <2>3. Cardinality({x}) = 1
    BY FS_Singleton
  <2> QED
    BY <2>2, <2>3
<1> QED
  BY <1>2, <1>3

\* The payout a key is bound to is the only one sent for it.
LEMMA OnlyLostFollows == IndInv /\ RowIndInv /\ MoneyInv => PaidTwiceOnlyIfLost
<1> SUFFICES ASSUME IndInv, RowIndInv, MoneyInv, NEW k \in Keys, Bound(k),
                    AnswersKnown(idempotency_keys[k].payout_id)
             PROVE  Cardinality(LiveCharges(k)) <= 1
  BY DEF PaidTwiceOnlyIfLost
<1>1. ASSUME NEW r \in Creates, attempts[r] # <<>>, key(r) = k
      PROVE  AnswersKnown(r)
  <2>1. idempotency_keys[k] = [request_hash |-> canonicalHash[body(r)], payout_id |-> r]
    BY <1>1, OneSenderFollows DEF OneSenderPerKey
  <2> QED
    BY <2>1
<1> QED
  BY <1>1, OneChargeOfKey

\* A failed payout whose calls were answered has no live charge anywhere.
LEMMA UnpaidPayout ==
    ASSUME IndInv, RowIndInv, NEW id \in PayoutIDs, MoneyFor(id), AnswersKnown(id),
           payouts[id].state = "failed", NEW p \in Provider
    PROVE  ~Live(id, p)
<1> SUFFICES ASSUME Live(id, p) PROVE FALSE
  OBVIOUS
<1>1. attempts[id] # <<>> /\ Last(id).provider = p /\ Last(id).outcome = "ok"
  BY LiveIsLast
<1>2. CASE payouts[id].external_id = Null
  <2>1. Len(attempts[id]) \in 1 .. Len(attempts[id])
    BY <1>1, AttemptsAreASequence
  <2> QED
    BY <1>1, <1>2, <2>1 DEF MoneyFor, FailedFor, AllFailed, Last
<1>3. CASE payouts[id].external_id # Null
  <2>1. charges[id][payouts[id].provider] = "failed" /\ payouts[id].provider = p
    BY <1>1, <1>3 DEF MoneyFor, FailedFor, RowIndInv, RowInv, RowOK
  <2> QED
    BY <2>1 DEF Live
<1> QED
  BY <1>2, <1>3

\* The three invariants hold together in every reachable state, whatever fails.
THEOREM MoneyInvariance ==
    ASSUME ~DirectUpdates
    PROVE  Spec => [](IndInv /\ RowIndInv /\ MoneyInv)
<1>1. Init => IndInv /\ RowIndInv /\ MoneyInv
  BY InitIndInv, InitRowIndInv, InitMoney
<1>2. IndInv /\ RowIndInv /\ MoneyInv /\ [Next]_vars => (IndInv /\ RowIndInv /\ MoneyInv)'
  BY NextIndInv, NextRowIndInv, NextMoneyInv
<1> QED
  BY <1>1, <1>2, PTL DEF Spec

\* A key whose payout was sent with calls that were all answered is paid for at
\* most once, whatever else fails (the fallback loop of SendPayoutWithFallback,
\* behind the transaction of CreatePayout).
THEOREM OnlyLostAnswersPayTwice ==
    ASSUME ~DirectUpdates
    PROVE  Spec => []PaidTwiceOnlyIfLost
BY MoneyInvariance, OnlyLostFollows, PTL

\* Where the answers of providers are not lost, every call was answered.
AllAnswered == \A id \in PayoutIDs : AnswersKnown(id)

LEMMA NoneLost ==
    ASSUME IndInv, RowIndInv, AllAnswered, "unknown" \notin Faults, [Next]_vars
    PROVE  AllAnswered'
<1> SUFFICES ASSUME NEW id \in PayoutIDs PROVE AnswersKnown(id)'
  BY DEF AllAnswered
<1>0. AnswersKnown(id)
  BY DEF AllAnswered
<1>1. ASSUME NEW r \in Creates, SendPayout(r)
      PROVE  AnswersKnown(id)'
  <2>1. PICK p \in Provider, out \in Outcome : out \in Outcomes(p) /\ TryProvider(r, rail(r), p, out)
    BY <1>1, SendStep
  <2>2. out # "unknown"
    BY <2>1 DEF Outcomes
  <2>3. /\ attempts[id] \in Seq(Attempt) /\ Len(attempts[id]) \in Nat
        /\ \/ attempts'[id] = attempts[id]
           \/ attempts'[id] = Append(attempts[id], [provider |-> p, outcome |-> out])
    BY <2>1, AttemptsAreASequence DEF TryProvider, IndInv, TypeOK, ProvidersTypeOK
  <2>4. CASE attempts'[id] = attempts[id]
    BY <1>0, <2>4 DEF AnswersKnown
  <2>5. CASE attempts'[id] = Append(attempts[id], [provider |-> p, outcome |-> out])
    <3>1. /\ Len(attempts'[id]) = Len(attempts[id]) + 1
          /\ attempts'[id][Len(attempts[id]) + 1].outcome = out
          /\ \A i \in 1 .. Len(attempts[id]) : attempts'[id][i] = attempts[id][i]
      BY <2>3, <2>5
    <3>2. \A i \in 1 .. Len(attempts'[id]) : i \in 1 .. Len(attempts[id]) \/ i = Len(attempts[id]) + 1
      BY <2>3, <3>1
    <3> QED
      BY <1>0, <2>2, <3>1, <3>2 DEF AnswersKnown
  <2> QED
    BY <2>3, <2>4, <2>5
<1>2. CASE UNCHANGED attempts
  BY <1>0, <1>2 DEF AnswersKnown
<1> QED
  BY <1>1, <1>2, OtherSteps

LEMMA NoAnswersLost ==
    ASSUME ~DirectUpdates, "unknown" \notin Faults
    PROVE  Spec => []AllAnswered
<1>1. Init => AllAnswered
  <2> SUFFICES ASSUME Init, NEW id \in PayoutIDs PROVE AnswersKnown(id)
    BY DEF AllAnswered
  <2>1. attempts[id] = <<>>
    BY DEF Init, ProvidersInit
  <2> QED
    BY <2>1 DEF AnswersKnown
<1>2. IndInv /\ RowIndInv /\ AllAnswered /\ [Next]_vars => AllAnswered'
  BY NoneLost
<1> QED
  BY <1>1, <1>2, MoneyInvariance, PTL DEF Spec

\* Over all providers and all payouts of an idempotency key, at most one charge
\* is open or paid.
THEOREM NoDoublePayment ==
    ASSUME ~DirectUpdates, "unknown" \notin Faults
    PROVE  Spec => []AtMostOneLiveCharge
<1>1. IndInv /\ RowIndInv /\ MoneyInv /\ AllAnswered => AtMostOneLiveCharge
  BY OneChargeOfKey DEF AtMostOneLiveCharge, AllAnswered, Creates
<1> QED
  BY <1>1, MoneyInvariance, NoAnswersLost, PTL

\* Nothing is open or paid for a payout that failed.
THEOREM FailedIsUnpaid ==
    ASSUME ~DirectUpdates, "unknown" \notin Faults
    PROVE  Spec => []FailedMeansUnpaid
<1>1. IndInv /\ RowIndInv /\ MoneyInv /\ AllAnswered => FailedMeansUnpaid
  BY UnpaidPayout DEF FailedMeansUnpaid, MoneyInv, AllAnswered
<1> QED
  BY <1>1, MoneyInvariance, NoAnswersLost, PTL

-----------------------------------------------------------------------------
(***************************************************************************)
(* The tracker's counters.  A call is a pair: the request and the try.     *)
(***************************************************************************)
IsCall(c, i, rl, p, ok) ==
    /\ rail(c) = rl
    /\ attempts[c][i].provider = p
    /\ (attempts[c][i].outcome = "ok") = ok

CallsAreTries ==
    \A rl, p, ok, e : e \in CallsTo(rl, p, ok) <=>
        \E c \in Creates : \E i \in 1 .. Len(attempts[c]) : e = <<c, i>> /\ IsCall(c, i, rl, p, ok)

\* Each counter is the number of its calls, of which there are finitely many.
Count(rl, p, ok) == IF ok THEN stats[<<rl, p>>].success ELSE stats[<<rl, p>>].fail

CountInv ==
    \A rl \in Rail, p \in Provider, ok \in BOOLEAN :
        IsFiniteSet(CallsTo(rl, p, ok)) /\ Count(rl, p, ok) = Cardinality(CallsTo(rl, p, ok))

LEMMA CallsMembers == IndInv => CallsAreTries
<1> SUFFICES ASSUME IndInv, NEW rl, NEW p, NEW ok
             PROVE  \A e : e \in CallsTo(rl, p, ok) <=>
                       \E c \in Creates : \E i \in 1 .. Len(attempts[c]) :
                           e = <<c, i>> /\ IsCall(c, i, rl, p, ok)
  BY DEF CallsAreTries
<1>1. ASSUME NEW c \in Creates
      PROVE  DOMAIN attempts[c] = 1 .. Len(attempts[c]) /\ (attempts[c] = <<>> => Len(attempts[c]) = 0)
  <2>1. attempts[c] \in Seq(Attempt)
    BY AttemptsAreASequence, CreateIsARequest
  <2> QED BY ONLY <2>1
<1>2. ASSUME NEW e, e \in CallsTo(rl, p, ok)
      PROVE  \E c \in Creates : \E i \in 1 .. Len(attempts[c]) :
                  e = <<c, i>> /\ IsCall(c, i, rl, p, ok)
  <2>1. \E c \in Creates : \E i \in DOMAIN attempts[c] :
            e = <<c, i>> /\ IsCall(c, i, rl, p, ok)
    BY ONLY <1>2 DEF CallsTo, IsCall
  <2> QED BY <1>1, <2>1
<1>3. ASSUME NEW c \in Creates, NEW i \in 1 .. Len(attempts[c]), IsCall(c, i, rl, p, ok)
      PROVE  <<c, i>> \in CallsTo(rl, p, ok)
  <2>1. attempts[c] # <<>> /\ i \in DOMAIN attempts[c]
    <3>1. i \in DOMAIN attempts[c]
      BY <1>1
    <3>2. Len(attempts[c]) # 0
      <4>1. Len(attempts[c]) \in Nat
        BY AttemptsAreASequence, CreateIsARequest
      <4> QED BY ONLY <4>1, i \in 1 .. Len(attempts[c])
    <3> QED BY <1>1, <3>1, <3>2
  <2> QED BY ONLY c \in Creates, <1>3, <2>1 DEF CallsTo, IsCall
<1> QED BY <1>2, <1>3

\* A step that tries no provider makes no call.
LEMMA CallsKept ==
    ASSUME UNCHANGED attempts,
           \A c \in Creates : attempts[c] # <<>> => rail(c)' = rail(c),
           NEW rl, NEW p, NEW ok
    PROVE  CallsTo(rl, p, ok)' = CallsTo(rl, p, ok)
<1>1. {c \in Creates : attempts'[c] # <<>> /\ rail(c)' = rl}
          = {c \in Creates : attempts[c] # <<>> /\ rail(c) = rl}
  OBVIOUS
<1> QED BY <1>1 DEF CallsTo, Creates

\* What a try counts as.
Counts(r, p, out, rl, q, ok) == rl = rail(r) /\ q = p /\ (out = "ok") = ok

OneMore(r, rl, q, ok, counts) ==
    LET e == <<r, Len(attempts[r]) + 1>>
    IN /\ e \notin CallsTo(rl, q, ok)
       /\ counts => CallsTo(rl, q, ok)' = CallsTo(rl, q, ok) \cup {e}
       /\ ~counts => CallsTo(rl, q, ok)' = CallsTo(rl, q, ok)

\* The fallback loop tries a provider: one call more for its rail, itself and
\* its outcome, and no other.
LEMMA CallsOfSend ==
    ASSUME IndInv, IndInv', NEW r \in Creates, NEW p \in Provider, NEW out \in Outcome,
           TryProvider(r, rail(r), p, out), UNCHANGED req,
           NEW rl, NEW q, NEW ok
    PROVE  OneMore(r, rl, q, ok, Counts(r, p, out, rl, q, ok))
<1>0. PICK n \in Nat : n = Len(attempts[r])
  BY CreateIsARequest, AttemptsAreASequence
<1> DEFINE e == <<r, n + 1>>
           mine == rl = rail(r) /\ q = p /\ (out = "ok") = ok
<1>1. r \in PayoutIDs /\ attempts[r] \in Seq(Attempt) /\ n = Len(attempts[r])
      /\ [provider |-> p, outcome |-> out] \in Attempt
  BY <1>0, CreateIsARequest, AttemptsAreASequence DEF Attempt
<1>2. /\ \A c \in Creates : c # r => attempts'[c] = attempts[c]
      /\ attempts'[r] = Append(attempts[r], [provider |-> p, outcome |-> out])
  BY <1>1 DEF TryProvider, IndInv, TypeOK, ProvidersTypeOK, Creates
<1>3. /\ Len(attempts'[r]) = n + 1
      /\ attempts'[r][n + 1].provider = p /\ attempts'[r][n + 1].outcome = out
      /\ \A i \in 1 .. n : attempts'[r][i] = attempts[r][i]
  BY <1>1, <1>2
<1>4. \A c : rail(c)' = rail(c)
  BY DEF rail, body
<1>5. CallsAreTries /\ CallsAreTries'
  <2>1. CallsAreTries
    BY CallsMembers
  <2>2. (IndInv => CallsAreTries)'
    BY CallsMembers, PTL
  <2> QED BY <2>1, <2>2
<1>6. e \notin CallsTo(rl, q, ok)
  <2>1. ASSUME NEW c \in Creates, NEW i \in 1 .. Len(attempts[c]), e = <<c, i>>
        PROVE  FALSE
    <3>1. c = r /\ i = n + 1
      BY <2>1
    <3> QED BY <1>1, <3>1
  <2> HIDE DEF e
  <2> QED BY <1>5, <2>1 DEF CallsAreTries
<1>7. ASSUME NEW c \in Creates, NEW i \in 1 .. Len(attempts[c]), IsCall(c, i, rl, q, ok)
      PROVE  <<c, i>> \in CallsTo(rl, q, ok)'
  <2>1. i \in 1 .. Len(attempts'[c]) /\ attempts'[c][i] = attempts[c][i]
    BY <1>1, <1>2, <1>3
  <2>2. IsCall(c, i, rl, q, ok)'
    BY <1>4, <1>7, <2>1 DEF IsCall
  <2>3. c \in Creates'
    BY DEF Creates
  <2> QED BY <1>5, <2>1, <2>2, <2>3 DEF CallsAreTries
<1>8. ASSUME mine
      PROVE  e \in CallsTo(rl, q, ok)'
  <2>1. n + 1 \in 1 .. Len(attempts'[r])
    BY <1>1, <1>3
  <2>2. IsCall(r, n + 1, rl, q, ok)'
    <3>1. rail(r)' = rl /\ attempts'[r][n + 1].provider = q /\ attempts'[r][n + 1].outcome = out
      BY <1>3, <1>4, <1>8
    <3>2. (out = "ok") = ok
      BY <1>8
    <3> QED BY ONLY <3>1, <3>2, Zenon DEF IsCall
  <2>3. r \in Creates'
    BY DEF Creates
  <2> QED BY <1>5, <2>1, <2>2, <2>3 DEF CallsAreTries
<1>9. ASSUME NEW c \in Creates, NEW i \in 1 .. Len(attempts'[c]), IsCall(c, i, rl, q, ok)'
      PROVE  <<c, i>> \in CallsTo(rl, q, ok) \/ (mine /\ <<c, i>> = e)
  <2>1. CASE c = r /\ i = n + 1
    <3>1. mine
      BY <1>3, <1>4, <1>9, <2>1 DEF IsCall
    <3> QED BY <2>1, <3>1
  <2>2. CASE ~(c = r /\ i = n + 1)
    <3>1. i \in 1 .. Len(attempts[c]) /\ attempts'[c][i] = attempts[c][i]
      BY <1>1, <1>2, <1>3, <2>2
    <3>2. IsCall(c, i, rl, q, ok)
      BY <1>4, <1>9, <3>1 DEF IsCall
    <3> QED BY <1>5, <3>1, <3>2 DEF CallsAreTries
  <2> QED BY <2>1, <2>2
<1> HIDE DEF e, mine
<1>10. CallsTo(rl, q, ok) \subseteq CallsTo(rl, q, ok)'
  BY <1>5, <1>7 DEF CallsAreTries
<1>11. \A d \in CallsTo(rl, q, ok)' : d \in CallsTo(rl, q, ok) \/ (mine /\ d = e)
  <2>1. Creates' = Creates
    BY DEF Creates
  <2> QED BY <1>5, <1>9, <2>1 DEF CallsAreTries
<1>12. /\ mine => CallsTo(rl, q, ok)' = CallsTo(rl, q, ok) \cup {e}
       /\ ~mine => CallsTo(rl, q, ok)' = CallsTo(rl, q, ok)
  BY ONLY <1>8, <1>10, <1>11
<1> QED BY ONLY <1>1, <1>6, <1>12 DEF e, mine, Counts, OneMore

\* Only the fallback loop makes a call, and only a restart forgets one.
LEMMA OtherStepsCallNobody ==
    ASSUME IndInv, [Next]_vars, "crash" \notin Faults
    PROVE  \/ \E r \in Creates : SendPayout(r)
           \/ /\ UNCHANGED <<attempts, stats>>
              /\ \A c \in Creates : attempts[c] # <<>> => rail(c)' = rail(c)
<1> DEFINE Quiet == /\ UNCHANGED <<attempts, stats>>
                    /\ \A c \in Creates : attempts[c] # <<>> => rail(c)' = rail(c)
<1>1. ASSUME UNCHANGED <<attempts, stats, req>>
      PROVE  Quiet
  BY <1>1 DEF rail, body
<1>2. ASSUME NEW r \in Creates, NEW k \in Keys, NEW b \in Bodies, BeginCreate(r, k, b)
      PROVE  Quiet
  <2>1. attempts[r] = <<>> /\ UNCHANGED <<attempts, stats>>
    BY <1>2 DEF BeginCreate, IndInv, RequestInv, providerVars
  <2>2. \A c \in Creates : c # r => req'[c] = req[c]
    BY <1>2 DEF BeginCreate, IndInv, TypeOK
  <2> QED BY <2>1, <2>2 DEF rail, body
<1>3. ASSUME NEW r \in Creates,
             \/ InsertKey(r) \/ FindKey(r) \/ SerializationFailure(r) \/ TxFails(r)
             \/ CommitTx(r) \/ Replay(r) \/ NoProviders(r)
             \/ RecordSent(r) \/ RecordFailed(r) \/ RecordRefused(r)
      PROVE  Quiet
  BY <1>1, <1>3 DEF InsertKey, FindKey, SerializationFailure, TxFails, CommitTx, Replay,
     NoProviders, RecordSent, RecordFailed, Record, RecordRefused, providerVars, localVars
<1>4. ASSUME NEW c \in Cancels, (\E id \in PayoutIDs : BeginCancel(c, id)) \/ CancelStep(c)
      PROVE  Quiet
  BY <1>1, <1>4 DEF BeginCancel, CancelStep, CancelWithProvider, CancelAtProvider, CancelInDB,
     providerVars, localVars
<1>5. ASSUME NEW u \in Updates, (\E e \in Notifications : BeginApply(u, e)) \/ ApplyUpdate(u)
      PROVE  Quiet
  BY <1>1, <1>5 DEF BeginApply, ApplyUpdate, providerVars, localVars
<1>6. ASSUME ProviderSettles \/ UNCHANGED vars
      PROVE  Quiet
  BY <1>1, <1>6 DEF ProviderSettles, Settle, vars, providerVars, localVars
<1>7. ~Crash
  BY DEF Crash
<1> HIDE DEF Quiet
<1>8. Quiet \/ \E r \in Creates : SendPayout(r)
  BY <1>2, <1>3, <1>4, <1>5, <1>6, <1>7 DEF Next, CreateStep
<1> QED BY <1>8 DEF Quiet

\* RecordSuccess or RecordFailure adds one to one counter.
LEMMA CounterOfSend ==
    ASSUME IndInv, NEW r \in Creates, rail(r) \in Rail, NEW p \in Provider, NEW out,
           RecordOutcome(rail(r), p, out),
           NEW rl \in Rail, NEW q \in Provider, NEW ok \in BOOLEAN
    PROVE  /\ Count(rl, q, ok) \in Nat
           /\ Counts(r, p, out, rl, q, ok) => Count(rl, q, ok)' = Count(rl, q, ok) + 1
           /\ ~Counts(r, p, out, rl, q, ok) => Count(rl, q, ok)' = Count(rl, q, ok)
<1>1. stats \in [Rail \X Provider -> Counter] /\ <<rail(r), p>> \in Rail \X Provider
      /\ <<rl, q>> \in Rail \X Provider
  BY DEF IndInv, TypeOK, ProvidersTypeOK
<1>2. stats[<<rl, q>>] \in Counter /\ (<<rl, q>> = <<rail(r), p>> <=> rl = rail(r) /\ q = p)
  BY <1>1
<1>3. CASE ok
  <2>1. Counts(r, p, out, rl, q, ok) <=> rl = rail(r) /\ q = p /\ out = "ok"
    BY <1>3 DEF Counts
  <2>2. Count(rl, q, ok) = stats[<<rl, q>>].success /\ Count(rl, q, ok)' = stats'[<<rl, q>>].success
    BY <1>3 DEF Count
  <2>3. stats'[<<rl, q>>].success = IF rl = rail(r) /\ q = p /\ out = "ok"
                                   THEN stats[<<rl, q>>].success + 1
                                   ELSE stats[<<rl, q>>].success
    BY <1>1, <1>2 DEF RecordOutcome, Counter
  <2>4. stats[<<rl, q>>].success \in Nat
    BY <1>2 DEF Counter
  <2> QED BY ONLY <2>1, <2>2, <2>3, <2>4
<1>4. CASE ~ok
  <2>1. Counts(r, p, out, rl, q, ok) <=> rl = rail(r) /\ q = p /\ out # "ok"
    BY <1>4 DEF Counts
  <2>2. Count(rl, q, ok) = stats[<<rl, q>>].fail /\ Count(rl, q, ok)' = stats'[<<rl, q>>].fail
    BY <1>4 DEF Count
  <2>3. stats'[<<rl, q>>].fail = IF rl = rail(r) /\ q = p /\ out # "ok"
                                THEN stats[<<rl, q>>].fail + 1
                                ELSE stats[<<rl, q>>].fail
    BY <1>1, <1>2 DEF RecordOutcome, Counter
  <2>4. stats[<<rl, q>>].fail \in Nat
    BY <1>2 DEF Counter
  <2> QED BY ONLY <2>1, <2>2, <2>3, <2>4
<1> QED BY <1>3, <1>4

LEMMA CountInvSend ==
    ASSUME IndInv, IndInv', CountInv, NEW r \in Creates, SendPayout(r)
    PROVE  CountInv'
<1>1. PICK p \in Provider, out \in Outcome : TryProvider(r, rail(r), p, out)
  BY SendStep
<1>2. UNCHANGED req /\ rail(r) \in Rail /\ RecordOutcome(rail(r), p, out)
  BY <1>1 DEF SendPayout, localVars, IndInv, RequestInv, Sending, SchemaRails, Rail, TryProvider
<1>3. ASSUME NEW rl \in Rail, NEW q \in Provider, NEW ok \in BOOLEAN
      PROVE  IsFiniteSet(CallsTo(rl, q, ok))' /\ Count(rl, q, ok)' = Cardinality(CallsTo(rl, q, ok))'
  <2>1. IsFiniteSet(CallsTo(rl, q, ok)) /\ Count(rl, q, ok) = Cardinality(CallsTo(rl, q, ok))
    BY DEF CountInv
  <2>2. OneMore(r, rl, q, ok, Counts(r, p, out, rl, q, ok))
    BY <1>1, <1>2, CallsOfSend
  <2> DEFINE e == <<r, Len(attempts[r]) + 1>>
  <2>3. /\ Counts(r, p, out, rl, q, ok) => Count(rl, q, ok)' = Count(rl, q, ok) + 1
        /\ ~Counts(r, p, out, rl, q, ok) => Count(rl, q, ok)' = Count(rl, q, ok)
    BY <1>2, CounterOfSend
  <2>4. /\ IsFiniteSet(CallsTo(rl, q, ok) \cup {e})
        /\ Cardinality(CallsTo(rl, q, ok) \cup {e}) = Cardinality(CallsTo(rl, q, ok)) + 1
    BY <2>1, <2>2, FS_AddElement DEF OneMore
  <2> QED BY ONLY <2>1, <2>2, <2>3, <2>4 DEF OneMore
<1> QED BY <1>3 DEF CountInv, Rail, Provider

LEMMA CountInvStep == IndInv /\ CountInv /\ [Next]_vars /\ "crash" \notin Faults => CountInv'
<1> SUFFICES ASSUME IndInv, CountInv, [Next]_vars, "crash" \notin Faults PROVE CountInv'
  OBVIOUS
<1>1. IndInv'
  BY NextIndInv
<1>2. CASE \E r \in Creates : SendPayout(r)
  BY <1>1, <1>2, CountInvSend
<1>3. CASE /\ UNCHANGED <<attempts, stats>>
           /\ \A c \in Creates : attempts[c] # <<>> => rail(c)' = rail(c)
  <2>1. ASSUME NEW rl \in Rail, NEW p \in Provider, NEW ok \in BOOLEAN
        PROVE  IsFiniteSet(CallsTo(rl, p, ok))' /\ Count(rl, p, ok)' = Cardinality(CallsTo(rl, p, ok))'
    <3>1. CallsTo(rl, p, ok)' = CallsTo(rl, p, ok)
      BY <1>3, CallsKept
    <3>2. Count(rl, p, ok)' = Count(rl, p, ok)
      BY <1>3 DEF Count
    <3>3. IsFiniteSet(CallsTo(rl, p, ok)) /\ Count(rl, p, ok) = Cardinality(CallsTo(rl, p, ok))
      BY DEF CountInv
    <3> QED BY ONLY <3>1, <3>2, <3>3
  <2> QED BY <2>1 DEF CountInv, Rail, Provider
<1> QED BY <1>2, <1>3, OtherStepsCallNobody

LEMMA CountInvInit == Init => CountInv
<1> SUFFICES ASSUME Init PROVE CountInv
  OBVIOUS
<1>1. \A rl, p, ok : CallsTo(rl, p, ok) = {}
  BY DEF CallsTo, Init, ProvidersInit, Creates
<1>2. \A rl \in Rail, p \in Provider, ok \in BOOLEAN : Count(rl, p, ok) = 0
  BY DEF Init, ProvidersInit, Count
<1> QED BY <1>1, <1>2, FS_EmptySet DEF CountInv

\* Until the process restarts, the tracker's counters say how many calls each
\* provider of a rail has answered and failed (RecordSuccess, RecordFailure),
\* whatever the requests, answers and faults of the database.
THEOREM StatsAreCalls ==
    ASSUME "crash" \notin Faults
    PROVE  Spec => []StatsCountCalls
<1>1. Init => IndInv /\ CountInv
  BY InitIndInv, CountInvInit
<1>2. IndInv /\ CountInv /\ [Next]_vars => (IndInv /\ CountInv)'
  BY NextIndInv, CountInvStep
<1>3. CountInv => StatsCountCalls
  <2> SUFFICES ASSUME CountInv, NEW rl \in Rail, NEW p \in Provider
               PROVE  /\ stats[<<rl, p>>].success = Cardinality(CallsTo(rl, p, TRUE))
                      /\ stats[<<rl, p>>].fail = Cardinality(CallsTo(rl, p, FALSE))
    BY DEF StatsCountCalls
  <2>1. \A ok \in BOOLEAN : Count(rl, p, ok) = Cardinality(CallsTo(rl, p, ok))
    BY DEF CountInv
  <2> QED BY ONLY <2>1, Zenon DEF Count
<1> QED BY <1>1, <1>2, <1>3, PTL DEF Spec

=============================================================================
