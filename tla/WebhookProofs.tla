--------------------------- MODULE WebhookProofs ---------------------------
(***************************************************************************)
(* The webhook service calls the orchestrator at most once per event,      *)
(* leaves it in the states PayoutService allows, and tells Stripe what is  *)
(* true: proofs for any number of payouts, cancels and deliveries and any  *)
(* combination of faults of both services.                                 *)
(***************************************************************************)
EXTENDS WebhookProperties, RowProofs

\* What a delivery that is past parsing relies on.
HookInv ==
    /\ hook \in [Deliveries -> HookLabel]
    /\ event \in [Deliveries -> StripeEvent \cup {Null}]
    /\ \A d \in Deliveries :
          /\ hook[d] \in {"idle", "setnx", "expire", "forward"} => ~Forwarded(d)
          /\ hook[d] \in {"setnx", "expire", "forward", "await"} =>
                Supported(event[d]) /\ Parse(event[d]) \in events

\* Unless the key expired, a delivery that took the key of its event is the
\* only one, and the key is still there.
Owns(d) == hook[d] \in {"expire", "forward", "await"} \/ Forwarded(d)

OwnerInv ==
    /\ \A d \in Deliveries : Owns(d) => event[d] \in dedup \cup expired
    /\ \A d, f \in Deliveries :
          Owns(d) /\ Owns(f) /\ event[d] = event[f] => d = f \/ event[d] \in expired

\* A delivery is one of the requests, and no other kind of request.
LEMMA DeliveryIsARequest ==
    ASSUME NEW d \in Deliveries
    PROVE  /\ d \in Requests /\ d \in Updates
           /\ \A r \in Creates \cup Cancels : r # d
BY KindsDiffer DEF Deliveries, Requests

\* A step of another request leaves delivery d's call where it is.
LEMMA OthersMove ==
    ASSUME IndInv, NEW r \in Requests, NEW label, NEW d \in Deliveries, r # d,
           pc' = [pc EXCEPT ![r] = label]
    PROVE  pc'[d] = pc[d]
BY DeliveryIsARequest DEF IndInv, TypeOK

\* The steps of create requests forget no event and start no call.
LEMMA CreateKeepsCalls ==
    ASSUME IndInv, NEW r \in Creates,
           CreateStep(r) \/ \E k \in Keys, b \in Bodies : BeginCreate(r, k, b)
    PROVE  /\ events \subseteq events'
           /\ \A d \in Deliveries : pc'[d] = pc[d]
<1>1. \E label : pc' = [pc EXCEPT ![r] = label]
  BY DEF CreateStep, BeginCreate, InsertKey, FindKey, SerializationFailure, CommitTx,
         TxFails, Replay, SendPayout, NoProviders, RecordSent, RecordFailed, Record,
         RecordRefused, Goto, Answer
<1>2. events \subseteq events'
  BY DEF CreateStep, BeginCreate, InsertKey, FindKey, SerializationFailure, CommitTx,
         TxFails, Replay, SendPayout, NoProviders, RecordSent, RecordFailed, Record,
         RecordRefused, TryProvider, providerVars
<1>3. r \in Requests /\ \A d \in Deliveries : r # d
  BY CreateIsARequest, DeliveryIsARequest
<1> QED
  BY <1>1, <1>2, <1>3, OthersMove

\* Nor do the steps of cancellations.
LEMMA CancelKeepsCalls ==
    ASSUME IndInv, NEW c \in Cancels,
           CancelStep(c) \/ \E id \in PayoutIDs : BeginCancel(c, id)
    PROVE  /\ events \subseteq events'
           /\ \A d \in Deliveries : pc'[d] = pc[d]
<1>1. \E label : pc' = [pc EXCEPT ![c] = label]
  BY DEF CancelStep, BeginCancel, CancelWithProvider, CancelInDB, Goto, Answer
<1>2. events \subseteq events'
  BY DEF CancelStep, BeginCancel, CancelWithProvider, CancelInDB, CancelAtProvider, providerVars
<1>3. c \in Requests /\ \A d \in Deliveries : c # d
  BY DeliveryIsARequest DEF Requests
<1> QED
  BY <1>1, <1>2, <1>3, OthersMove

\* No step of the orchestrator by itself forgets an event, or starts or takes
\* back a call of the webhook service.
LEMMA ServiceKeepsCalls ==
    ASSUME IndInv, ServiceStep
    PROVE  /\ events \subseteq events'
           /\ \A d \in Deliveries : Forwarded(d)' <=> Forwarded(d)
<1>1. ASSUME NEW u \in Updates, ApplyUpdate(u)
      PROVE  /\ events \subseteq events'
             /\ \A d \in Deliveries : Forwarded(d)' <=> Forwarded(d)
  <2>1. /\ pc[u] = "apply" /\ pc' = [pc EXCEPT ![u] = "done"] /\ events' = events
    BY <1>1 DEF ApplyUpdate, Answer, providerVars
  <2>2. u \in Requests /\ pc'[u] = "done"
    BY <2>1 DEF IndInv, TypeOK, Requests
  <2>3. \A d \in Deliveries : d # u => pc'[d] = pc[d]
    BY <2>1, <2>2, OthersMove
  <2> QED
    BY <2>1, <2>2, <2>3 DEF Forwarded
<1>2. CASE ProviderSettles
  BY <1>2 DEF ProviderSettles, Settle, Forwarded
<1>3. CASE Crash
  BY <1>3, DeliveryIsARequest DEF Crash, ForgetStats, InProgress, Forwarded
<1> QED
  BY <1>1, <1>2, <1>3, CreateKeepsCalls, CancelKeepsCalls DEF ServiceStep, Forwarded

\* Every step is one that PayoutService allows, or leaves it alone.
LEMMA HookStepIsAllowed ==
    ASSUME HookInv, [HookNext]_allVars
    PROVE  [Next]_vars
<1>1. ASSUME NEW d \in Deliveries, Forward(d) PROVE Next
  <2>1. Parse(event[d]) \in Notifications /\ d \in Updates
    BY <1>1 DEF Forward, HookInv, Notifications, Deliveries
  <2> QED
    BY <1>1, <2>1 DEF Forward, Next
<1>2. ASSUME NEW d \in Deliveries, Deliver(d) \/ HookStep(d), ~Forward(d)
      PROVE  UNCHANGED vars
  BY <1>2 DEF HookStep, Deliver, SetNX, Duplicate, DedupFails, Expire, NotReached, Respond
<1>3. CASE KeyExpires \/ HookCrash
  BY <1>3 DEF KeyExpires, HookCrash
<1>4. CASE ServiceStep
  BY <1>4 DEF ServiceStep, Next
<1>5. CASE UNCHANGED allVars
  BY <1>5 DEF allVars
<1> QED
  BY <1>1, <1>2, <1>3, <1>4, <1>5 DEF HookNext, HookStep

\* Deliver(d), HookStep(d) and the call of the orchestrator in it concern
\* delivery d only.
LEMMA DeliveryStep ==
    ASSUME IndInv, HookInv, NEW d \in Deliveries, Deliver(d) \/ HookStep(d)
    PROVE  /\ events' = events /\ expired' = expired
           /\ hook' \in [Deliveries -> HookLabel]
           /\ event' \in [Deliveries -> StripeEvent \cup {Null}]
           /\ \A f \in Deliveries : f # d =>
                 hook'[f] = hook[f] /\ event'[f] = event[f] /\ pc'[f] = pc[f]
           /\ \/ /\ hook'[d] \in {"setnx", "answered"} /\ pc' = pc /\ ~Forwarded(d)
                 /\ dedup' = dedup
                 /\ hook'[d] = "setnx" => Supported(event'[d]) /\ Parse(event'[d]) \in events
              \/ /\ hook[d] = "setnx" /\ hook'[d] \in {"expire", "answered"} /\ pc' = pc
                 /\ event' = event /\ dedup' \in {dedup, dedup \cup {event[d]}}
                 /\ hook'[d] = "expire" => event[d] \notin dedup /\ event[d] \in dedup'
              \/ /\ hook[d] = "expire" /\ hook'[d] = "forward"
                 /\ UNCHANGED <<pc, event, dedup>>
              \/ /\ hook[d] = "forward" /\ hook'[d] = "await"
                 /\ UNCHANGED <<event, dedup>>
              \/ /\ hook[d] \in {"forward", "await"} /\ hook'[d] = "answered"
                 /\ UNCHANGED <<pc, event, dedup>>
<1> USE DEF HookInv, HookLabel, Proceed, Write
<1>1. CASE Deliver(d)
  <2>1. PICK e \in Emitted : event' = [event EXCEPT ![d] = e]
           /\ \/ Supported(e) /\ Proceed(d, "setnx")
              \/ ~Supported(e) /\ Write(d, 200)
    BY <1>1 DEF Deliver
  <2>2. e \in StripeEvent /\ (Supported(e) => Parse(e) \in events)
    BY DEF Emitted, StripeMeaning, Supported, Parse, mapEventType
  <2>3. hook[d] = "idle" /\ UNCHANGED <<pc, events, dedup, expired>>
    BY <1>1 DEF Deliver, vars, providerVars
  <2> QED
    BY <2>1, <2>2, <2>3
<1>2. CASE SetNX(d) \/ Duplicate(d) \/ DedupFails(d)
  BY <1>2 DEF SetNX, Duplicate, DedupFails, vars, providerVars
<1>3. CASE Expire(d)
  BY <1>3 DEF Expire, vars, providerVars
<1>4. CASE Forward(d)
  <2>1. \E label : pc' = [pc EXCEPT ![d] = label]
    BY <1>4 DEF Forward, BeginApply, Goto, Answer
  <2>2. \A f \in Deliveries : f # d => pc'[f] = pc[f]
    BY <2>1, OthersMove, DeliveryIsARequest
  <2>3. /\ hook[d] = "forward" /\ hook' = [hook EXCEPT ![d] = "await"]
        /\ UNCHANGED <<events, event, dedup, expired>>
    BY <1>4 DEF Forward, BeginApply, providerVars
  <2> QED
    BY <2>2, <2>3
<1>5. CASE NotReached(d) \/ Respond(d)
  BY <1>5 DEF NotReached, Respond, vars, providerVars
<1> QED
  BY <1>1, <1>2, <1>3, <1>4, <1>5 DEF HookStep

\* HookInv is inductive together with the invariant of the orchestrator.
LEMMA HookInvInductive ==
    ASSUME IndInv, HookInv, [HookNext]_allVars
    PROVE  HookInv'
<1>1. ASSUME NEW d \in Deliveries, Deliver(d) \/ HookStep(d)
      PROVE  HookInv'
  <2>1. \A f \in Deliveries : f # d =>
           hook'[f] = hook[f] /\ event'[f] = event[f] /\ (Forwarded(f)' <=> Forwarded(f))
    BY <1>1, DeliveryStep DEF Forwarded
  <2>2. events' = events
    BY <1>1, DeliveryStep
  <2>3. hook'[d] \in {"idle", "setnx", "expire", "forward"} => ~Forwarded(d)'
    BY <1>1, DeliveryStep DEF HookInv, Forwarded
  <2>4. hook'[d] \in {"setnx", "expire", "forward", "await"} =>
           Supported(event'[d]) /\ Parse(event'[d]) \in events
    BY <1>1, DeliveryStep DEF HookInv
  <2>5. /\ hook' \in [Deliveries -> HookLabel]
        /\ event' \in [Deliveries -> StripeEvent \cup {Null}]
    BY <1>1, DeliveryStep
  <2>6. \A f \in Deliveries : Supported(event[f])' <=> Supported(event'[f])
    BY DEF Supported
  <2>7. \A f \in Deliveries : Parse(event[f])' = Parse(event'[f])
    BY DEF Parse
  <2> QED
    BY <2>1, <2>2, <2>3, <2>4, <2>5, <2>6, <2>7 DEF HookInv
<1>2. CASE KeyExpires
  BY <1>2 DEF KeyExpires, HookInv, vars, providerVars, Forwarded, Supported, Parse
<1>3. CASE HookCrash
  BY <1>3 DEF HookCrash, HookInv, HookLabel, vars, providerVars, Forwarded, Supported, Parse
<1>4. CASE ServiceStep
  <2>1. UNCHANGED hookVars
    BY <1>4 DEF ServiceStep
  <2> QED
    BY <1>4, <2>1, ServiceKeepsCalls DEF HookInv, hookVars, Supported, Parse
<1>5. CASE UNCHANGED allVars
  BY <1>5 DEF allVars, hookVars, vars, providerVars, HookInv, Forwarded, Supported, Parse
<1> QED
  BY <1>1, <1>2, <1>3, <1>4, <1>5 DEF HookNext

\* So is OwnerInv.
LEMMA OwnerInvInductive ==
    ASSUME IndInv, HookInv, OwnerInv, [HookNext]_allVars
    PROVE  OwnerInv'
<1>1. ASSUME NEW d \in Deliveries, Deliver(d) \/ HookStep(d)
      PROVE  OwnerInv'
  <2>1. \A f \in Deliveries : f # d => event'[f] = event[f] /\ (Owns(f)' <=> Owns(f))
    BY <1>1, DeliveryStep DEF Owns, Forwarded
  <2>2. dedup \subseteq dedup' /\ expired' = expired
    BY <1>1, DeliveryStep
  <2>3. \/ ~Owns(d)'
        \/ Owns(d) /\ event'[d] = event[d]
        \/ event'[d] = event[d] /\ event[d] \notin dedup /\ event[d] \in dedup'
    BY <1>1, DeliveryStep DEF Owns, Forwarded, HookInv
  <2> QED
    BY <2>1, <2>2, <2>3 DEF OwnerInv
<1>2. CASE HookCrash
  BY <1>2 DEF HookCrash, OwnerInv, Owns, Forwarded, HookInv, vars
<1>3. CASE ServiceStep
  <2>1. UNCHANGED hookVars
    BY <1>3 DEF ServiceStep
  <2>2. \A d \in Deliveries : Owns(d)' <=> Owns(d)
    BY <1>3, <2>1, ServiceKeepsCalls DEF Owns, hookVars
  <2> QED
    BY <2>1, <2>2 DEF OwnerInv, hookVars
<1>4. CASE UNCHANGED allVars
  BY <1>4 DEF allVars, hookVars, vars, OwnerInv, Owns, Forwarded
<1>5. CASE KeyExpires
  BY <1>5 DEF KeyExpires, OwnerInv, Owns, Forwarded, vars
<1> QED
  BY <1>1, <1>2, <1>3, <1>4, <1>5 DEF HookNext

\* Both hold initially.
LEMMA HookInitially == HookInit => IndInv /\ HookInv /\ OwnerInv
<1> SUFFICES ASSUME HookInit PROVE IndInv /\ HookInv /\ OwnerInv
  OBVIOUS
<1>1. IndInv
  BY InitIndInv DEF HookInit
<1>2. \A d \in Deliveries : pc[d] = "idle" /\ hook[d] = "idle"
  BY DeliveryIsARequest DEF HookInit, Init
<1> QED
  BY <1>1, <1>2 DEF HookInit, HookInv, OwnerInv, Owns, Forwarded, HookLabel

\* Driven by the webhook service, under any fault of it, the orchestrator does
\* what PayoutService allows.
THEOREM HookImplements == HookSpec => ImplementsPayoutService
<1>1. IndInv /\ HookInv /\ [HookNext]_allVars => IndInv' /\ HookInv' /\ [Next]_vars
  BY HookStepIsAllowed, HookInvInductive, NextIndInv
<1>2. HookInit => Init /\ IndInv /\ HookInv
  BY HookInitially DEF HookInit
<1> QED
  BY <1>1, <1>2, PTL DEF HookSpec, ImplementsPayoutService

\* Hence keys, rows and requests stay in step with the webhook service too.
THEOREM HookInvariance == HookSpec => []IndInv
<1>1. IndInv /\ HookInv /\ [HookNext]_allVars => IndInv' /\ HookInv'
  BY HookStepIsAllowed, HookInvInductive, NextIndInv
<1>2. HookInit => IndInv /\ HookInv
  BY HookInitially
<1> QED
  BY <1>1, <1>2, PTL DEF HookSpec

\* An event whose key does not expire is forwarded at most once, for any number
\* of concurrent and repeated deliveries, Redis errors, lost calls and crashes.
THEOREM AtMostOnce == HookSpec => []ForwardedAtMostOnce
<1>1. IndInv /\ HookInv /\ OwnerInv /\ [HookNext]_allVars => IndInv' /\ HookInv' /\ OwnerInv'
  BY HookStepIsAllowed, HookInvInductive, OwnerInvInductive, NextIndInv
<1>2. HookInit => IndInv /\ HookInv /\ OwnerInv
  BY HookInitially
<1>3. OwnerInv => ForwardedAtMostOnce
  BY DEF OwnerInv, ForwardedAtMostOnce, Owns
<1> QED
  BY <1>1, <1>2, <1>3, PTL DEF HookSpec

-----------------------------------------------------------------------------
(***************************************************************************)
(* What the answer to a delivery says of its event.                        *)
(***************************************************************************)
\* A delivery that arrived carries an event, and has a status once it is
\* answered and not before.
StatusInv ==
    /\ status \in [Deliveries -> {200, 500} \cup {Null}]
    /\ \A d \in Deliveries :
          /\ hook[d] # "idle" => event[d] \in StripeEvent
          /\ hook[d] # "answered" => status[d] = Null
    /\ dedup \subseteq StripeEvent /\ expired \subseteq StripeEvent
    /\ expiring \subseteq dedup

\* Delivery f answers for its event: it is at work, or left a trace.
Answers(f) ==
    \/ Applied(f)
    \/ hook[f] \in {"expire", "forward", "await", "lost"}
    \/ status[f] = 500

Covered(e) == \E f \in Deliveries : event[f] = e /\ Answers(f)

\* A key in Redis was put there by a delivery that answers for its event, and
\* so does some delivery for every event that was acknowledged.
TraceInv ==
    /\ \A e \in dedup : Covered(e)
    /\ \A d \in Deliveries : Acknowledged(d) => Covered(event[d])

\* A call that has read the payout is about to write what the event says to
\* the payout the event is about, and one that was applied did.
CallInv ==
    \A d \in Deliveries :
        /\ pc[d] = "apply" =>
              /\ seen[d].id = event[d].ref[2]
              /\ seen[d].to = mapProviderStatusToState[Parse(event[d]).status]
        /\ Applied(d) /\ event[d].type = "payment_intent_succeeded" =>
              payouts[event[d].ref[2]].state = "completed"

\* A delivery that is not answered yet has no status.
LEMMA NoStatusYet ==
    ASSUME StatusInv, NEW d \in Deliveries, hook[d] # "answered"
    PROVE  status[d] = Null /\ status[d] \notin {200, 500}
BY HookAssumption DEF StatusInv

\* A request that is done stays so, with its reply.
LEMMA DoneStays ==
    ASSUME IndInv, [Next]_vars, NEW q \in Requests, pc[q] = "done"
    PROVE  pc'[q] = "done" /\ reply'[q] = reply[q]
<1>1. ASSUME NEW r \in Requests, NEW label, NEW answer, pc[r] # "done",
             pc' = [pc EXCEPT ![r] = label],
             UNCHANGED reply \/ reply' = [reply EXCEPT ![r] = answer]
      PROVE  pc'[q] = "done" /\ reply'[q] = reply[q]
  BY <1>1 DEF IndInv, TypeOK
<1>2. ASSUME NEW r \in Creates,
             CreateStep(r) \/ \E k \in Keys, b \in Bodies : BeginCreate(r, k, b)
      PROVE  pc'[q] = "done" /\ reply'[q] = reply[q]
  <2>1. r \in Requests /\ pc[r] # "done"
    BY <1>2, CreateIsARequest DEF CreateStep, BeginCreate, InsertKey, FindKey,
       SerializationFailure, CommitTx, TxFails, Replay, SendPayout, NoProviders, RecordSent,
       RecordFailed, Record, RecordRefused
  <2>2. \E label, answer : /\ pc' = [pc EXCEPT ![r] = label]
                           /\ UNCHANGED reply \/ reply' = [reply EXCEPT ![r] = answer]
    BY <1>2 DEF CreateStep, BeginCreate, InsertKey, FindKey, SerializationFailure, CommitTx,
       TxFails, Replay, SendPayout, NoProviders, RecordSent, RecordFailed, Record,
       RecordRefused, Goto, Answer
  <2> QED
    BY <1>1, <2>1, <2>2
<1>3. ASSUME NEW c \in Cancels, CancelStep(c) \/ \E id \in PayoutIDs : BeginCancel(c, id)
      PROVE  pc'[q] = "done" /\ reply'[q] = reply[q]
  <2>1. c \in Requests /\ pc[c] # "done"
    BY <1>3 DEF CancelStep, BeginCancel, CancelWithProvider, CancelInDB, Requests
  <2>2. \E label, answer : /\ pc' = [pc EXCEPT ![c] = label]
                           /\ UNCHANGED reply \/ reply' = [reply EXCEPT ![c] = answer]
    BY <1>3 DEF CancelStep, BeginCancel, CancelWithProvider, CancelInDB, Goto, Answer
  <2> QED
    BY <1>1, <2>1, <2>2
<1>4. ASSUME NEW u \in Updates, ApplyUpdate(u) \/ \E e \in Notifications : BeginApply(u, e)
      PROVE  pc'[q] = "done" /\ reply'[q] = reply[q]
  <2>1. u \in Requests /\ pc[u] # "done"
    BY <1>4 DEF ApplyUpdate, BeginApply, Requests
  <2>2. \E label, answer : /\ pc' = [pc EXCEPT ![u] = label]
                           /\ UNCHANGED reply \/ reply' = [reply EXCEPT ![u] = answer]
    BY <1>4 DEF ApplyUpdate, BeginApply, Goto, Answer
  <2> QED
    BY <1>1, <2>1, <2>2
<1>5. CASE ProviderSettles
  BY <1>5 DEF ProviderSettles
<1>6. CASE Crash
  BY <1>6 DEF Crash, InProgress
<1>7. CASE UNCHANGED vars
  BY <1>7 DEF vars
<1> QED
  BY <1>2, <1>3, <1>4, <1>5, <1>6, <1>7 DEF Next

\* What a step of the webhook service does to the rows, the orchestrator does.
LEMMA HookKeepsRows ==
    ASSUME IndInv, HookInv, RowIndInv, [HookNext]_allVars
    PROVE  RowIndInv'
<1>1. ASSUME NEW d \in Deliveries, Forward(d) PROVE RowIndInv'
  <2>1. d \in Updates /\ Parse(event[d]) \in events /\ BeginApply(d, Parse(event[d]))
    BY <1>1, DeliveryIsARequest DEF Forward, HookInv
  <2> QED
    BY <2>1, ReadKeepsRows
<1>2. ASSUME ServiceStep \/ UNCHANGED vars PROVE RowIndInv'
  <2>1. ~ \E u \in Updates, e \in Notifications : BeginApply(u, e)
    <3>1. \A u \in Updates : Forwarded(u)' <=> Forwarded(u)
      BY <1>2, ServiceKeepsCalls DEF vars, Forwarded, Deliveries
    <3>2. ASSUME NEW u \in Updates, NEW e \in Notifications, BeginApply(u, e)
          PROVE  ~Forwarded(u) /\ Forwarded(u)'
      BY <3>2 DEF BeginApply, Goto, Answer, Forwarded, IndInv, TypeOK, Requests
    <3> QED
      BY <3>1, <3>2
  <2>2. [Next]_vars
    BY HookStepIsAllowed
  <2> QED
    BY <2>1, <2>2, StepKeepsRows
<1>3. ASSUME NEW d \in Deliveries, Deliver(d) \/ HookStep(d), ~Forward(d)
      PROVE  UNCHANGED vars
  BY <1>3 DEF HookStep, Deliver, SetNX, Duplicate, DedupFails, Expire, NotReached, Respond
<1>4. KeyExpires \/ HookCrash \/ UNCHANGED allVars => UNCHANGED vars
  BY DEF KeyExpires, HookCrash, allVars
<1> QED
  BY <1>1, <1>2, <1>3, <1>4 DEF HookNext, HookStep

\* The steps of one delivery change its own event and status only.
LEMMA StatusInvInductive ==
    ASSUME IndInv, HookInv, StatusInv, [HookNext]_allVars
    PROVE  StatusInv'
<1> USE DEF StatusInv
<1>1. ASSUME NEW d \in Deliveries, Deliver(d) PROVE StatusInv'
  <2>1. PICK e \in Emitted : event' = [event EXCEPT ![d] = e]
           /\ \/ Supported(e) /\ Proceed(d, "setnx")
              \/ ~Supported(e) /\ Write(d, 200)
    BY <1>1 DEF Deliver
  <2>2. e \in StripeEvent /\ UNCHANGED <<dedup, expiring, expired>> /\ hook[d] = "idle"
    BY <1>1 DEF Emitted, Deliver
  <2>3. /\ event'[d] = e
        /\ \A f \in Deliveries : f # d => event'[f] = event[f] /\ hook'[f] = hook[f]
                                                            /\ status'[f] = status[f]
        /\ \/ hook'[d] = "setnx" /\ status' = status
           \/ hook'[d] = "answered" /\ status' = [status EXCEPT ![d] = 200]
    BY <2>1 DEF Proceed, Write, HookInv
  <2> QED
    BY <2>2, <2>3
<1>2. ASSUME NEW d \in Deliveries, SetNX(d) \/ Duplicate(d) \/ DedupFails(d)
      PROVE  StatusInv'
  BY <1>2 DEF SetNX, Duplicate, DedupFails, Proceed, Write, HookInv
<1>3. ASSUME NEW d \in Deliveries, Expire(d) PROVE StatusInv'
  BY <1>3 DEF Expire, Proceed, HookInv
<1>4. ASSUME NEW d \in Deliveries, Forward(d) \/ NotReached(d) \/ Respond(d)
      PROVE  StatusInv'
  BY <1>4 DEF Forward, NotReached, Respond, Proceed, Write, HookInv
<1>5. CASE KeyExpires
  BY <1>5 DEF KeyExpires
<1>6. CASE HookCrash
  BY <1>6 DEF HookCrash, HookInv
<1>7. CASE ServiceStep \/ UNCHANGED allVars
  BY <1>7 DEF ServiceStep, allVars, hookVars
<1> QED
  BY <1>1, <1>2, <1>3, <1>4, <1>5, <1>6, <1>7 DEF HookNext, HookStep

\* A delivery that answers for its event goes on doing so.
LEMMA AnswersStays ==
    ASSUME IndInv, HookInv, StatusInv, [HookNext]_allVars,
           NEW f \in Deliveries, Answers(f)
    PROVE  event'[f] = event[f] /\ Answers(f)'
<1>1. /\ f \in Requests
      /\ Applied(f) => Applied(f)'
  <2>1. f \in Requests /\ [Next]_vars
    BY DeliveryIsARequest, HookStepIsAllowed
  <2> QED
    BY <2>1, DoneStays DEF Applied
<1>2. hook[f] # "idle" /\ hook[f] # "setnx"
  BY NoStatusYet DEF Answers, HookInv, Applied, Forwarded
<1>3. ASSUME NEW d \in Deliveries, Deliver(d) \/ HookStep(d), d # f
      PROVE  event'[f] = event[f] /\ hook'[f] = hook[f] /\ status'[f] = status[f]
  BY <1>3 DEF HookStep, Deliver, SetNX, Duplicate, DedupFails, Expire, Forward, NotReached,
     Respond, Proceed, Write, HookInv, StatusInv
<1>4. ASSUME Deliver(f) \/ HookStep(f)
      PROVE  event'[f] = event[f] /\ Answers(f)'
  <2>1. CASE Expire(f) \/ Forward(f)
    BY <2>1 DEF Expire, Forward, Proceed, HookInv, Answers
  <2>2. CASE NotReached(f)
    BY <2>2 DEF NotReached, Write, StatusInv, Answers
  <2>3. CASE Respond(f)
    BY <2>3 DEF Respond, Write, StatusInv, Answers, Applied, vars
  <2> QED
    BY <1>2, <1>4, <2>1, <2>2, <2>3 DEF Deliver, HookStep, SetNX, Duplicate, DedupFails
<1>5. CASE HookCrash
  BY <1>1, <1>5 DEF HookCrash, HookInv, Answers
<1>6. CASE KeyExpires \/ ServiceStep \/ UNCHANGED allVars
  BY <1>1, <1>6 DEF KeyExpires, ServiceStep, allVars, hookVars, Answers
<1> QED
  BY <1>1, <1>3, <1>4, <1>5, <1>6 DEF HookNext, Answers

\* Every key and every acknowledgement has a delivery that answers for it.
LEMMA TraceInvInductive ==
    ASSUME IndInv, HookInv, StatusInv, TraceInv, [HookNext]_allVars
    PROVE  TraceInv'
<1>1. ASSUME NEW e, Covered(e) PROVE Covered(e)'
  BY <1>1, AnswersStays DEF Covered
<1>2. ASSUME NEW d \in Deliveries, event'[d] = event[d], Answers(d)'
      PROVE  Covered(event[d])'
  BY <1>2 DEF Covered
<1>3. \A e \in dedup' : e \in dedup \/ \E d \in Deliveries :
         e = event[d] /\ event'[d] = event[d] /\ Answers(d)'
  <2>1. ASSUME NEW d \in Deliveries, SetNX(d)
        PROVE  /\ dedup' = dedup \cup {event[d]}
               /\ event'[d] = event[d] /\ Answers(d)'
    BY <2>1 DEF SetNX, Proceed, HookInv, Answers
  <2>2. ASSUME NEW d \in Deliveries, DedupFails(d)
        PROVE  /\ dedup' \subseteq dedup \cup {event[d]}
               /\ event'[d] = event[d] /\ Answers(d)'
    BY <2>2 DEF DedupFails, Write, StatusInv, Answers
  <2>3. ASSUME NEW d \in Deliveries, Deliver(d) \/ Duplicate(d) \/ Expire(d) \/ Forward(d)
                                      \/ NotReached(d) \/ Respond(d)
        PROVE  dedup' = dedup
    BY <2>3 DEF Deliver, Duplicate, Expire, Forward, NotReached, Respond
  <2>4. HookCrash \/ KeyExpires \/ ServiceStep \/ UNCHANGED allVars => dedup' \subseteq dedup
    BY DEF HookCrash, KeyExpires, ServiceStep, allVars, hookVars
  <2> QED
    BY <2>1, <2>2, <2>3, <2>4 DEF HookNext, HookStep
<1>4. \A d \in Deliveries : Acknowledged(d)' =>
         /\ event'[d] = event[d]
         /\ Acknowledged(d) \/ event[d] \in dedup \/ Answers(d)'
  <2>1. ASSUME NEW d \in Deliveries, NEW f \in Deliveries, f # d, Deliver(f) \/ HookStep(f)
        PROVE  event'[d] = event[d] /\ status'[d] = status[d]
    BY <2>1 DEF HookStep, Deliver, SetNX, Duplicate, DedupFails, Expire, Forward, NotReached,
       Respond, Proceed, Write, HookInv, StatusInv
  <2>2. ASSUME NEW d \in Deliveries, Deliver(d) PROVE ~Acknowledged(d)'
    <3>1. PICK e \in Emitted : event' = [event EXCEPT ![d] = e]
             /\ \/ Supported(e) /\ Proceed(d, "setnx")
                \/ ~Supported(e) /\ Write(d, 200)
      BY <2>2 DEF Deliver
    <3>2. event'[d] = e
      BY <3>1 DEF HookInv
    <3>3. CASE Supported(e) /\ Proceed(d, "setnx")
      <4>1. status'[d] = status[d] /\ status[d] # 200
        BY <2>2, <3>3, NoStatusYet DEF Deliver, Proceed
      <4> QED
        BY <4>1 DEF Acknowledged
    <3>4. CASE ~Supported(e)
      BY <3>2, <3>4 DEF Acknowledged, Supported
    <3> QED
      BY <3>1, <3>3, <3>4
  <2>3. ASSUME NEW d \in Deliveries, Duplicate(d)
        PROVE  event'[d] = event[d] /\ event[d] \in dedup
    BY <2>3 DEF Duplicate
  <2>4. ASSUME NEW d \in Deliveries, Respond(d) \/ NotReached(d) \/ DedupFails(d)
        PROVE  event'[d] = event[d] /\ (Acknowledged(d)' => Answers(d)')
    BY <2>4 DEF Respond, NotReached, DedupFails, Write, StatusInv, Acknowledged, Answers, Applied, vars
  <2>5. ASSUME NEW d \in Deliveries, SetNX(d) \/ Expire(d) \/ Forward(d)
        PROVE  event'[d] = event[d] /\ status'[d] = status[d]
    BY <2>5 DEF SetNX, Expire, Forward, Proceed
  <2>6. HookCrash \/ KeyExpires \/ ServiceStep \/ UNCHANGED allVars => UNCHANGED <<event, status>>
    BY DEF HookCrash, KeyExpires, ServiceStep, allVars, hookVars
  <2>7. ASSUME NEW d \in Deliveries, event'[d] = event[d], status'[d] = status[d]
        PROVE  Acknowledged(d)' => Acknowledged(d)
    BY <2>7 DEF Acknowledged, Supported
  <2> QED
    BY <2>1, <2>2, <2>3, <2>4, <2>5, <2>6, <2>7 DEF HookNext, HookStep
<1>5. \A e \in dedup' : Covered(e)'
  BY <1>1, <1>2, <1>3 DEF TraceInv
<1>6. ASSUME NEW d \in Deliveries, Acknowledged(d)'
      PROVE  Covered(event[d])'
  <2>1. event'[d] = event[d]
    BY <1>4, <1>6
  <2>2. Covered(event[d]) \/ Answers(d)'
    BY <1>4, <1>6 DEF TraceInv
  <2>3. ASSUME NEW e, e = event[d], Covered(e)
        PROVE  Covered(event[d])'
    <3>1. Covered(e)'
      BY <1>1, <2>3
    <3> QED
      BY <2>1, <2>3, <3>1 DEF Covered
  <2> QED
    BY <1>2, <2>1, <2>2, <2>3
<1> QED
  BY <1>5, <1>6 DEF TraceInv

\* The read of a call finds the payout of the event, and the write completes
\* that payout if the event says so.
LEMMA CallStep ==
    ASSUME IndInv, HookInv, StatusInv, RowIndInv, CallInv,
           NEW d \in Deliveries, Forward(d) \/ ApplyUpdate(d)
    PROVE  /\ pc'[d] = "apply" =>
                 /\ seen'[d].id = event[d].ref[2]
                 /\ seen'[d].to = mapProviderStatusToState[Parse(event[d]).status]
           /\ Applied(d)' /\ event[d].type = "payment_intent_succeeded" =>
                 payouts'[event[d].ref[2]].state = "completed"
           /\ \A f \in Deliveries : f # d => /\ pc'[f] = pc[f] /\ seen'[f] = seen[f]
                                             /\ reply'[f] = reply[f]
<1>1. d \in Updates /\ d \in Requests /\ Deliveries \subseteq Requests /\ Deliveries = Updates
  BY DeliveryIsARequest DEF Deliveries
<1>2. CASE Forward(d)
  <2>1. Parse(event[d]) \in events /\ BeginApply(d, Parse(event[d]))
    BY <1>2 DEF Forward, HookInv
  <2>2. /\ pc' = [pc EXCEPT ![d] = pc'[d]] /\ reply' = [reply EXCEPT ![d] = reply'[d]]
        /\ seen' = [seen EXCEPT ![d] = seen'[d]]
        /\ pc'[d] \in {"apply", "done"}
        /\ pc'[d] = "done" => reply'[d].code # "OK"
    BY <1>1, <2>1 DEF BeginApply, Goto, Answer, IndInv, TypeOK
  <2>3. ASSUME pc'[d] = "apply"
        PROVE  /\ seen'[d].id = event[d].ref[2]
               /\ seen'[d].to = mapProviderStatusToState[Parse(event[d]).status]
    <3>1. PICK id \in findPayoutByExternalIDOrID(Parse(event[d]).ref) :
             seen' = [seen EXCEPT ![d] =
                [id |-> id, row |-> payouts[id],
                 to |-> mapProviderStatusToState[Parse(event[d]).status]]]
      BY <1>1, <2>1, <2>3 DEF BeginApply, Answer, IndInv, TypeOK
    <3>2. seen'[d].id = id /\ seen'[d].to = mapProviderStatusToState[Parse(event[d]).status]
      BY <1>1, <3>1 DEF IndInv, TypeOK
    <3>3. /\ Parse(event[d]).ref = event[d].ref
          /\ event[d].ref \in ExternalID /\ event[d].ref \notin PayoutIDs
      BY <2>1, StoreAssumption DEF Parse, IndInv, TypeOK, ProvidersTypeOK, Event
    <3>4. id \in PayoutIDs /\ payouts[id].external_id = event[d].ref
      BY <3>1, <3>3 DEF findPayoutByExternalIDOrID, FindByExternalID
    <3>5. event[d].ref = <<payouts[id].provider, id>>
      BY <3>3, <3>4, NullIsNoValue DEF RowIndInv, RowInv, RowOK
    <3> QED
      BY <3>2, <3>5
  <2>4. ~Applied(d)' \/ pc'[d] = "apply"
    BY <2>2 DEF Applied
  <2>5. pc'[d] = "apply" => ~Applied(d)'
    BY DEF Applied
  <2>6. \A f \in Deliveries : f # d => /\ pc'[f] = pc[f] /\ seen'[f] = seen[f]
                                      /\ reply'[f] = reply[f]
    BY <1>1, <2>2 DEF IndInv, TypeOK
  <2> QED
    BY <2>3, <2>4, <2>5, <2>6
<1>3. CASE ApplyUpdate(d)
  <2>1. /\ pc[d] = "apply" /\ pc' = [pc EXCEPT ![d] = "done"] /\ UNCHANGED seen
        /\ reply' = [reply EXCEPT ![d] = reply'[d]]
    BY <1>1, <1>3 DEF ApplyUpdate, Answer, localVars, IndInv, TypeOK
  <2>2. pc'[d] = "done" /\ \A f \in Deliveries : f # d =>
                                pc'[f] = pc[f] /\ reply'[f] = reply[f]
    BY <1>1, <2>1 DEF IndInv, TypeOK
  <2>3. ASSUME Applied(d)', event[d].type = "payment_intent_succeeded"
        PROVE  payouts'[event[d].ref[2]].state = "completed"
    <3>1. reply'[d].code = "OK"
      BY <2>3 DEF Applied
    <3>2. UpdatePayoutState(seen[d].id, seen[d].to, seen[d].row.external_id, seen[d].row.provider)
      BY <1>1, <1>3, <3>1 DEF ApplyUpdate, Answer, IndInv, TypeOK
    <3>3. /\ seen[d].id = event[d].ref[2]
          /\ seen[d].to = mapProviderStatusToState[Parse(event[d]).status]
      BY <2>1 DEF CallInv
    <3>4. seen[d].to = "completed"
      BY <2>3, <3>3 DEF Parse, mapEventType, mapProviderStatusToState
    <3>5. seen[d].id \in PayoutIDs
      BY <1>1, <2>1 DEF IndInv, TypeOK, SeenInv, Observation
    <3>6. \A id \in PayoutIDs : payouts[id] \in Row /\ payouts \in [PayoutIDs -> Row]
      BY DEF IndInv, TypeOK, StoreTypeOK
    <3>7. payouts'[seen[d].id].state = seen[d].to
      BY <3>2, <3>5, <3>6 DEF UpdatePayoutState, Row
    <3> QED
      BY <3>3, <3>4, <3>7
  <2> QED
    BY <2>1, <2>2, <2>3
<1> QED
  BY <1>2, <1>3

\* Other steps leave the calls of the webhook service alone.
LEMMA CallsUntouched ==
    ASSUME IndInv, HookInv, [HookNext]_allVars, NEW d \in Deliveries,
           ~Forward(d), ~ApplyUpdate(d)
    PROVE  \/ pc'[d] = pc[d] /\ seen'[d] = seen[d] /\ reply'[d] = reply[d]
           \/ pc'[d] = "lost"
<1>1. d \in Updates /\ d \in Requests /\ d \in Cancels \cup Updates /\ d \notin Creates \cup Cancels
  BY DeliveryIsARequest
<1>2. ASSUME NEW r \in Requests, NEW label, NEW answer, NEW read, r # d,
             pc' = [pc EXCEPT ![r] = label],
             UNCHANGED reply \/ reply' = [reply EXCEPT ![r] = answer],
             UNCHANGED seen \/ seen' = [seen EXCEPT ![r] = read]
      PROVE  pc'[d] = pc[d] /\ seen'[d] = seen[d] /\ reply'[d] = reply[d]
  BY <1>1, <1>2 DEF IndInv, TypeOK
<1>3. ASSUME NEW r \in Creates,
             CreateStep(r) \/ \E k \in Keys, b \in Bodies : BeginCreate(r, k, b)
      PROVE  pc'[d] = pc[d] /\ seen'[d] = seen[d] /\ reply'[d] = reply[d]
  <2>1. r \in Requests /\ r # d
    BY <1>1, CreateIsARequest
  <2>2. UNCHANGED seen /\ \E label, answer :
           /\ pc' = [pc EXCEPT ![r] = label]
           /\ UNCHANGED reply \/ reply' = [reply EXCEPT ![r] = answer]
    BY <1>3 DEF CreateStep, BeginCreate, InsertKey, FindKey, SerializationFailure, CommitTx,
       TxFails, Replay, SendPayout, NoProviders, RecordSent, RecordFailed, Record,
       RecordRefused, Goto, Answer, localVars
  <2> QED
    BY <1>2, <2>1, <2>2
<1>4. ASSUME NEW c \in Cancels, CancelStep(c) \/ \E id \in PayoutIDs : BeginCancel(c, id)
      PROVE  pc'[d] = pc[d] /\ seen'[d] = seen[d] /\ reply'[d] = reply[d]
  <2>1. c \in Requests /\ c # d
    BY <1>1 DEF Requests
  <2>2. \E label, answer, read :
           /\ pc' = [pc EXCEPT ![c] = label]
           /\ UNCHANGED reply \/ reply' = [reply EXCEPT ![c] = answer]
           /\ UNCHANGED seen \/ seen' = [seen EXCEPT ![c] = read]
    BY <1>4 DEF CancelStep, BeginCancel, CancelWithProvider, CancelInDB, Goto, Answer, localVars
  <2> QED
    BY <1>2, <2>1, <2>2
<1>5. ASSUME NEW u \in Updates, u # d,
             ApplyUpdate(u) \/ \E e : BeginApply(u, e)
      PROVE  pc'[d] = pc[d] /\ seen'[d] = seen[d] /\ reply'[d] = reply[d]
  <2>1. u \in Requests
    BY DEF Requests
  <2>2. \E label, answer, read :
           /\ pc' = [pc EXCEPT ![u] = label]
           /\ UNCHANGED reply \/ reply' = [reply EXCEPT ![u] = answer]
           /\ UNCHANGED seen \/ seen' = [seen EXCEPT ![u] = read]
    BY <1>5 DEF ApplyUpdate, BeginApply, Goto, Answer, localVars
  <2> QED
    BY <1>2, <1>5, <2>1, <2>2
<1>6. ASSUME ProviderSettles
      PROVE  pc'[d] = pc[d] /\ seen'[d] = seen[d] /\ reply'[d] = reply[d]
  BY <1>6 DEF ProviderSettles, localVars
<1>7. ASSUME Crash
      PROVE  \/ pc'[d] = pc[d] /\ seen'[d] = seen[d] /\ reply'[d] = reply[d]
             \/ pc'[d] = "lost"
  BY <1>1, <1>7 DEF Crash, localVars
<1>8. ASSUME UNCHANGED vars
      PROVE  pc'[d] = pc[d] /\ seen'[d] = seen[d] /\ reply'[d] = reply[d]
  BY <1>8 DEF vars, localVars
<1>9. CASE ServiceStep
  BY <1>3, <1>4, <1>5, <1>6, <1>7, <1>9 DEF ServiceStep
<1>10. ASSUME NEW f \in Deliveries, Forward(f)
       PROVE  pc'[d] = pc[d] /\ seen'[d] = seen[d] /\ reply'[d] = reply[d]
  <2>1. f \in Updates /\ f # d /\ BeginApply(f, Parse(event[f]))
    BY <1>10, DeliveryIsARequest DEF Forward
  <2> QED
    BY <1>5, <2>1
<1>11. ASSUME NEW f \in Deliveries, Deliver(f) \/ HookStep(f), ~Forward(f)
       PROVE  UNCHANGED vars
  BY <1>11 DEF HookStep, Deliver, SetNX, Duplicate, DedupFails, Expire, NotReached, Respond
<1>12. KeyExpires \/ HookCrash \/ UNCHANGED allVars => UNCHANGED vars
  BY DEF KeyExpires, HookCrash, allVars
<1> QED
  BY <1>8, <1>9, <1>10, <1>11, <1>12 DEF HookNext, HookStep

\* Calls go on to do what their events say.
LEMMA CallInvInductive ==
    ASSUME IndInv, HookInv, StatusInv, RowIndInv, CallInv, [HookNext]_allVars
    PROVE  CallInv'
<1>1. ASSUME NEW d \in Deliveries
      PROVE  /\ pc'[d] = "apply" =>
                   /\ seen'[d].id = event'[d].ref[2]
                   /\ seen'[d].to = mapProviderStatusToState[Parse(event'[d]).status]
             /\ Applied(d)' /\ event'[d].type = "payment_intent_succeeded" =>
                   payouts'[event'[d].ref[2]].state = "completed"
  <2>1. CASE Forward(d) \/ ApplyUpdate(d)
    <3>1. event'[d] = event[d]
      <4>1. CASE Forward(d)
        BY <4>1 DEF Forward
      <4>2. CASE ApplyUpdate(d)
        <5>1. hook[d] # "idle"
          BY <4>2 DEF ApplyUpdate, HookInv, Forwarded
        <5> QED
          BY <5>1 DEF HookNext, HookStep, Deliver, SetNX, Duplicate, DedupFails, Expire, Forward,
             NotReached, Respond, KeyExpires, HookCrash, ServiceStep, hookVars, allVars, HookInv
      <4> QED
        BY <2>1, <4>1, <4>2
    <3> QED
      BY <2>1, <3>1, CallStep
  <2>2. CASE ~Forward(d) /\ ~ApplyUpdate(d) /\ Forwarded(d)
    <3>1. event'[d] = event[d]
      <4>1. hook[d] # "idle"
        BY <2>2 DEF HookInv
      <4> QED
        BY <4>1 DEF HookNext, HookStep, Deliver, SetNX, Duplicate, DedupFails, Expire, Forward,
           NotReached, Respond, KeyExpires, HookCrash, ServiceStep, hookVars, allVars, HookInv
    <3>2. \/ pc'[d] = pc[d] /\ seen'[d] = seen[d] /\ reply'[d] = reply[d]
          \/ pc'[d] = "lost"
      BY <2>2, CallsUntouched
    <3>3. CASE pc'[d] = "lost"
      BY <3>3 DEF Applied
    <3>4. CASE pc'[d] = pc[d] /\ seen'[d] = seen[d] /\ reply'[d] = reply[d]
      <4>1. ASSUME Applied(d), event[d].type = "payment_intent_succeeded"
            PROVE  payouts'[event[d].ref[2]].state = "completed"
        <5>1. payouts[event[d].ref[2]].state = "completed"
          BY <4>1 DEF CallInv
        <5>2. event[d].ref[2] \in PayoutIDs
          <6>1. event[d] \in StripeEvent
            BY <2>2 DEF HookInv, StatusInv
          <6> QED
            BY <6>1 DEF StripeEvent, ExternalID
        <5>3. [Next]_vars
          BY HookStepIsAllowed
        <5> QED
          BY <5>1, <5>2, <5>3, CompletedKept
      <4> QED
        BY <3>1, <3>4, <4>1 DEF CallInv, Applied
    <3> QED
      BY <3>2, <3>3, <3>4
  <2>3. CASE ~Forward(d) /\ ~ApplyUpdate(d) /\ ~Forwarded(d)
    <3>1. pc'[d] \in {"idle", "lost"}
      BY <2>3, CallsUntouched DEF Forwarded
    <3> QED
      BY <3>1 DEF Applied
  <2> QED
    BY <2>1, <2>2, <2>3
<1>2. \A d \in Deliveries : Parse(event[d])' = Parse(event'[d])
  BY DEF Parse
<1> QED
  BY <1>1, <1>2 DEF CallInv

\* The whole of what the two services keep together.
DeliveryInv == IndInv /\ HookInv /\ StatusInv /\ TraceInv /\ RowIndInv /\ CallInv

\* It holds before anything is delivered.
LEMMA DeliveryInitially == HookInit => DeliveryInv
<1> SUFFICES ASSUME HookInit PROVE DeliveryInv
  OBVIOUS
<1>1. IndInv /\ HookInv /\ RowIndInv
  BY HookInitially, InitRowIndInv DEF HookInit
<1>2. \A d \in Deliveries : pc[d] = "idle" /\ hook[d] = "idle" /\ status[d] = Null
  BY DeliveryIsARequest DEF HookInit, Init
<1>3. StatusInv
  BY <1>2 DEF HookInit, StatusInv
<1>4. TraceInv
  BY <1>2, HookAssumption DEF HookInit, TraceInv, Acknowledged
<1>5. CallInv
  BY <1>2 DEF CallInv, Applied
<1> QED
  BY <1>1, <1>3, <1>4, <1>5 DEF DeliveryInv

\* The webhook service, its keys, its calls and the orchestrator stay in step.
THEOREM DeliveryInvariance == HookSpec => []DeliveryInv
<1>1. DeliveryInv /\ [HookNext]_allVars => DeliveryInv'
  BY HookStepIsAllowed, NextIndInv, HookInvInductive, StatusInvInductive, TraceInvInductive,
     HookKeepsRows, CallInvInductive DEF DeliveryInv
<1> QED
  BY <1>1, DeliveryInitially, PTL DEF HookSpec

\* The variables of the webhook service and its keys keep their types.
THEOREM HookTypeCorrectness == HookSpec => []HookTypeOK
<1>1. DeliveryInv => HookTypeOK
  BY DEF DeliveryInv, HookInv, StatusInv, HookTypeOK
<1> QED
  BY <1>1, DeliveryInvariance, PTL

\* No event that Stripe was told to forget is dropped without a trace.
THEOREM NoSilentDrop == HookSpec => []DropsAreReported
<1>1. DeliveryInv => DropsAreReported
  <2> SUFFICES ASSUME DeliveryInv, NEW d \in Deliveries, Acknowledged(d)
               PROVE  \E f \in Deliveries :
                         /\ event[f] = event[d]
                         /\ \/ Applied(f)
                            \/ hook[f] \in {"expire", "forward", "await", "lost"}
                            \/ status[f] = 500
    BY DEF DropsAreReported
  <2> QED
    BY DEF DeliveryInv, TraceInv, Covered, Answers
<1> QED
  BY <1>1, DeliveryInvariance, PTL

\* An acknowledged success that was applied is never undone.
THEOREM SuccessSticks == HookSpec => []AcknowledgedSuccessSticks
<1>1. DeliveryInv => AcknowledgedSuccessSticks
  BY DEF DeliveryInv, CallInv, AcknowledgedSuccessSticks
<1> QED
  BY <1>1, DeliveryInvariance, PTL

\* With the webhook service as the only caller of ApplyProviderUpdate a payout
\* is completed only when its provider has paid.
THEOREM CompletedIsPaidWithWebhook == HookSpec => []CompletedMeansPaid
<1>1. DeliveryInv => CompletedMeansPaid
  BY CompletedFollows DEF DeliveryInv
<1> QED
  BY <1>1, DeliveryInvariance, PTL

=============================================================================
