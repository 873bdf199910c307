# Verification of the payment orchestrator

TLA+ models of the payout services in `src/`, the TLC runs that check them on
small instances and proofs that TLAPS checks for every value of the constants.
`PROJECT.json` lists the components, runs, mutants, the map from definitions to
source lines, findings, hazards and theorems.

    tlc -workers 2 -config MCMoney.cfg MCPayoutService    # one run
    tlapm PayoutServiceProofs.tla                         # one proof module

## 1. The system

| component | state | operations | talks to |
|---|---|---|---|
| API service (`services/api`) | a token bucket in Redis | POST /v1/payouts, GET, cancel; rate limit in front | orchestrator (gRPC), Redis |
| Orchestrator handlers (`internal/grpc`) | none of its own | CreatePayout, GetPayout, CancelPayout, ApplyProviderUpdate | PostgreSQL, provider orchestrator |
| Persistence (`internal/persistence`, `db/migrations`) | tables `payouts`, `idempotency_keys` | six queries, one SERIALIZABLE transaction | PostgreSQL |
| Provider orchestrator (`internal/provider`) | registry, success tracker (mutex) | SendPayoutWithFallback, CancelPayout | Router, provider clients |
| Router (`provider/router.go`) | none; reads registry and tracker | SelectProviders (priority, weighted, success based) | registry, tracker |
| Provider clients (`provider/stripe`, `provider/mock`) | none | SendPayout, CancelPayout | Stripe; the mocks answer themselves |
| Webhook service (`services/webhook`) | deduplication keys in Redis | POST /v1/webhooks/stripe | Redis, orchestrator (gRPC) |
| start-up, configuration, observability, health | - | wiring, counters | - |

A create request inserts a payout and its idempotency key in one transaction;
the winner of the key sends the payout through the providers of its rail and
records the outcome in a second, separate statement. A loser replays or
reports a conflict. Cancels and provider notifications read the row, do
something slow (or nothing) and write the row. Stripe's results arrive later
through the webhook service, which marks an event as seen before forwarding it.

What is hard here: concurrent requests on one key; everything that happens
between the commit, the provider call and the second write (cancel,
notification, crash, lost answer, refused write); stale reads in cancel and
update; redelivered, reordered and early webhook events against a marker set
too early; a client that goes away and takes its context along; a tracker and
a token bucket that change while they are used.
The `hazards` of PROJECT.json place each of these at its line.

What makes the parts correct:

- handlers: one key means one payout and one body for ever; at most one request
  per key sends money; no row without a key; everybody is answered.
- rows: `completed` means paid, is final; `failed` means unpaid; the external id
  in the row is that of the call that succeeded.
- fallback: route order, each provider once, only after retryable errors.
- webhook: an event reaches the orchestrator at most once; nothing is dropped
  without an error answer somewhere; an applied success sticks.
- API: a client that retries its key until 202 or 409 deals with one payout;
  what it was shown is not taken back; a graceful stop ends and leaves nothing
  half done.
- router: every active provider exactly once, also when providers are switched
  meanwhile; draws in proportion to weights.
- rate limiter: never more than burst and refill in a window; never a refusal
  while a token is there.

## 2. Modules

| module | models |
|---|---|
| `PayoutStore` | the two tables, the queries, CHECK and UNIQUE constraints |
| `Providers` | registry, fallback loop step, tracker, clients; external charges and events |
| `PayoutService` | the handlers, one step per database or provider call; crash |
| `PayoutProperties` | their properties, the refinement mapping, the inductive invariant |
| `IdempotentCreate` | abstract: what an idempotency key promises |
| `PayoutLifeCycle` | abstract: the states a payout goes through, and what each says of its charge |
| `PayoutServiceProofs`, `KeyPromiseProofs`, `RowProofs`, `MoneyProofs` | theorems about `PayoutService`: keys and senders, the refinement of `IdempotentCreate`, rows and their charges with the refinement of `PayoutLifeCycle`, double payment and the tracker's counts |
| `Webhook` | the webhook service, composed with `PayoutService` |
| `WebhookProperties`, `WebhookProofs` | properties and theorems of the composition |
| `Gateway` | the API handlers, GetPayout and the graceful stop, composed with `PayoutService` |
| `GatewayProperties`, `GatewayProofs` | what a client may conclude, and theorems about it |
| `Router` | one call of SelectProviders, with the registry and the tracker changing meanwhile |
| `RouterProofs` | theorems about `Router` |
| `RateLimiter`, `RateLimiterProofs` | RateLimiter.Allow over Redis, with a clock; its bounds proved |
| `MC*` | small instances: constants and operators for the `.cfg` files |

### PayoutService and what it rests on

A create request is named by the UUID its INSERT generates, so payout `r` is
request `r`'s or nobody's. `pc[r]` is the call request `r` makes next:

| label | the code is about to | file:lines |
|---|---|---|
| insert_key | INSERT the key ON CONFLICT DO NOTHING (the payout's INSERT is done, its snapshot taken) | payout_service.go:93 |
| commit | COMMIT | tx.go:32 |
| replay | compare hashes, read the payout | payout_service.go:130-144 |
| send | call the next provider and record the outcome in the tracker | orchestrator.go:80-136 |
| record_sent, record_failed | UPDATE payouts | payout_service.go:178, 209 |
| cancel_provider, cancel_db | cancel at the provider, then in the table | payout_service.go:321, 333 |
| apply | UPDATE payouts with the mapped state | payout_service.go:369 |

PostgreSQL: a SERIALIZABLE transaction sees the snapshot of its first
statement (`visible`); an INSERT of a key that an open transaction holds waits
(`LockFree`); a key committed after the snapshot cannot be inserted or read and
raises 40001 (`SerializationFailure`). `RunInTx` does not retry.

Faults are switched by the constant `Faults`: `"db"` (any statement may fail
before or after it took effect), `"unknown"` (a provider executes a call and the
answer is lost), `"crash"` (the process stops between any two calls and starts
again; open transactions roll back, requests in progress are never answered).
Charges, settlement and events at the providers are external: Stripe settles an
accepted charge to succeeded or failed and emits an event that can be delivered
any number of times in any order; the mocks accept and emit nothing.

Bodies are opaque but for their rail and hash, SHA-256 is injective, timestamps
and logging are left out, and validation that answers before reading anything is
left out.

### Webhook

A delivery and the ApplyProviderUpdate call it may make share a name. `hook[d]`
is the next call: SETNX, EXPIRE, the gRPC call, waiting for its answer. A
delivered event keeps its Stripe type; what that type means (`StripeMeaning`) is
external and stated separately from the code's `mapEventType`. Faults: Redis
commands that fail before or after taking effect, calls that do not arrive or
whose answer is lost, keys that outlive their TTL, and a crash of the process.

### Gateway

An HTTP request and the gRPC call it makes share a name; a retry is a further
request with the same key. `http[q]` is where the HTTP side stands, `code[q]` the
status it answered with, `told[id]` what clients last learned of a payout (a 202
names it, a GET shows its row). A call may not arrive or its answer may be lost
(`NotReached`, `Respond`, for the calls in `Losable`): 502. The handlers pass the
request's context on, so when a caller goes away (`HangUp`, for the calls in
`Impatient`) every later statement of its handler may fail: `Handle` then takes the
step of `PayoutService` with all `Faults`, and with `CalmFaults` as long as the
caller waits (`Calm`, an INSTANCE of `PayoutService`). The answer of a provider may
be lost in either case, as Stripe's client has a timeout of its own (stripe.go:51).
`Terminate`, `GracefulStop` and `Restart` are the SIGTERM
branch of main and the next start, which forgets the tracker.

### Router, RateLimiter

`Router` starts from every registry and tracker a small instance has. The server
uses only the priority algorithm; the other two are modelled as the package
offers them, and so is `SetActive`. The registry has no lock: one iteration of
GetProviders is one step, and an entry may be switched between two of them. (With
two providers and a switch of each in the middle of a scan the result can be
empty although one of them was active at every moment; the code promises nothing
about that, and `EveryProviderOnce` speaks of providers that are not switched.)
One iteration of the exchange sort is one step, so that sends can be
recorded in between. `RateLimiter` counts tokens in thousandths and time in
milliseconds; `"%.2f"` rounds to hundredths; EXPIRE, whose result is ignored, is
a step of its own. `MCRate` has one request at a time: with two,
`AdmissionBounded` does not hold, which `MCRateRace` shows.

## 3. Properties

`TypeOK`, `HookTypeOK`, `GateTypeOK` are the type invariants. The others, by hazard:

- one key, one meaning: `AnswersAgreeWithKeys`, `RowsAndKeysMatch`,
  `OneSenderPerKey`, `KeepsTheKeyPromise` (refinement of `IdempotentCreate`);
- money: `AtMostOneLiveCharge`, `FailedMeansUnpaid` (both only where no provider
  answer is lost: with `"unknown"` they fail, which `MCAnswerLost` shows);
  `PaidTwiceOnlyIfLost`, with every fault, says that nothing else pays a key twice;
  `FallbackFollowsRoute`; `StatsCountCalls` (each outcome is counted once where it
  belongs: a call and its count are one step, as the tracker holds its mutex while
  it counts, so that a lost update is out of the model's reach);
- rows against charges: `RowNamesItsCharge`, `CompletedMeansPaid`,
  `CompletedIsFinal`, `CanceledReopensTruthfully`, `FollowsTheLifeCycle`
  (refinement of `PayoutLifeCycle`); ApplyProviderUpdate has no state guard, so
  what these say of contradicting notifications rests on a provider settling a
  charge once;
- progress: `EveryRequestAnswered`, `CreatedIsResolved`, `EveryDeliveryAnswered`,
  `DrainEnds`;
- API: `HttpKeepsTheKeyPromise` (`IdempotentCreate` again, spoken by 202 and 409),
  `ReadsDoNotGoBack`, `BadGatewayHasACause`, `StoppedIsClean`, `ToldFailedIsUnpaid`
  (a payout shown as failed can only be paid if the answer of a call made for that
  payout was lost, while its caller waited or not);
- webhook: `ForwardedAtMostOnce`, `DropsAreReported`, `AcknowledgedSuccessSticks`,
  `ImplementsPayoutService`;
- router: `EveryProviderOnce`, `BestFirst`, `OnlyTheSelectedMoves`,
  `WeightsAddUp`, `DrawIsProportional`;
- rate limiter: `AdmissionBounded`, `RefusedOnlyWhenSpent`.

Each has a mutant in PROJECT.json: a plausible bug in a mapped definition that
makes TLC report the property as violated under the same `.cfg`.

## 4. Runs

Passing:

| run | instance | checks |
|---|---|---|
| MCFaults | 2 creates on two rails, one without an active provider, 2 keys, a cancel, an update (also by UUID), every fault | IndInv, RowsAndKeysMatch, OneSenderPerKey, PaidTwiceOnlyIfLost |
| MCMoney | 3 creates on two rails, 2 keys, a cancel, 2 updates, no faults | TypeOK, AnswersAgreeWithKeys, KeepsTheKeyPromise, AtMostOneLiveCharge, FailedMeansUnpaid, StatsCountCalls, FallbackFollowsRoute |
| MCRow | 1 create (any rail, one of them unknown to the schema), 2 cancels, 3 updates, every fault | RowNamesItsCharge, CompletedMeansPaid, CompletedIsFinal, CanceledReopensTruthfully, FollowsTheLifeCycle |
| MCProgress | 2 creates on 1 key, a cancel, a delivery, a rail without an active provider; lost calls and answers, crashes of the orchestrator | EveryRequestAnswered, CreatedIsResolved, EveryDeliveryAnswered |
| MCWebhook | 1 create, a cancel, 3 deliveries, every webhook fault, orchestrator crashes | HookTypeOK, ForwardedAtMostOnce, DropsAreReported, AcknowledgedSuccessSticks, ImplementsPayoutService |
| MCRouter | 3 providers on or off and switched during the scan, weights 0, 30, 99, counters 0 and 1, minimum of 1 sample | TypeOK, EveryProviderOnce, BestFirst, OnlyTheSelectedMoves, WeightsAddUp, DrawIsProportional |
| MCRate | 1 handler, burst 2, 3 tokens/s, any Redis call may fail | TypeOK, AdmissionBounded, RefusedOnlyWhenSpent |
| MCGateway | 2 creates on 1 key and two rails, one without an active provider, a cancel, an update, reads; one create and the cancel may be lost or lose their caller; any answer of Stripe may be lost; stops and restarts | GateTypeOK, HttpKeepsTheKeyPromise, ReadsDoNotGoBack, BadGatewayHasACause, StoppedIsClean, ToldFailedIsUnpaid, DrainEnds |

Violations: the code does not do what a comment, a test or a document says.

| run | statement | what happens |
|---|---|---|
| MCAnswerLost | errors.go:3-4 "safely retry" | lost answer, fallback, two live charges |
| MCMockCard | orchestrator-local.yaml:21 and the test schema know mock_card | the CHECK refuses it; the charge is not recorded |
| MCRedelivery | demo.md:162-163 "Safe for at-least-once delivery" | event marked, forward fails, redelivery acknowledged and lost |
| MCRateRace | ratelimit.go:103 "check and decrement atomically" | two requests spend one token; old writes restore spent ones |

Five more disagreements are visible in the models and have no run of their own:
of two identical concurrent creates the loser is answered Internal
(`SerializationFailure`; payout_service_test.go:501 expects no error); a payout
in `sent` can be cancelled (`cancelableStates`; openapi.yaml:155-156 says it
cannot); the exchange sort is not stable for providers without enough samples
(`Swapped`; router.go:204, 237 say it is); an unset weight is a share of what is
left of 100 (`UnsetWeight`; config.go:42 says 50); an update that names a payout
by UUID (`DirectUpdates`) and read the row before the send was recorded resets
provider and external id (`ApplyUpdate`; payout_service.go:368 says "preserve
external_id and provider"). No service sends such an update, the handler only
accepts it.

Bounds. Requests are finite sets: a create, cancel, update or delivery happens
at most once per name, and each run's names are what its conflicts need. Three
creates give a winner, a waiter and a late replay on one key with another key
beside them; two cancels and three updates around one send give every order of a
stale reader, a writer and a notification on one row; payouts share nothing but
keys and the tracker, so one payout is enough for the row properties. The longest
route configured has two providers. Three providers are the least with which the sort
swaps elements that are not neighbours; the weights 0, 30 and 99 leave room, none, or less than
one per provider. `MaxCount`, `MaxTime`, `MaxServed`, `MaxLag` bound the tracker, the clock, the
requests let through and the time one check takes. `MaxTime` lies beyond `TTL`, so the bucket does expire.
In MCGateway one of the two creates has a caller that stays and a database that does
not fail, the other meets every fault: a retry beside a first attempt that was cut off. `Watched`
names the payouts clients ask for.
Payout ids, keys and deliveries, which nothing tells apart,
are permuted by symmetry where only safety is checked.

`CHECK_DEADLOCK FALSE`: requests end, and nobody has to call again.

## 5. Fairness

Weak fairness of each create, cancel, update and delivery once it has started: a
goroutine that can run does run, and every call it makes returns (database and
provider clients have timeouts, whose expiry is the fault branch of the step).
`InsertKey` can be disabled again and again by other transactions' locks, but an
instance has finitely many of them and each ends, so weak fairness is enough. No
fairness for callers, for settlement, for faults, for delivery of events, for
Redis expiry. `EveryRequestAnswered`
and `CreatedIsResolved` except the requests a crash has stopped: a crashed process
answers nobody. `GracefulStop` is fair once every call has
ended (`DrainEnds`); nobody has to send SIGTERM or start the process again.
`EveryDeliveryAnswered` is checked with crashes of the
orchestrator and none of the webhook process. `CreatedIsResolved` needs that no
database statement fails after the commit and that the schema knows the provider
(`MCMockCard` shows why).

## 6. Proofs

For any finite or infinite sets of requests, keys and bodies, any registry and any
faults, from the named assumptions in the modules that declare the constants
(disjoint names, `Null` outside the data, an injective hash, no provider twice on
a rail, the domains of functions):

- `Invariance`: `Spec => []IndInv`. Agreement of answers with keys is not
  inductive: whether a replay is right depends on what the request read
  (`ReplayInv`), that on keys never changing (`KeyInv`, `RequestInv`), that on the
  lock protecting a transaction at COMMIT (`LockInv`), and the route on where the
  loop stands (`RouteInv`). `IndInv` conjoins these; `MCFaults` checks it first.
  The proof has a lemma per handler and a step per conjunct it can disturb.
- `TypeCorrectness`, `KeyAgreement`, `NoOrphanRows`, `SingleSender`,
  `FallbackOrder`: consequences.
- `KeyPromise`: `Spec => KeepsTheKeyPromise`. CommitTx maps to Decide, SendPayout
  to Send, an OK to Accept, AlreadyExists to Refuse, everything else to a stutter.
- `HookImplements`: the composition with the webhook service refines
  `PayoutService` (safety); `HookInvariance` carries `IndInv` over.
- `AtMostOnce`: `HookSpec => []ForwardedAtMostOnce`, from an invariant that a
  delivery past SETNX owns its event's key as long as that key has not expired.

`RowProofs` assumes `~DirectUpdates`: an update by UUID writes a state without a
charge behind it, and no service sends one. Faults are free.

- `RowInvariance`: `IndInv` and `RowIndInv`. A row that is completed must have a
  paid charge, which rests on what updates in progress carry (`ApplyInv`: past its
  read an update has the reference the row still has and writes what has become of
  the charge), that on emitted events being true for ever (`EventInv`), that on a
  settled charge staying settled and no charge coming from nowhere (`ChargeInv`),
  and on a row having no reference while its request is still sending (`RowInv`).
- `RowsNameTheirCharge`, `CompletedIsPaid`: consequences.
- `CompletedStays`, `CanceledReopensOnlySo`, `LivesAsPromised`: what a step does.
  `StepMoves` shows that every step writes at most one row in one of six ways or
  settles one charge; each way is allowed by the action property and is a step of
  `PayoutLifeCycle` or a stutter.

`MoneyProofs` assumes `~DirectUpdates` too.

- `MoneyInvariance`, for every fault: a call that is known not to have succeeded
  leaves no live charge (`TriedFor`), a request gives up only when every call failed
  (`GaveUpFor`), and a row that says failed was given up or names a charge that
  failed (`FailedFor`).
- `OnlyLostAnswersPayTwice`: only a call answered with success or not at all can
  leave a live charge, and the loop goes on after neither an answered success nor
  a decline; with one sender per key, a key whose calls were all answered
  (`AnswersKnown`) has at most one.
- `NoDoublePayment`, `FailedIsUnpaid`: where `"unknown"` is not among the faults
  (`MCAnswerLost` is the counterexample otherwise), every call was answered.

`StatsAreCalls`, in the same module, assumes only that the process does not restart
(`"crash"` not among the faults; a restart forgets the tracker). `CountInv` says
that a counter is the cardinality of a finite set of attempts (`CallsTo`); one
step adds one attempt to one of these sets and one to its counter. The set of all
creates may be infinite, the sets of attempts never are.

The theorems on the life of an event, in `WebhookProofs`, need neither
`~DirectUpdates` nor reliable answers: the webhook service names payouts by
external id only.

- `DeliveryInvariance`: `IndInv`, `RowIndInv` and the invariant of `AtMostOnce`,
  with what is known of a delivery's status (`StatusInv`), of the update it makes
  (`CallInv`), and of the delivery that answers for an event whose key is in Redis
  or which was acknowledged (`TraceInv`).
- `HookTypeCorrectness`, `NoSilentDrop`, `SuccessSticks`,
  `CompletedIsPaidWithWebhook`: consequences.

`GatewayProofs`:

- `GateInvariance`: a step of `Calm` is a step of `PayoutService`, whose faults
  include the calm ones; a graceful stop and a restart change only the tracker.
  So `IndInv` carries over.
- `GateTypeCorrectness`, and `HttpKeyPromise`: every 202 and 409 repeats an answer
  of the orchestrator, so the refinement of `IdempotentCreate` carries over to the
  API, with Accept and Refuse moved to the HTTP answer.
- `ReadsGoForward` (under `~DirectUpdates`): what clients were told of a payout is
  kept by its row (`ToldInv`), because every way a row can move (`StepMoves`) keeps
  a reference and `completed` and never leads back to `created`.
- `BadGatewayExplained` assumes that `"db"` is not among `CalmFaults`: a statement
  that fails of its own accord explains a 502 by itself. A waiting caller's request
  then fails only by finding its key bound after its snapshot, so `CauseInv` says
  that such a request was in progress together with the one that bound the key and
  was marked as disturbed when the later of the two arrived.
- `StopLeavesNothingBehind` assumes the same, `~DirectUpdates`, and that the CHECK
  on `payouts.provider` knows every registered provider (`SchemaKnowsProviders`;
  `MCMockCard` shows why). A payout whose caller stayed is
  `created` only while its request sends (`CreatedInv`), because the UPDATE that
  records a send is always accepted (`RecordIsAccepted`, which needs the route and,
  for the UNIQUE reference, `RowInv`); and a call that was taken is in progress or
  answered (`TakenInv`).

- `ShownFailedUnpaid` and `ClientsPayTwiceOnlyIfLost` assume only `~DirectUpdates`;
  `MoneyInv` carries over, since a restart touches nothing it speaks of. A row that
  is shown as failed is past its send, which does not start again (`NotSentAgain`):
  no further call is made for it and nothing becomes open later (`GivenUpKept`), so
  if its calls were answered it stays unpaid (`ToldFailedInv`).

`RouterProofs`, for any number of providers and any weights and counters:

- `RouterInvariance`: the result holds names already read, each once, and of those
  never switched exactly the active ones (`ReadInv`); it is in configured order
  until an algorithm moves something, and after a draw all but its head is
  (`OrderInv`).
- `RouterTypeCorrectness`, `NobodyTwice`, `OthersKeepTheirOrder`: consequences,
  with a lemma that a swap and a move to the front permute a list.
- `SortedByRate`: the exchange sort sorts. Its loop invariant says that the first
  i - 1 places are final and that place i is not worse than those up to j - 1; it
  needs that comparing rates is transitive and asymmetric, which is shown from
  the counts.

- `EffectiveSumHundred`, `DrawsAreFair`: of any well-typed result. `Sum` is a fold,
  which the library defines by a recursive function over sets; that this function
  exists, and that what it yields has the equations of a running sum, is shown by
  induction (`UpFromZero` states it with a set, so that no operator has to be
  instantiated). Two functions with these equations agree (`RunningAgree`), so a
  sum is known as soon as one is named: for the shares `SumOfShares` names it, with
  the rest of the division at the first unset weight. The draws of
  provider n are an interval of running sums, whose cardinality is its weight.

`RateLimiterProofs`, for any rate, burst, TTL and clock step the assumption allows,
any loss of Redis calls and any time a check takes up to `MaxLag`:

- `LimiterTypes`, for any number of requests at once: the bucket never holds more
  than the burst nor less than nothing, rounding included.
- `AdmissionIsBounded` and `RefusalMeansSpent` assume one request at a time
  (`Handlers = {h}`), as the comment on the script (ratelimit.go:103) promises and
  the code does not ensure: `MCRateRace` is the counterexample otherwise.
- Admission is bounded by a potential (`Budget`): whatever request a window begins
  with, the tokens in the bucket, or in the hands of a request between its read
  and its write, are at most the burst and the refill of the window less
  what was taken in it, rounding allowed for, with one more burst for each bucket
  that died because its EXPIRE was lost (`Credit`). That the refill is linear in
  time and cut off at the burst gives each case; a hash that dies on
  time was full (`TTL * Rate` covers burst and lag).
- A refusal is justified by the opposite bound (`Rest`): the bucket is full, or for
  some window at least the burst and the refill less what was taken is there. A
  refusal therefore names a window that used everything up (`UsedUpInv`), and what
  was recorded then does not change.

Only model-checked: liveness, because TLAPS has no ENABLED: `EveryRequestAnswered`,
`CreatedIsResolved`, `EveryDeliveryAnswered`, `DrainEnds`. Every
other property of a passing run is a theorem.

## 7. Not modelled

Configuration and start-up (their result is the constants), the shutdown of the
API and webhook services (their HTTP servers time out and cut connections, which
`HangUp` and `HookCrash` stand for), observability, generated code, the deprecated
counters of the rate limiter, and requests refused before anything is read.
The providers, Redis, PostgreSQL and the network are modelled from how the code
uses them and marked external in the map.

## 8. Plan

Done in this order: PayoutStore, Providers, PayoutService with IdempotentCreate
and their proofs; Webhook and its proofs; Router; RateLimiter; PayoutLifeCycle,
RowProofs, MoneyProofs; Gateway and its proofs; RouterProofs with the sums;
RateLimiterProofs; the tracker's counts.

Next:

1. An abstract "every event takes effect" that a webhook marking events after
   forwarding would refine, to show what a repair of `MCRedelivery` has to keep.
2. Routing by success rate composed with concurrent sends, should the server use it.
