---------------------------- MODULE RateLimiter ----------------------------
(***************************************************************************)
(* RateLimiter.Allow of the API service: a token bucket in one Redis hash, *)
(* read with HMGET, written with HMSET and kept alive with EXPIRE, three   *)
(* calls that other requests and other instances interleave with.          *)
(*                                                                         *)
(* Time is in milliseconds and tokens are counted in thousandths, so that  *)
(* Rate tokens per second are Rate thousandths per millisecond.  One step  *)
(* is one Redis call and the code up to the next one.                      *)
(***************************************************************************)
EXTENDS Integers, Sequences, FiniteSets

CONSTANTS
    Handlers,     \* requests that may be in the middleware at once
    Rate,         \* RequestsPerSecond
    Burst,        \* BurstSize
    TTL,          \* what EXPIRE sets, in ms
    Faults,       \* "redis": HMGET or HMSET fails; "expire": EXPIRE is lost
    Step,         \* granularity of the clock
    MaxLag,       \* bound on the time one check may take
    MaxTime,      \* bound on the clock
    MaxServed     \* bound on the requests let through

VARIABLES
    clock,        \* wall clock, the same for every instance
    bucket,       \* the hash: tokens and last_refill
    expires,      \* when Redis drops the hash
    pc, now, tokens,  \* per request: next call, its clock, tokens to write
    served,       \* requests let through, in order (history)
    refused       \* the last request answered 429 (history)

vars == <<clock, bucket, expires, pc, now, tokens, served, refused>>

None == [tokens |-> -1, last_refill |-> -1]

Never == MaxTime + TTL + 1

(***************************************************************************)
(* 300 seconds are far more than a bucket of 20 needs to fill up at 10 per *)
(* second: a bucket that Redis may drop is full.                           *)
(***************************************************************************)
ASSUME LimiterAssumption ==
    /\ Rate \in Nat \ {0} /\ Burst \in Nat \ {0} /\ Step \in Nat \ {0}
    /\ TTL \in Nat /\ MaxLag \in Nat /\ MaxTime \in Nat /\ MaxServed \in Nat
    /\ TTL * Rate >= Burst * 1000 + MaxLag * Rate
    /\ Faults \subseteq {"redis", "expire"}

Init ==
    /\ clock = 0
    /\ bucket = None
    /\ expires = Never
    /\ pc = [h \in Handlers |-> "idle"]
    /\ now = [h \in Handlers |-> 0]
    /\ tokens = [h \in Handlers |-> 0]
    /\ served = <<>>
    /\ refused = {}

(***************************************************************************)
(* Refill.  A missing hash is a full bucket.  (now may be older than       *)
(* last_refill when another request wrote in between.)                     *)
(***************************************************************************)
Least(x, y) == IF x < y THEN x ELSE y

Refilled_WholeTokens(t) ==
    IF bucket = None THEN Burst * 1000
    ELSE Least(bucket.tokens + 1000 * (((t - bucket.last_refill) * Rate) \div 1000), Burst * 1000)

Refilled(t) ==
    IF bucket = None THEN Burst * 1000
    ELSE Least(bucket.tokens + (t - bucket.last_refill) * Rate, Burst * 1000)

HasToken_AnyPart(x) == x > 0

HasToken(x) == x >= 1000

(***************************************************************************)
(* "%.2f" rounds to hundredths; which way a half goes depends on its       *)
(* binary representation.                                                  *)
(***************************************************************************)
Printed(x) == {m \in {10 * (x \div 10), 10 * (x \div 10) + 10} : m - x \in -5 .. 5}

Goto(h, label) == pc' = [pc EXCEPT ![h] = label]

(***************************************************************************)
(* The request goes on to the handler.  stale says that it has written the *)
(* hash without renewing its TTL.                                          *)
(***************************************************************************)
LetThrough(h, open, stale) ==
    /\ served' = Append(served, [at |-> now[h], failOpen |-> open, stale |-> stale])
    /\ Goto(h, "idle")

Begin(h) ==
    /\ pc[h] = "idle"
    /\ Len(served) + Cardinality({g \in Handlers : pc[g] # "idle"}) < MaxServed
    /\ now' = [now EXCEPT ![h] = clock]
    /\ Goto(h, "hmget")
    /\ UNCHANGED <<clock, bucket, expires, tokens, served, refused>>

(***************************************************************************)
(* HMGET and the decision.  A 429 writes nothing; an error lets the        *)
(* request through (fail-open).                                            *)
(***************************************************************************)
Check(h) ==
    /\ pc[h] = "hmget"
    /\ \/ /\ HasToken(Refilled(now[h]))
          /\ tokens' = [tokens EXCEPT ![h] = Refilled(now[h]) - 1000]
          /\ Goto(h, "hmset")
          /\ UNCHANGED <<served, refused>>
       \/ /\ ~HasToken(Refilled(now[h]))
          /\ refused' = {[at |-> now[h], after |-> Len(served)]}
          /\ Goto(h, "idle")
          /\ UNCHANGED <<tokens, served>>
       \/ /\ "redis" \in Faults
          /\ LetThrough(h, TRUE, FALSE)
          /\ UNCHANGED <<tokens, refused>>
    /\ UNCHANGED <<clock, bucket, expires, now>>

(***************************************************************************)
(* HMSET, which leaves the TTL of an existing hash as it is.               *)
(***************************************************************************)
Write_TokensOnly(h) ==
    \E x \in Printed(tokens[h]) :
        bucket' = [tokens |-> x,
                   last_refill |-> IF bucket = None THEN now[h] ELSE bucket.last_refill]

Write(h) ==
    \E x \in Printed(tokens[h]) : bucket' = [tokens |-> x, last_refill |-> now[h]]

Store(h) ==
    /\ pc[h] = "hmset"
    /\ \/ /\ Write(h)
          /\ \/ Goto(h, "expire") /\ UNCHANGED served
             \/ "redis" \in Faults /\ LetThrough(h, TRUE, TRUE)
       \/ /\ "redis" \in Faults
          /\ LetThrough(h, TRUE, FALSE)
          /\ UNCHANGED bucket
    /\ UNCHANGED <<clock, expires, now, tokens, refused>>

(***************************************************************************)
(* EXPIRE, whose result nobody looks at.                                   *)
(***************************************************************************)
Expire(h) ==
    /\ pc[h] = "expire"
    /\ \/ /\ bucket # None
          /\ expires' = clock + TTL
          /\ LetThrough(h, FALSE, FALSE)
       \/ /\ bucket = None \/ "expire" \in Faults
          /\ LetThrough(h, FALSE, TRUE)
          /\ UNCHANGED expires
    /\ UNCHANGED <<clock, bucket, now, tokens, refused>>

(***************************************************************************)
(* External: time passes, and Redis drops the hash when its TTL is over.   *)
(***************************************************************************)
Tick ==
    /\ clock + Step <= MaxTime
    /\ \A h \in Handlers : pc[h] # "idle" => clock + Step - now[h] <= MaxLag
    /\ clock' = clock + Step
    /\ IF clock + Step >= expires
       THEN bucket' = None /\ expires' = Never
       ELSE UNCHANGED <<bucket, expires>>
    /\ UNCHANGED <<pc, now, tokens, served, refused>>

Next ==
    \/ \E h \in Handlers : Begin(h) \/ Check(h) \/ Store(h) \/ Expire(h)
    \/ Tick

Spec == Init /\ [][Next]_vars

-----------------------------------------------------------------------------
\* The bucket never owes a token and never holds more than Burst less the one
\* just taken (Allow).
TypeOK ==
    /\ clock \in 0 .. MaxTime
    /\ bucket # None =>
          /\ bucket.tokens \in 0 .. 1000 * (Burst - 1)
          /\ bucket.last_refill \in 0 .. clock
    /\ expires \in (clock + 1) .. Never
    /\ pc \in [Handlers -> {"idle", "hmget", "hmset", "expire"}]
    /\ now \in [Handlers -> 0 .. clock]
    /\ served \in Seq([at : 0 .. clock, failOpen : BOOLEAN, stale : BOOLEAN])
    /\ refused \subseteq [at : 0 .. clock, after : Nat]

\* In any window at most Burst requests are admitted by a token, plus Rate per
\* second, plus what "%.2f" adds (half a hundredth each).  Each write that left
\* the TTL as it was, because its EXPIRE was lost or came too late, may let the
\* hash die early and cost one more Burst (Allow; one request at a time).
AdmissionBounded ==
    \A m, n \in DOMAIN served : m <= n =>
        LET admitted == {k \in m .. n : ~served[k].failOpen}
            stale    == {k \in 1 .. n : served[k].stale}
        IN Cardinality(admitted) * 1000 <=
               Burst * 1000 * (1 + Cardinality(stale))
                   + (served[n].at - served[m].at) * Rate + 5 * (n - m)

\* A request is refused only when the bucket is spent: the requests let
\* through in some window before it used up Burst and the refill but for less
\* than one token (Allow; one request at a time).  Fail-open requests count:
\* their HMSET may have taken effect.
RefusedOnlyWhenSpent ==
    \A r \in refused : \E m \in 1 .. r.after :
        LET used == r.after - m + 1
        IN Burst * 1000 + (r.at - served[m].at) * Rate - used * 1000 < 1000 + 5 * used

=============================================================================
