------------------------- MODULE RateLimiterProofs -------------------------
(***************************************************************************)
(* The token bucket keeps its promise: proofs for any rate, burst, clock   *)
(* step and TTL that RateLimiter allows and any loss of Redis calls.  The  *)
(* types hold for any number of requests at once; the two bounds for one   *)
(* request at a time (MCRateRace shows why).                               *)
(***************************************************************************)
EXTENDS RateLimiter, FiniteSetTheorems, TLAPS

Full == 1000 * Burst

(***************************************************************************)
(* What holds of any number of requests.                                   *)
(***************************************************************************)
TypeInv ==
    /\ TypeOK
    /\ bucket \in [tokens : Int, last_refill : Int]
    /\ tokens \in [Handlers -> 0 .. 1000 * (Burst - 1)]

-----------------------------------------------------------------------------
\* TTL is positive, and a hash that may die on time is full whatever the lag.
LEMMA Constants ==
    /\ Rate \in Nat /\ Burst \in Nat /\ Step \in Nat
    /\ Rate >= 1 /\ Burst >= 1 /\ Step >= 1
    /\ TTL \in Nat /\ TTL >= 1 /\ MaxLag \in Nat /\ MaxTime \in Nat
    /\ Never \in Nat /\ Never > MaxTime + TTL
    /\ Full \in Nat /\ Full >= 1000
    /\ TTL * Rate >= Full + MaxLag * Rate
<1>1. TTL * Rate >= Full + MaxLag * Rate /\ Full >= 1000 /\ Full \in Nat
    BY LimiterAssumption DEF Full
<1>2. MaxLag * Rate >= 0
    BY LimiterAssumption
<1>3. TTL # 0
    <2>1. SUFFICES ASSUME TTL = 0 PROVE FALSE
        OBVIOUS
    <2>2. TTL * Rate = 0
        BY <2>1, LimiterAssumption
    <2> QED BY <2>2, <1>1, <1>2, LimiterAssumption
<1> QED BY <1>1, <1>3, LimiterAssumption DEF Never

\* What a duration earns grows with it.
LEMMA EarnMonotone ==
    ASSUME NEW a \in Int, NEW b \in Int, a <= b
    PROVE  a * Rate <= b * Rate
<1>1. Rate \in Nat
    BY Constants
<1>2. (b - a) * Rate >= 0
    BY <1>1
<1> QED BY <1>1, <1>2

\* "%.2f" keeps the tokens within what the bucket may hold, and moves them by
\* at most half a hundredth.
LEMMA PrintedRange ==
    ASSUME NEW x \in 0 .. 1000 * (Burst - 1), NEW m \in Printed(x)
    PROVE  m \in 0 .. 1000 * (Burst - 1) /\ m - x <= 5 /\ x - m <= 5
<1>1. Burst \in Nat /\ Burst >= 1
    BY Constants
<1>2. PICK q \in Int : q = x \div 10 /\ 10 * q <= x /\ x < 10 * q + 10
    BY <1>1
<1>3. m = 10 * q \/ m = 10 * q + 10
    BY <1>2 DEF Printed
<1>4. m - x \in -5 .. 5
    BY DEF Printed
<1> QED BY <1>1, <1>2, <1>3, <1>4

LEMMA RefilledType ==
    ASSUME TypeInv, NEW t \in Int
    PROVE  Refilled(t) \in Int /\ Refilled(t) <= Full
BY Constants DEF TypeInv, Refilled, Least, Full

LEMMA TypeInvInit == Init => TypeInv
BY Constants DEF Init, TypeInv, TypeOK, None

LEMMA SeqOfMore ==
    ASSUME NEW S, NEW T, S \subseteq T, NEW s \in Seq(S)
    PROVE  s \in Seq(T)
OBVIOUS

LEMMA LetThroughTypes ==
    ASSUME TypeInv, NEW h \in Handlers, NEW open \in BOOLEAN, NEW stale \in BOOLEAN,
           LetThrough(h, open, stale)
    PROVE  /\ served' \in Seq([at : 0 .. clock, failOpen : BOOLEAN, stale : BOOLEAN])
           /\ pc' \in [Handlers -> {"idle", "hmget", "hmset", "expire"}]
BY DEF TypeInv, TypeOK, LetThrough, Goto

LEMMA TypeInvBegin ==
    ASSUME TypeInv, NEW h \in Handlers, Begin(h)
    PROVE  TypeInv'
BY DEF TypeInv, TypeOK, Begin, Goto

LEMMA TypeInvCheck ==
    ASSUME TypeInv, NEW h \in Handlers, Check(h)
    PROVE  TypeInv'
<1>1. now[h] \in 0 .. clock /\ Refilled(now[h]) \in Int /\ Refilled(now[h]) <= Full
    BY RefilledType DEF TypeInv, TypeOK
<1>2. UNCHANGED <<clock, bucket, expires, now>>
    BY DEF Check
<1>3. CASE HasToken(Refilled(now[h])) /\ tokens' = [tokens EXCEPT ![h] = Refilled(now[h]) - 1000]
           /\ Goto(h, "hmset") /\ UNCHANGED <<served, refused>>
    <2>1. Refilled(now[h]) - 1000 \in 0 .. 1000 * (Burst - 1)
        BY <1>1, <1>3, Constants DEF HasToken, Full
    <2> QED BY <1>2, <1>3, <2>1 DEF TypeInv, TypeOK, Goto
<1>4. CASE refused' = {[at |-> now[h], after |-> Len(served)]} /\ Goto(h, "idle")
           /\ UNCHANGED <<tokens, served>>
    <2>1. Len(served) \in Nat
        BY DEF TypeInv, TypeOK
    <2>2. refused' \subseteq [at : 0 .. clock, after : Nat]
        BY <1>1, <1>4, <2>1
    <2> QED BY <1>2, <1>4, <2>2 DEF TypeInv, TypeOK, Goto
<1>5. CASE LetThrough(h, TRUE, FALSE) /\ UNCHANGED <<tokens, refused>>
    BY <1>2, <1>5, LetThroughTypes, ZenonT(60) DEF TypeInv, TypeOK
<1> QED BY <1>3, <1>4, <1>5 DEF Check

LEMMA WriteTypes ==
    ASSUME TypeInv, NEW h \in Handlers, Write(h)
    PROVE  /\ bucket' \in [tokens : 0 .. 1000 * (Burst - 1), last_refill : {now[h]}]
           /\ bucket' # None
           /\ bucket'.tokens <= tokens[h] + 5 /\ bucket'.tokens >= tokens[h] - 5
<1>1. tokens[h] \in 0 .. 1000 * (Burst - 1)
    BY DEF TypeInv
<1>2. PICK x \in Printed(tokens[h]) : bucket' = [tokens |-> x, last_refill |-> now[h]]
    BY DEF Write
<1>3. x \in 0 .. 1000 * (Burst - 1) /\ x - tokens[h] <= 5 /\ tokens[h] - x <= 5
    BY <1>1, PrintedRange
<1>4. bucket'.tokens = x /\ bucket'.last_refill = now[h]
    BY <1>2
<1>5. bucket' # None
    BY <1>3, <1>4, Constants DEF None
<1> QED BY <1>1, <1>2, <1>3, <1>4, <1>5, Constants

LEMMA TypeInvStore ==
    ASSUME TypeInv, NEW h \in Handlers, Store(h)
    PROVE  TypeInv'
<1>1. UNCHANGED <<clock, expires, now, tokens, refused>>
    BY DEF Store
<1>2. /\ served' \in Seq([at : 0 .. clock, failOpen : BOOLEAN, stale : BOOLEAN])
      /\ pc' \in [Handlers -> {"idle", "hmget", "hmset", "expire"}]
    <2>1. CASE Goto(h, "expire") /\ UNCHANGED served
        BY <2>1 DEF TypeInv, TypeOK, Goto
    <2>2. CASE \E stale \in BOOLEAN : LetThrough(h, TRUE, stale)
        BY <2>2, LetThroughTypes
    <2> QED BY <2>1, <2>2 DEF Store
<1>3. /\ bucket' \in [tokens : Int, last_refill : Int]
      /\ bucket' # None => /\ bucket'.tokens \in 0 .. 1000 * (Burst - 1)
                           /\ bucket'.last_refill \in 0 .. clock
    <2>1. CASE Write(h)
        <3>1. now[h] \in 0 .. clock /\ clock \in Nat
            BY DEF TypeInv, TypeOK
        <3> QED BY <2>1, <3>1, WriteTypes
    <2>2. CASE UNCHANGED bucket
        BY <2>2 DEF TypeInv, TypeOK
    <2> QED BY <2>1, <2>2 DEF Store
<1> QED BY <1>1, <1>2, <1>3 DEF TypeInv, TypeOK

LEMMA TypeInvExpire ==
    ASSUME TypeInv, NEW h \in Handlers, Expire(h)
    PROVE  TypeInv'
<1>1. UNCHANGED <<clock, bucket, now, tokens, refused>>
    BY DEF Expire
<1>2. /\ served' \in Seq([at : 0 .. clock, failOpen : BOOLEAN, stale : BOOLEAN])
      /\ pc' \in [Handlers -> {"idle", "hmget", "hmset", "expire"}]
    <2>1. PICK stale \in BOOLEAN : LetThrough(h, FALSE, stale)
        BY DEF Expire
    <2> QED BY <2>1, LetThroughTypes
<1>3. expires' \in (clock + 1) .. Never
    <2>1. clock + TTL \in (clock + 1) .. Never
        BY Constants DEF TypeInv, TypeOK
    <2>2. expires' = clock + TTL \/ expires' = expires
        BY DEF Expire
    <2>3. expires \in (clock + 1) .. Never
        BY DEF TypeInv, TypeOK
    <2> QED BY ONLY <2>1, <2>2, <2>3
<1> QED BY <1>1, <1>2, <1>3 DEF TypeInv, TypeOK

LEMMA TypeInvTick ==
    ASSUME TypeInv, Tick
    PROVE  TypeInv'
<1>1. /\ clock \in Nat /\ clock' \in Nat /\ clock' = clock + Step /\ clock < clock'
      /\ clock' <= MaxTime
    BY Constants DEF Tick, TypeInv, TypeOK
<1>2. UNCHANGED <<pc, now, tokens, served, refused>>
    BY DEF Tick
<1>3. /\ bucket' \in [tokens : Int, last_refill : Int]
      /\ bucket' # None => /\ bucket'.tokens \in 0 .. 1000 * (Burst - 1)
                           /\ bucket'.last_refill \in 0 .. clock'
      /\ expires' \in (clock' + 1) .. Never
    <2>1. CASE clock + Step >= expires
        <3>1. bucket' = None /\ expires' = Never
            BY <2>1 DEF Tick
        <3> QED BY <1>1, <3>1, Constants DEF None
    <2>2. CASE ~ (clock + Step >= expires)
        <3>1. bucket' = bucket /\ expires' = expires
            BY <2>2 DEF Tick
        <3> QED BY <1>1, <2>2, <3>1, Constants DEF TypeInv, TypeOK
    <2> QED BY <2>1, <2>2
<1>4. now' \in [Handlers -> 0 .. clock'] /\ refused' \subseteq [at : 0 .. clock', after : Nat]
    BY <1>1, <1>2 DEF TypeInv, TypeOK
<1>5. served' \in Seq([at : 0 .. clock', failOpen : BOOLEAN, stale : BOOLEAN])
    <2> DEFINE Served(c) == [at : 0 .. c, failOpen : BOOLEAN, stale : BOOLEAN]
    <2>1. Served(clock) \subseteq Served(clock')
        BY <1>1
    <2>2. served \in Seq(Served(clock)) /\ served' = served
        BY <1>2 DEF TypeInv, TypeOK
    <2> HIDE DEF Served
    <2>3. served' \in Seq(Served(clock'))
        BY <2>1, <2>2, SeqOfMore
    <2> QED BY <2>3 DEF Served
<1>6. clock' \in 0 .. MaxTime /\ UNCHANGED pc /\ UNCHANGED tokens
    BY <1>1, <1>2, Constants
<1> QED BY <1>3, <1>4, <1>5, <1>6, ZenonT(60) DEF TypeInv, TypeOK

LEMMA TypeInvStep == TypeInv /\ [Next]_vars => TypeInv'
<1> SUFFICES ASSUME TypeInv, [Next]_vars PROVE TypeInv'
    OBVIOUS
<1>1. CASE \E h \in Handlers : Begin(h) \/ Check(h) \/ Store(h) \/ Expire(h)
    BY <1>1, TypeInvBegin, TypeInvCheck, TypeInvStore, TypeInvExpire
<1>2. CASE Tick
    BY <1>2, TypeInvTick
<1>3. CASE UNCHANGED vars
    BY <1>3 DEF vars, TypeInv, TypeOK
<1> QED BY <1>1, <1>2, <1>3 DEF Next

\* However many requests share the bucket and whatever Redis loses, the hash
\* never holds less than nothing nor more than Burst less the token just taken,
\* and it never outlives its TTL (Allow).
THEOREM LimiterTypes == Spec => []TypeOK
<1>1. Init => TypeInv
    BY TypeInvInit
<1>2. TypeInv /\ [Next]_vars => TypeInv'
    BY TypeInvStep
<1>3. TypeInv => TypeOK
    BY DEF TypeInv
<1> QED BY <1>1, <1>2, <1>3, PTL DEF Spec

-----------------------------------------------------------------------------
(***************************************************************************)
(* The refill: it never exceeds what the time earns, and a hash that is    *)
(* TTL old, or was so MaxLag ago, is full.                                 *)
(***************************************************************************)
LEMMA RefilledNat ==
    ASSUME TypeInv, NEW t \in Int, bucket # None => bucket.last_refill <= t
    PROVE  Refilled(t) \in 0 .. Full
<1>1. CASE bucket = None
    BY <1>1, Constants DEF Refilled, Full
<1>2. CASE bucket # None
    <2>1. bucket.last_refill \in Int /\ bucket.tokens \in Nat
        BY <1>2 DEF TypeInv, TypeOK
    <2>2. (t - bucket.last_refill) * Rate >= 0
        BY <1>2, <2>1, Constants
    <2>3. (t - bucket.last_refill) * Rate \in Int
        BY <2>1, Constants
    <2> QED BY <1>2, <2>1, <2>2, <2>3, Constants DEF Refilled, Least, Full
<1> QED BY <1>1, <1>2

LEMMA RefilledGrows ==
    ASSUME TypeInv, NEW t \in Int, NEW u \in Int, t <= u
    PROVE  Refilled(t) <= Refilled(u) /\ Refilled(u) <= Refilled(t) + (u - t) * Rate
<1>1. Rate \in Nat /\ Burst \in Nat /\ (u - t) * Rate >= 0 /\ (u - t) * Rate \in Int
    BY Constants
<1>2. CASE bucket = None
    BY <1>1, <1>2 DEF Refilled
<1>3. CASE bucket # None
    <2>1. bucket.last_refill \in Int /\ bucket.tokens \in Int
        BY <1>3 DEF TypeInv
    <2>2. (u - bucket.last_refill) * Rate = (t - bucket.last_refill) * Rate + (u - t) * Rate
        BY <1>1, <2>1
    <2>3. (t - bucket.last_refill) * Rate \in Int
        BY <1>1, <2>1
    <2> HIDE <1>1
    <2>4. Burst \in Nat /\ (u - t) * Rate >= 0 /\ (u - t) * Rate \in Int
        BY <1>1
    <2> QED BY <1>3, <2>1, <2>2, <2>3, <2>4 DEF Refilled, Least
<1> QED BY <1>2, <1>3

LEMMA RefilledWhole ==
    ASSUME TypeInv, NEW t \in Int,
           bucket # None => t - bucket.last_refill >= TTL - MaxLag
    PROVE  Refilled(t) = Full
<1>1. CASE bucket = None
    BY <1>1, Constants DEF Refilled, Full
<1>2. CASE bucket # None
    <2>1. bucket.last_refill \in Int /\ bucket.tokens \in Nat
        BY <1>2 DEF TypeInv, TypeOK
    <2>2. (TTL - MaxLag) * Rate <= (t - bucket.last_refill) * Rate
        BY <1>2, <2>1, Constants, EarnMonotone
    <2>3. (TTL - MaxLag) * Rate = TTL * Rate - MaxLag * Rate
        BY Constants
    <2>4. TTL * Rate - MaxLag * Rate >= Full /\ TTL * Rate \in Int /\ MaxLag * Rate \in Int
        BY Constants
    <2>5. (t - bucket.last_refill) * Rate \in Int
        BY <2>1, Constants
    <2> QED BY <1>2, <2>1, <2>2, <2>3, <2>4, <2>5, Constants DEF Refilled, Least, Full
<1> QED BY <1>1, <1>2

\* What a write leaves at time t.
LEMMA RefilledAfterWrite ==
    ASSUME TypeInv, NEW h \in Handlers, Write(h), NEW t \in Int
    PROVE  /\ Refilled(t)' \in Int /\ Refilled(t)' <= Full
           /\ Refilled(t)' <= tokens[h] + 5 + (t - now[h]) * Rate
<1>1. bucket' # None /\ bucket'.last_refill = now[h] /\ bucket'.tokens \in Int
      /\ bucket'.tokens <= tokens[h] + 5
    BY WriteTypes, Constants
<1>2. Refilled(t)' = Least(bucket'.tokens + (t - bucket'.last_refill) * Rate, Burst * 1000)
    BY <1>1 DEF Refilled
<1>3. now[h] \in Int /\ tokens[h] \in Int /\ Rate \in Int /\ Burst \in Int
    BY Constants DEF TypeInv, TypeOK
<1>4. (t - now[h]) * Rate \in Int
    BY <1>3
<1> QED BY <1>1, <1>2, <1>3, <1>4 DEF Least, Full

-----------------------------------------------------------------------------
(***************************************************************************)
(* With one request at a time clocks only go up.                           *)
(***************************************************************************)
OrderInv ==
    /\ \A m, n \in DOMAIN served : m <= n => served[m].at <= served[n].at
    /\ \A h \in Handlers : pc[h] # "idle" =>
          /\ \A n \in DOMAIN served : served[n].at <= now[h]
          /\ bucket # None => bucket.last_refill <= now[h]
          /\ clock - now[h] <= MaxLag

(***************************************************************************)
(* What the requests from m on may have used: x tokens are still there at  *)
(* time t (or about to be written), and credit bursts were available.      *)
(***************************************************************************)
Taken(m) == Cardinality({k \in m .. Len(served) : ~served[k].failOpen})

Stales == Cardinality({k \in 1 .. Len(served) : served[k].stale})

Upper(m, x, t, credit) ==
    x + 1000 * Taken(m)
        <= Full * credit + (t - served[m].at) * Rate + 5 * (Len(served) - m)

\* The hash may die before it is full again.
Uncovered == bucket # None /\ expires < bucket.last_refill + TTL

Credit == IF Uncovered THEN Stales ELSE Stales + 1

Within(x, t, credit) == \A m \in DOMAIN served : Upper(m, x, t, credit)

Budget(h) ==
    /\ pc[h] # "expire" =>
          (Uncovered => Stales >= 1) /\ Within(Refilled(clock), clock, Credit)
    /\ pc[h] = "hmget" => Within(Refilled(now[h]), now[h], Credit)
    /\ pc[h] = "hmset" => Within(tokens[h] + 1000, now[h], Stales + 1)
    /\ pc[h] = "expire" =>
          /\ bucket # None => bucket.last_refill = now[h]
          /\ Within(995, now[h], Stales + 1)
          /\ Within(Refilled(clock) + 995, clock,
                    IF bucket = None THEN Stales + 2 ELSE Stales + 1)

BudgetInv == \A h \in Handlers : Budget(h)

-----------------------------------------------------------------------------
(***************************************************************************)
(* One more request: what the counts over served become.                   *)
(***************************************************************************)
LEMMA SeqParts ==
    ASSUME NEW S, NEW s \in Seq(S)
    PROVE  Len(s) \in Nat /\ DOMAIN s = 1 .. Len(s) /\ \A k \in 1 .. Len(s) : s[k] \in S
OBVIOUS

LEMMA ServedTypes ==
    ASSUME TypeInv
    PROVE  /\ Len(served) \in Nat /\ DOMAIN served = 1 .. Len(served)
           /\ clock \in Nat
           /\ \A k \in 1 .. Len(served) :
                 /\ served[k].at \in 0 .. clock
                 /\ served[k].failOpen \in BOOLEAN
                 /\ served[k].stale \in BOOLEAN
           /\ \A m \in 1 .. Len(served) : Taken(m) \in Nat
           /\ Stales \in Nat
<1>1. /\ Len(served) \in Nat /\ DOMAIN served = 1 .. Len(served)
      /\ clock \in Nat
      /\ \A k \in 1 .. Len(served) :
            served[k] \in [at : 0 .. clock, failOpen : BOOLEAN, stale : BOOLEAN]
    <2>1. clock \in Nat
        BY DEF TypeInv, TypeOK
    <2>2. served \in Seq([at : 0 .. clock, failOpen : BOOLEAN, stale : BOOLEAN])
        BY DEF TypeInv, TypeOK
    <2> QED BY <2>1, <2>2, SeqParts
<1>2. ASSUME NEW m \in 1 .. Len(served)
      PROVE  Taken(m) \in Nat
    <2>1. IsFiniteSet(m .. Len(served))
        BY <1>1, FS_Interval
    <2>2. IsFiniteSet({k \in m .. Len(served) : ~served[k].failOpen})
        BY <2>1, FS_Subset
    <2> QED BY <2>2, FS_CardinalityType DEF Taken
<1>3. Stales \in Nat
    <2>1. IsFiniteSet(1 .. Len(served))
        BY <1>1, FS_Interval
    <2>2. IsFiniteSet({k \in 1 .. Len(served) : served[k].stale})
        BY <2>1, FS_Subset
    <2> QED BY <2>2, FS_CardinalityType DEF Stales
<1>4. \A k \in 1 .. Len(served) :
            served[k].at \in 0 .. clock /\ served[k].failOpen \in BOOLEAN /\ served[k].stale \in BOOLEAN
    BY <1>1
<1> QED BY <1>1, <1>2, <1>3, <1>4

LEMMA Appended ==
    ASSUME TypeInv, NEW e, served' = Append(served, e)
    PROVE  /\ Len(served') = Len(served) + 1
           /\ DOMAIN served' = 1 .. Len(served) + 1
           /\ \A k \in 1 .. Len(served) : served'[k] = served[k]
           /\ served'[Len(served) + 1] = e
BY DEF TypeInv, TypeOK

\* Counting with one more element.
LEMMA CountOneMore ==
    ASSUME NEW a \in Int, NEW n \in Int, NEW A \in SUBSET (a .. n)
    PROVE  /\ Cardinality(A) \in Nat
           /\ Cardinality(A \cup {n + 1}) = Cardinality(A) + 1
<1>1. IsFiniteSet(A)
    BY FS_Interval, FS_Subset
<1>2. n + 1 \notin A
    OBVIOUS
<1>3. Cardinality(A) \in Nat
    BY <1>1, FS_CardinalityType
<1>4. Cardinality(A \cup {n + 1}) = Cardinality(A) + 1
    BY <1>1, <1>2, FS_AddElement
<1> QED BY <1>2, <1>3, <1>4

LEMMA TakenAppended ==
    ASSUME TypeInv, NEW e, e.failOpen \in BOOLEAN, served' = Append(served, e),
           NEW m \in 1 .. Len(served)
    PROVE  /\ e.failOpen => Taken(m)' = Taken(m)
           /\ ~e.failOpen => Taken(m)' = Taken(m) + 1
<1> DEFINE n == Len(served)
           A == {k \in m .. n : ~served[k].failOpen}
           B == {k \in m .. n + 1 : ~served'[k].failOpen}
<1>1. n \in Nat /\ m \in Int /\ m <= n + 1 /\ m >= 1
    BY ServedTypes
<1>2. Len(served') = n + 1 /\ (\A k \in 1 .. n : served'[k] = served[k]) /\ served'[n + 1] = e
    BY Appended
<1>3. Taken(m) = Cardinality(A) /\ Taken(m)' = Cardinality(B)
    BY <1>2 DEF Taken
<1>4. A \subseteq m .. n
    OBVIOUS
<1>5. m .. n + 1 = (m .. n) \cup {n + 1}
    BY <1>1
<1>6. \A k \in m .. n : served'[k] = served[k]
    BY <1>1, <1>2
<1> HIDE DEF n
<1>7. (e.failOpen => B = A) /\ (~e.failOpen => B = A \cup {n + 1})
    BY <1>2, <1>5, <1>6
<1> HIDE DEF A, B
<1>8. n \in Int /\ A \in SUBSET (m .. n)
    BY <1>1, <1>4
<1>9. Cardinality(A) \in Nat /\ Cardinality(A \cup {n + 1}) = Cardinality(A) + 1
    BY <1>1, <1>8, CountOneMore
<1> QED BY <1>3, <1>7, <1>9

LEMMA TakenNew ==
    ASSUME TypeInv, NEW e, e.failOpen \in BOOLEAN, served' = Append(served, e),
           NEW m, m = Len(served) + 1
    PROVE  (e.failOpen => Taken(m)' = 0) /\ (~e.failOpen => Taken(m)' = 1)
<1>1. m \in Nat /\ Len(served') = m /\ served'[m] = e
    BY ServedTypes, Appended
<1>2. m .. m = {m}
    BY <1>1
<1>3. /\ e.failOpen => {k \in m .. m : ~served'[k].failOpen} = {}
      /\ ~e.failOpen => {k \in m .. m : ~served'[k].failOpen} = {m}
    BY <1>1, <1>2
<1>4. Taken(m)' = Cardinality({k \in m .. m : ~served'[k].failOpen})
    BY <1>1 DEF Taken
<1>5. Cardinality({}) = 0 /\ Cardinality({m}) = 1
    BY FS_EmptySet, FS_Singleton
<1> QED BY <1>3, <1>4, <1>5

LEMMA StalesAppended ==
    ASSUME TypeInv, NEW e, e.stale \in BOOLEAN, served' = Append(served, e)
    PROVE  (e.stale => Stales' = Stales + 1) /\ (~e.stale => Stales' = Stales)
<1> DEFINE n == Len(served)
           A == {k \in 1 .. n : served[k].stale}
           B == {k \in 1 .. n + 1 : served'[k].stale}
<1>1. n \in Nat
    BY ServedTypes
<1>2. Len(served') = n + 1 /\ (\A k \in 1 .. n : served'[k] = served[k]) /\ served'[n + 1] = e
    BY Appended
<1>3. Stales = Cardinality(A) /\ Stales' = Cardinality(B)
    BY <1>2 DEF Stales
<1>4. A \subseteq 1 .. n
    OBVIOUS
<1>5. 1 .. n + 1 = (1 .. n) \cup {n + 1}
    BY <1>1
<1> HIDE DEF n
<1>7. (e.stale => B = A \cup {n + 1}) /\ (~e.stale => B = A)
    BY <1>2, <1>5
<1> HIDE DEF A, B
<1>8. n \in Int /\ 1 \in Int /\ A \in SUBSET (1 .. n)
    BY <1>1, <1>4
<1>9. Cardinality(A) \in Nat /\ Cardinality(A \cup {n + 1}) = Cardinality(A) + 1
    BY ONLY <1>8, CountOneMore
<1> QED BY <1>3, <1>7, <1>9

-----------------------------------------------------------------------------
LEMMA RequestTypes ==
    ASSUME TypeInv, NEW h \in Handlers
    PROVE  /\ now[h] \in 0 .. clock /\ clock \in Nat
           /\ tokens[h] \in 0 .. 1000 * (Burst - 1)
           /\ pc[h] \in {"idle", "hmget", "hmset", "expire"}
           /\ bucket # None => /\ bucket.tokens \in 0 .. 1000 * (Burst - 1)
                               /\ bucket.last_refill \in 0 .. clock
           /\ expires \in Nat
BY Constants DEF TypeInv, TypeOK

LEMMA OrderInvInit == Init => OrderInv
BY DEF Init, OrderInv, None

LEMMA OrderAppended ==
    ASSUME TypeInv, OrderInv, NEW h \in Handlers, pc[h] # "idle",
           NEW open, NEW stale, LetThrough(h, open, stale)
    PROVE  \A m, n \in DOMAIN served' : m <= n => served'[m].at <= served'[n].at
<1>1. /\ Len(served) \in Nat /\ DOMAIN served = 1 .. Len(served)
      /\ \A k \in 1 .. Len(served) : served[k].at \in Int
      /\ now[h] \in Int
    BY ServedTypes, RequestTypes
<1>2. PICK e : e.at = now[h] /\ served' = Append(served, e)
    BY DEF LetThrough
<1>3. /\ DOMAIN served' = 1 .. Len(served) + 1
      /\ \A k \in 1 .. Len(served) : served'[k] = served[k]
      /\ served'[Len(served) + 1] = e
    BY <1>2, Appended
<1>4. \A n \in 1 .. Len(served) : served[n].at <= now[h]
    BY <1>1 DEF OrderInv
<1>5. \A m, n \in 1 .. Len(served) : m <= n => served[m].at <= served[n].at
    BY <1>1 DEF OrderInv
<1> QED BY <1>1, <1>2, <1>3, <1>4, <1>5

LEMMA OrderInvStep ==
    ASSUME NEW h, Handlers = {h}, TypeInv, OrderInv, [Next]_vars
    PROVE  OrderInv'
<1>1. /\ Len(served) \in Nat /\ DOMAIN served = 1 .. Len(served) /\ clock \in Nat
      /\ \A k \in 1 .. Len(served) : served[k].at \in 0 .. clock
    BY ServedTypes
<1>2. /\ h \in Handlers /\ now[h] \in 0 .. clock
      /\ bucket # None => bucket.last_refill \in 0 .. clock
      /\ pc \in [Handlers -> {"idle", "hmget", "hmset", "expire"}]
      /\ now \in [Handlers -> 0 .. clock]
    BY RequestTypes DEF TypeInv, TypeOK
<1>3. CASE Begin(h)
    <2>1. now'[h] = clock /\ UNCHANGED <<clock, bucket, served>>
        BY <1>2, <1>3 DEF Begin
    <2> QED BY <1>1, <1>2, <2>1, Constants DEF OrderInv
<1>4. ASSUME pc[h] # "idle", UNCHANGED <<clock, now, bucket>> \/ (UNCHANGED <<clock, now>> /\ Write(h)),
             pc'[h] = "idle", NEW open, NEW stale, LetThrough(h, open, stale)
      PROVE  OrderInv'
    BY <1>2, <1>4, OrderAppended DEF OrderInv
<1>5. ASSUME pc[h] # "idle", UNCHANGED <<clock, now, served>>, UNCHANGED bucket \/ Write(h)
      PROVE  OrderInv'
    <2>1. CASE UNCHANGED bucket
        BY <1>2, <1>5, <2>1 DEF OrderInv
    <2>2. CASE Write(h)
        <3>1. bucket'.last_refill = now[h]
            BY <1>2, <2>2, WriteTypes
        <3> QED BY <1>2, <1>5, <3>1 DEF OrderInv
    <2> QED BY <1>5, <2>1, <2>2
<1>6. \A open, stale : LetThrough(h, open, stale) => pc'[h] = "idle"
    BY <1>2 DEF LetThrough, Goto
<1>7. CASE Check(h)
    BY <1>2, <1>4, <1>5, <1>6, <1>7 DEF Check
<1>8. CASE Store(h)
    <2>1. UNCHANGED <<clock, now>> /\ pc[h] # "idle"
        BY <1>8 DEF Store
    <2>2. CASE Write(h) /\ UNCHANGED served
        BY <1>5, <2>1, <2>2
    <2>3. CASE Write(h) /\ LetThrough(h, TRUE, TRUE)
        BY <1>4, <1>6, <2>1, <2>3
    <2>4. CASE UNCHANGED bucket /\ LetThrough(h, TRUE, FALSE)
        BY <1>4, <1>6, <2>1, <2>4
    <2> QED BY <1>8, <2>2, <2>3, <2>4 DEF Store
<1>9. CASE Expire(h)
    BY <1>4, <1>6, <1>9 DEF Expire
<1>10. CASE Tick
    <2>1. /\ pc' = pc /\ now' = now /\ served' = served
          /\ bucket' = bucket \/ bucket' = None
          /\ pc[h] # "idle" => clock' - now[h] <= MaxLag
        <3>1. clock' = clock + Step /\ pc' = pc /\ now' = now /\ served' = served
            BY <1>10 DEF Tick
        <3>2. bucket' = bucket \/ bucket' = None
            BY <1>10 DEF Tick
        <3>3. pc[h] # "idle" => clock + Step - now[h] <= MaxLag
            BY <1>2, <1>10 DEF Tick
        <3>4. clock \in Int /\ Step \in Int /\ now[h] \in Int
            BY <1>1, <1>2, Constants
        <3>5. pc[h] # "idle" => clock' - now[h] <= MaxLag
            BY <3>1, <3>3, <3>4
        <3> QED BY <3>1, <3>2, <3>5
    <2>2. \A m, n \in DOMAIN served' : m <= n => served'[m].at <= served'[n].at
        BY <2>1 DEF OrderInv
    <2>3. ASSUME pc'[h] # "idle"
          PROVE  /\ \A n \in DOMAIN served' : served'[n].at <= now'[h]
                 /\ bucket' # None => bucket'.last_refill <= now'[h]
                 /\ clock' - now'[h] <= MaxLag
        <3>1. pc[h] # "idle" /\ now'[h] = now[h] /\ served' = served
            BY <2>1, <2>3
        <3>2. /\ \A n \in DOMAIN served : served[n].at <= now[h]
              /\ bucket # None => bucket.last_refill <= now[h]
            BY <1>2, <3>1 DEF OrderInv
        <3> QED BY <2>1, <3>1, <3>2
    <2> QED BY <2>2, <2>3 DEF OrderInv
<1>11. CASE UNCHANGED vars
    BY <1>11 DEF vars, OrderInv
<1> QED BY <1>3, <1>7, <1>8, <1>9, <1>10, <1>11 DEF Next

-----------------------------------------------------------------------------
(***************************************************************************)
(* The first bound.  Each step is a balance of tokens, time and credit.    *)
(***************************************************************************)
LEMMA BudgetTypes ==
    ASSUME TypeInv, OrderInv, NEW h \in Handlers
    PROVE  /\ now[h] \in Int /\ now[h] <= clock /\ clock \in Int
           /\ tokens[h] \in Int /\ tokens[h] >= 0
           /\ Stales \in Nat /\ Credit \in Int /\ Credit >= Stales /\ Credit <= Stales + 1
           /\ Refilled(clock) \in Int /\ Refilled(clock) >= 0 /\ Refilled(clock) <= Full
           /\ pc[h] # "idle" => /\ Refilled(now[h]) \in Int /\ Refilled(now[h]) >= 0
                                /\ Refilled(now[h]) <= Full
           /\ Len(served) \in Int
           /\ DOMAIN served = 1 .. Len(served)
           /\ \A m \in DOMAIN served : Taken(m) \in Int /\ served[m].at \in Int /\ m \in Int
<1>1. /\ now[h] \in 0 .. clock /\ clock \in Nat /\ tokens[h] \in 0 .. 1000 * (Burst - 1)
      /\ bucket # None => bucket.last_refill \in 0 .. clock
    BY RequestTypes
<1>2. Burst \in Nat /\ Full \in Nat
    BY Constants
<1>3. Stales \in Nat /\ Len(served) \in Nat /\ DOMAIN served = 1 .. Len(served)
      /\ \A m \in 1 .. Len(served) : Taken(m) \in Nat /\ served[m].at \in 0 .. clock
    BY ServedTypes
<1>4. Refilled(clock) \in 0 .. Full
    BY <1>1, RefilledNat
<1>5. pc[h] # "idle" => Refilled(now[h]) \in 0 .. Full
    BY <1>1, RefilledNat DEF OrderInv
<1>6. Credit \in Int /\ Credit >= Stales /\ Credit <= Stales + 1
    BY <1>3 DEF Credit
<1>7. \A m \in DOMAIN served : Taken(m) \in Int /\ served[m].at \in Int /\ m \in Int
    BY <1>1, <1>3
<1> QED BY <1>1, <1>2, <1>3, <1>4, <1>5, <1>6, <1>7

\* What a window gains from t to u and with the requests served by the step.
Gain(t, u) == (u - t) * Rate + 5 * (Len(served') - Len(served))

\* What a request takes out of the bucket.
Spent(e) == IF e.failOpen THEN 0 ELSE 1000

\* The step gains what it spends: y at u is covered if x at t was.
Covers(m, x, t, c, y, u, d) ==
    /\ c <= d
    /\ \/ y + 1000 * Taken(m)' <= x + 1000 * Taken(m) + Gain(t, u)
       \/ c + 1 <= d /\ y + 1000 * Taken(m)' <= x + 1000 * Taken(m) + Full + Gain(t, u)

\* A step that spends no more credit than it gains keeps the window within it.
LEMMA UpperNext ==
    ASSUME TypeInv, OrderInv, NEW m \in 1 .. Len(served),
           NEW x \in Int, NEW t \in Int, NEW c \in Int, Upper(m, x, t, c),
           NEW y \in Int, NEW u \in Int, NEW d \in Int, Covers(m, x, t, c, y, u, d),
           Len(served') \in Int, served'[m] = served[m], Taken(m)' \in Int
    PROVE  Upper(m, y, u, d)'
<1>1. Taken(m) \in Int /\ served[m].at \in Int /\ m \in Int /\ Len(served) \in Int
    BY ONLY TypeInv, m \in 1 .. Len(served), ServedTypes
<1>2. Full \in Nat /\ Rate \in Nat
    BY Constants
<1>3. PICK n \in Int : n = Len(served)
    BY <1>1
<1>4. PICK a \in Int : a = served[m].at
    BY <1>1
<1>5. PICK T \in Int : T = Taken(m)
    BY <1>1
<1>6. PICK T1 \in Int : T1 = Taken(m)'
    OBVIOUS
<1>7. PICK k \in Int : k = m
    BY <1>1
<1>8. PICK F \in Nat : F = Full
    BY <1>2
<1>9. PICK f \in Int : f = F * c
    OBVIOUS
<1>10. PICK g \in Int : g = F * (d - c)
    OBVIOUS
<1>11. PICK p \in Int : p = (t - a) * Rate
    BY <1>2
<1>12. PICK q \in Int : q = (u - t) * Rate
    BY <1>2
<1>13. g >= 0 /\ (c + 1 <= d => g >= F)
    <2>0. c <= d
        BY DEF Covers
    <2>1. F * (d - c) >= 0 /\ (c + 1 <= d => F * (d - c - 1) >= 0)
        BY <2>0
    <2>2. F * (d - c) = F * (d - c - 1) + F
        OBVIOUS
    <2>3. F * (d - c - 1) \in Int
        OBVIOUS
    <2> QED BY ONLY <1>10, <2>1, <2>2, <2>3, F \in Nat
<1>14. F * d = f + g
    BY ONLY <1>9, <1>10, F \in Nat, c \in Int, d \in Int
<1>15. (u - a) * Rate = p + q
    BY ONLY <1>2, <1>11, <1>12, a \in Int, t \in Int, u \in Int
<1>16. PICK l \in Int : l = Len(served') - Len(served)
    <2>1. PICK v \in Int : v = Len(served')
        BY ONLY Len(served') \in Int, Zenon
    <2>2. Len(served') - Len(served) \in Int
        BY ONLY <1>3, <2>1
    <2> QED BY ONLY <2>2, Zenon
<1>17. x + 1000 * T <= f + p + 5 * (n - k)
    BY <1>3, <1>4, <1>5, <1>7, <1>8, <1>9, <1>11 DEF Upper
<1>18. PICK z \in Int : z = Gain(t, u) /\ z = q + 5 * l
    BY ONLY <1>12, <1>16 DEF Gain
<1>19. \/ y + 1000 * T1 <= x + 1000 * T + z
       \/ c + 1 <= d /\ y + 1000 * T1 <= x + 1000 * T + F + z
    BY <1>5, <1>6, <1>8, <1>18 DEF Covers
<1>20. y + 1000 * T1 <= (f + g) + (p + q) + 5 * ((n + l) - k)
    BY ONLY <1>13, <1>17, <1>18, <1>19, x \in Int, y \in Int, z \in Int, l \in Int, c \in Int,
            d \in Int, n \in Int, T \in Int, T1 \in Int, k \in Int, F \in Nat,
            f \in Int, g \in Int, p \in Int, q \in Int
<1>21. Len(served') = n + l
    BY <1>1, <1>3, <1>16
<1>22. y + 1000 * Taken(m)' <= Full * d + (u - served'[m].at) * Rate + 5 * (Len(served') - m)
    BY ONLY <1>4, <1>6, <1>7, <1>8, <1>14, <1>15, <1>20, <1>21, served'[m] = served[m]
<1> QED BY ONLY <1>22 DEF Upper

\* The window that the request just served begins.
Starts(e, y, u, d) ==
    \/ 1 <= d /\ y + Spent(e) <= Full + (u - e.at) * Rate
    \/ 2 <= d /\ y + Spent(e) <= Full + 1000 + (u - e.at) * Rate

LEMMA UpperFresh ==
    ASSUME TypeInv, NEW e, served' = Append(served, e), e.failOpen \in BOOLEAN, e.at \in Int,
           NEW m, m = Len(served) + 1,
           NEW y \in Int, NEW u \in Int, NEW d \in Int, Starts(e, y, u, d)
    PROVE  Upper(m, y, u, d)'
<1>1. Len(served) \in Nat /\ Len(served') = m /\ served'[m] = e
    BY ServedTypes, Appended
<1>2. PICK spent \in Int : spent = Spent(e) /\ 1000 * Taken(m)' = spent
    BY TakenNew DEF Spent
<1>3. PICK F \in Nat : F = Full /\ F >= 1000
    BY Constants
<1>4. PICK q \in Int : q = (u - e.at) * Rate
    BY Constants
<1>5. /\ F * d \in Int
      /\ 1 <= d => F <= F * d
      /\ 2 <= d => F + 1000 <= F * d
    <2>1. /\ F * (d - 1) \in Int /\ F * d = F + F * (d - 1)
          /\ 1 <= d => F * (d - 1) >= 0
        OBVIOUS
    <2>2. /\ F * (d - 2) \in Int /\ F * d = F + F + F * (d - 2)
          /\ 2 <= d => F * (d - 2) >= 0
        OBVIOUS
    <2> QED BY ONLY <1>3, <2>1, <2>2, F \in Nat
<1>6. y + spent <= F * d + q
    <2>1. \/ 1 <= d /\ y + spent <= F + q
          \/ 2 <= d /\ y + spent <= F + 1000 + q
        BY ONLY <1>2, <1>3, <1>4, Starts(e, y, u, d) DEF Starts
    <2>2. PICK g \in Int : g = F * d
        BY <1>5
    <2> QED BY ONLY <1>5, <2>1, <2>2, y \in Int, spent \in Int, F \in Nat, q \in Int
<1>7. 5 * (m - m) = 0
    BY <1>1
<1>8. PICK r \in Int : r = F * d + q
    BY <1>5
<1>9. y + 1000 * Taken(m)' <= r + 5 * (m - m)
    BY ONLY <1>2, <1>6, <1>7, <1>8, r \in Int
<1>10. r + 5 * (m - m) = Full * d + (u - served'[m].at) * Rate + 5 * (Len(served') - m)
    BY ONLY <1>1, <1>3, <1>4, <1>8
<1> QED BY ONLY <1>9, <1>10 DEF Upper

\* The request's own token and the refill up to now are paid for.
Pays(e, x, t, c, y, u, d) ==
    /\ c <= d
    /\ y + Spent(e) <= x + (u - t) * Rate + 5
    /\ Starts(e, y, u, d)

LEMMA WithinServed ==
    ASSUME TypeInv, OrderInv, NEW e, served' = Append(served, e),
           e.failOpen \in BOOLEAN, e.at \in Int,
           NEW x \in Int, NEW t \in Int, NEW c \in Int, Within(x, t, c),
           NEW y \in Int, NEW u \in Int, NEW d \in Int, Pays(e, x, t, c, y, u, d)
    PROVE  Within(y, u, d)'
<1>1. /\ Len(served') = Len(served) + 1
      /\ DOMAIN served' = 1 .. Len(served) + 1
      /\ \A k \in 1 .. Len(served) : served'[k] = served[k]
      /\ Len(served) \in Nat /\ DOMAIN served = 1 .. Len(served)
    BY Appended, ServedTypes
<1>2. PICK spent \in Int : spent = Spent(e)
    BY DEF Spent
<1>3. ASSUME NEW m \in 1 .. Len(served)
      PROVE  Upper(m, y, u, d)'
    <2>1. Taken(m) \in Int /\ Taken(m)' \in Int /\ 1000 * Taken(m)' = 1000 * Taken(m) + spent
        <3>1. Taken(m) \in Int
            BY ServedTypes
        <3>2. (e.failOpen => Taken(m)' = Taken(m)) /\ (~e.failOpen => Taken(m)' = Taken(m) + 1)
            BY TakenAppended
        <3>3. (e.failOpen => spent = 0) /\ (~e.failOpen => spent = 1000)
            BY ONLY <1>2 DEF Spent
        <3>4. \/ Taken(m)' = Taken(m) /\ spent = 0
              \/ Taken(m)' = Taken(m) + 1 /\ spent = 1000
            BY <3>2, <3>3
        <3> QED BY ONLY <1>2, <3>1, <3>4
    <2>2. PICK q \in Int : q = (u - t) * Rate
        BY Constants
    <2>3. 5 * (Len(served') - Len(served)) = 5
        BY ONLY <1>1
    <2>4. PICK z \in Int : z = Gain(t, u) /\ z = q + 5
        BY ONLY <2>2, <2>3 DEF Gain
    <2>5. y + spent <= x + q + 5
        BY <1>2, <2>2 DEF Pays
    <2>6. y + 1000 * Taken(m)' <= x + 1000 * Taken(m) + z
        BY ONLY <2>1, <2>4, <2>5, y \in Int, x \in Int, z \in Int, q \in Int, spent \in Int
    <2>7. Upper(m, x, t, c) /\ served'[m] = served[m] /\ Len(served') \in Int
        BY <1>1 DEF Within
    <2>8. y + 1000 * Taken(m)' <= x + 1000 * Taken(m) + Gain(t, u)
        BY ONLY <2>4, <2>6
    <2>9. Covers(m, x, t, c, y, u, d)
        BY <2>8 DEF Covers, Pays
    <2> QED BY ONLY TypeInv, OrderInv, <2>1, <2>7, <2>9, UpperNext, ZenonT(60)
<1>4. ASSUME NEW m, m = Len(served) + 1
      PROVE  Upper(m, y, u, d)'
    <2>1. Starts(e, y, u, d)
        BY DEF Pays
    <2> QED BY <1>4, <2>1, UpperFresh
<1> QED BY <1>1, <1>3, <1>4 DEF Within

\* A step that serves nobody.
Reaches(x, t, c, y, u, d) ==
    \/ c <= d /\ y <= x + (u - t) * Rate
    \/ c + 1 <= d /\ y <= x + Full + (u - t) * Rate

LEMMA WithinKept ==
    ASSUME TypeInv, OrderInv, served' = served,
           NEW x \in Int, NEW t \in Int, NEW c \in Int, Within(x, t, c),
           NEW y \in Int, NEW u \in Int, NEW d \in Int, Reaches(x, t, c, y, u, d)
    PROVE  Within(y, u, d)'
<1>1. Len(served) \in Int /\ DOMAIN served = 1 .. Len(served)
    BY ServedTypes
<1> SUFFICES ASSUME NEW m \in 1 .. Len(served)
             PROVE  Upper(m, y, u, d)'
    BY <1>1 DEF Within
<1>2. Taken(m) \in Int /\ Taken(m)' = Taken(m)
    <2>1. Taken(m) \in Int
        BY ServedTypes
    <2>2. Taken(m)' = Taken(m)
        BY DEF Taken
    <2> QED BY <2>1, <2>2
<1>3. PICK q \in Int : q = (u - t) * Rate
    BY Constants
<1>4. 5 * (Len(served') - Len(served)) = 0
    BY ONLY <1>1, served' = served
<1>5. Gain(t, u) = q
    BY ONLY <1>3, <1>4 DEF Gain
<1>6. PICK F \in Int : F = Full
    BY Constants
<1>7. \/ c <= d /\ y <= x + q
      \/ c + 1 <= d /\ y <= x + F + q
    BY <1>3, <1>6 DEF Reaches
<1>8. /\ c <= d
      /\ \/ y + 1000 * Taken(m)' <= x + 1000 * Taken(m) + q
         \/ c + 1 <= d /\ y + 1000 * Taken(m)' <= x + 1000 * Taken(m) + F + q
    BY ONLY <1>2, <1>7, x \in Int, y \in Int, c \in Int, d \in Int, q \in Int, F \in Int
<1>9. Covers(m, x, t, c, y, u, d)
    BY ONLY <1>5, <1>6, <1>8 DEF Covers
<1>10. Upper(m, x, t, c) /\ served'[m] = served[m] /\ Len(served') \in Int /\ Taken(m)' \in Int
    BY <1>1, <1>2 DEF Within
<1> QED BY ONLY TypeInv, OrderInv, <1>9, <1>10, UpperNext

LEMMA BudgetBegin ==
    ASSUME NEW h \in Handlers, TypeInv, Budget(h), Begin(h)
    PROVE  Budget(h)'
<1>1. /\ pc[h] = "idle" /\ pc'[h] = "hmget" /\ now'[h] = clock
      /\ clock' = clock /\ bucket' = bucket /\ expires' = expires /\ served' = served
    BY DEF Begin, Goto, TypeInv, TypeOK
<1>2. /\ Refilled(clock)' = Refilled(clock) /\ Refilled(now[h])' = Refilled(clock)
      /\ Stales' = Stales /\ Credit' = Credit /\ (Uncovered' <=> Uncovered)
    BY <1>1 DEF Refilled, Stales, Credit, Uncovered
<1>3. \A m \in DOMAIN served : Taken(m)' = Taken(m)
    BY <1>1 DEF Taken
<1> QED BY <1>1, <1>2, <1>3 DEF Budget, Within, Upper

\* Redis failed and nothing was written.
LEMMA BudgetFailOpen ==
    ASSUME NEW h \in Handlers, TypeInv, OrderInv, Budget(h), pc[h] # "expire",
           LetThrough(h, TRUE, FALSE), UNCHANGED <<clock, bucket, expires>>
    PROVE  Budget(h)'
<1>1. PICK e : /\ e = [at |-> now[h], failOpen |-> TRUE, stale |-> FALSE]
               /\ served' = Append(served, e)
    BY DEF LetThrough
<1>2. e.at = now[h] /\ e.failOpen /\ e.failOpen \in BOOLEAN /\ ~e.stale /\ e.stale \in BOOLEAN
    BY <1>1
<1>3. PICK x \in Int, u \in Int, v \in Int, c \in Int, S \in Int :
          /\ x = Refilled(clock) /\ u = clock /\ v = now[h] /\ c = Credit /\ S = Stales
          /\ x <= Full /\ v <= u /\ S >= 0 /\ S <= c
    BY BudgetTypes
<1>4. (Uncovered => S >= 1) /\ Within(x, u, c)
    BY <1>3 DEF Budget
<1>5. 1 <= c
    <2>1. \/ Uncovered /\ c = S
          \/ ~Uncovered /\ c = S + 1
        BY <1>3 DEF Credit
    <2>2. Uncovered => S >= 1
        BY ONLY <1>3, <1>4
    <2> QED BY ONLY <1>3, <2>1, <2>2, S \in Int, c \in Int
<1>6. Stales' = S
    <2>1. served' = Append(served, e)
        BY <1>1
    <2>2. Stales' = Stales
        BY ONLY TypeInv, <1>2, <2>1, StalesAppended
    <2> QED BY ONLY <1>3, <2>2
<1>7. (Uncovered' <=> Uncovered) /\ Credit' = c /\ Refilled(clock)' = x /\ clock' = u
    BY <1>3, <1>6 DEF Uncovered, Credit, Refilled
<1>8. Pays(e, x, u, c, x, u, c)
    <2>1. PICK q \in Int : q = (u - v) * Rate /\ q >= 0
        BY <1>3, Constants
    <2>2. (u - u) * Rate = 0
        BY Constants
    <2>3. PICK F \in Int : F = Full
        BY Constants
    <2>4. x <= x + 0 + 5 /\ x <= F + q
        BY ONLY <1>3, <2>1, <2>3
    <2>5. x + Spent(e) = x
        BY <1>2 DEF Spent
    <2> QED BY ONLY <1>2, <1>3, <1>5, <2>1, <2>2, <2>3, <2>4, <2>5, c \in Int DEF Pays, Starts
<1>9. e.at \in Int /\ served' = Append(served, e)
    BY <1>1, <1>2, <1>3
<1>10. Within(x, u, c)'
    BY ONLY TypeInv, OrderInv, <1>2, <1>3, <1>4, <1>8, <1>9, WithinServed
<1>11. pc'[h] = "idle"
    BY DEF LetThrough, Goto, TypeInv, TypeOK
<1>12. Within(Refilled(clock), clock, Credit)'
    BY <1>7, <1>10 DEF Within, Upper
<1>13. Uncovered' => Stales' >= 1
    BY <1>4, <1>6, <1>7
<1> QED BY <1>11, <1>12, <1>13 DEF Budget

LEMMA BudgetCheck ==
    ASSUME NEW h \in Handlers, TypeInv, OrderInv, Budget(h), Check(h)
    PROVE  Budget(h)'
<1>1. pc[h] = "hmget" /\ UNCHANGED <<clock, bucket, expires, now>>
    BY DEF Check
<1>2. CASE LetThrough(h, TRUE, FALSE)
    BY <1>1, <1>2, BudgetFailOpen
<1>3. ASSUME UNCHANGED served
      PROVE  /\ Uncovered' => Stales' >= 1
             /\ Within(Refilled(clock), clock, Credit)'
    <2>1. /\ Refilled(clock)' = Refilled(clock) /\ clock' = clock
          /\ Stales' = Stales /\ Credit' = Credit /\ (Uncovered' <=> Uncovered)
        BY <1>1, <1>3 DEF Refilled, Stales, Credit, Uncovered
    <2>2. \A m \in DOMAIN served : Taken(m)' = Taken(m)
        BY <1>3 DEF Taken
    <2> QED BY <1>1, <1>3, <2>1, <2>2 DEF Budget, Within, Upper
<1>4. CASE Goto(h, "idle") /\ UNCHANGED served
    <2>1. pc'[h] = "idle"
        BY <1>4 DEF Goto, TypeInv, TypeOK
    <2> QED BY <1>3, <1>4, <2>1 DEF Budget
<1>5. CASE /\ tokens' = [tokens EXCEPT ![h] = Refilled(now[h]) - 1000]
           /\ Goto(h, "hmset") /\ UNCHANGED served
    <2>1. PICK x \in Int, v \in Int, c \in Int, d \in Int :
              /\ x = Refilled(now[h]) /\ v = now[h] /\ c = Credit /\ d = Stales + 1
              /\ c <= d
        BY <1>1, BudgetTypes
    <2>2. pc'[h] = "hmset" /\ tokens'[h] + 1000 = x /\ now'[h] = v
        BY <1>1, <1>5, <2>1 DEF Goto, TypeInv, TypeOK
    <2>3. Within(x, v, c)
        BY <1>1, <2>1 DEF Budget
    <2>4. (v - v) * Rate = 0
        BY Constants
    <2>5. x <= x + 0
        OBVIOUS
    <2>6. Reaches(x, v, c, x, v, d)
        BY ONLY <2>1, <2>4, <2>5 DEF Reaches
    <2>7. Within(x, v, d)'
        BY ONLY TypeInv, OrderInv, <1>5, <2>1, <2>3, <2>6, WithinKept
    <2>8. Stales' + 1 = d
        BY <1>5, <2>1 DEF Stales
    <2>9. Within(tokens[h] + 1000, now[h], Stales + 1)'
        BY <2>2, <2>7, <2>8 DEF Within, Upper
    <2> QED BY <1>3, <1>5, <2>2, <2>9 DEF Budget
<1> QED BY <1>2, <1>4, <1>5 DEF Check

LEMMA BudgetStore ==
    ASSUME NEW h \in Handlers, TypeInv, OrderInv, Budget(h), Store(h)
    PROVE  Budget(h)'
<1>1. pc[h] = "hmset" /\ UNCHANGED <<clock, expires, now, tokens>>
    BY DEF Store
<1>2. CASE UNCHANGED bucket /\ LetThrough(h, TRUE, FALSE)
    BY <1>1, <1>2, BudgetFailOpen
<1>3. ASSUME Write(h), (Goto(h, "expire") /\ UNCHANGED served) \/ LetThrough(h, TRUE, TRUE)
      PROVE  Budget(h)'
    <2>1. PICK w \in Int, u \in Int, v \in Int, S \in Int :
              /\ w = tokens[h] /\ u = clock /\ v = now[h] /\ S = Stales
              /\ w >= 0 /\ v <= u /\ S >= 0
        BY BudgetTypes
    <2>2. PICK q \in Int : q = (u - v) * Rate /\ q >= 0
        BY <2>1, Constants
    <2>3. PICK F \in Int : F = Full
        BY Constants
    <2>4. PICK r \in Int : r = Refilled(clock)' /\ r <= F /\ r <= w + 5 + q
        <3>1. Refilled(u)' \in Int /\ Refilled(u)' <= Full /\ Refilled(u)' <= w + 5 + q
            BY <1>3, <2>1, <2>2, RefilledAfterWrite
        <3>2. Refilled(clock)' = Refilled(u)'
            BY <1>1, <2>1 DEF Refilled
        <3> QED BY <2>3, <3>1, <3>2
    <2>5. Within(w + 1000, v, S + 1)
        BY <1>1, <2>1 DEF Budget
    <2>6. bucket' # None /\ bucket'.last_refill = now[h]
        BY <1>3, WriteTypes
    <2>7. clock' = u /\ now'[h] = v
        BY <1>1, <2>1
    <2>8. PICK x \in Int, c \in Int : x = w + 1000 /\ c = S + 1 /\ Within(x, v, c)
        BY <2>5
    <2>9. CASE Goto(h, "expire") /\ UNCHANGED served
        <3>1. Stales' + 1 = c /\ served' = served /\ pc'[h] = "expire"
            BY <2>1, <2>8, <2>9 DEF Stales, Goto, TypeInv, TypeOK
        <3>2. Within(995, v, c)'
            <4>1. 995 <= x + 0 /\ c <= c /\ 995 \in Int
                BY <2>1, <2>8
            <4>2. (v - v) * Rate = 0
                BY Constants
            <4>3. Reaches(x, v, c, 995, v, c)
                BY ONLY <4>1, <4>2 DEF Reaches
            <4> QED BY ONLY TypeInv, OrderInv, <2>1, <2>8, <3>1, <4>1, <4>3, WithinKept
        <3>3. PICK y \in Int : y = r + 995 /\ Within(y, u, c)'
            <4>1. PICK y \in Int : y = r + 995
                OBVIOUS
            <4>2. y <= x + q /\ c <= c
                BY <2>4, <2>8, <4>1
            <4>3. Reaches(x, v, c, y, u, c)
                BY ONLY <2>2, <4>2 DEF Reaches
            <4>4. Within(y, u, c)'
                BY ONLY TypeInv, OrderInv, <2>1, <2>8, <3>1, <4>1, <4>3, WithinKept
            <4> QED BY <4>1, <4>4
        <3>4. Within(995, now[h], Stales + 1)'
            BY ONLY <2>7, <3>1, <3>2 DEF Within, Upper
        <3>5. Within(Refilled(clock) + 995, clock,
                     IF bucket = None THEN Stales + 2 ELSE Stales + 1)'
            <4>1. (IF bucket = None THEN Stales + 2 ELSE Stales + 1)' = c
                BY <2>6, <3>1
            <4>2. Refilled(clock)' + 995 = y
                BY <2>4, <3>3
            <4> QED BY ONLY <2>7, <3>3, <4>1, <4>2 DEF Within, Upper
        <3> QED BY <1>1, <2>6, <3>1, <3>4, <3>5 DEF Budget
    <2>10. CASE LetThrough(h, TRUE, TRUE)
        <3>1. PICK e : /\ e = [at |-> now[h], failOpen |-> TRUE, stale |-> TRUE]
                       /\ served' = Append(served, e)
            BY <2>10 DEF LetThrough
        <3>2. e.at = v /\ e.failOpen /\ e.stale
            BY <2>1, <3>1
        <3>3. Stales' = S + 1
            <4>1. served' = Append(served, e) /\ e.stale \in BOOLEAN
                BY <3>1
            <4>2. (e.stale => Stales' = Stales + 1) /\ (~e.stale => Stales' = Stales)
                BY ONLY TypeInv, <4>1, StalesAppended
            <4> QED BY ONLY <2>1, <3>2, <4>2
        <3>4. PICK d \in Int : d = Credit' /\ c <= d /\ 1 <= d
            BY <2>1, <2>8, <3>3 DEF Credit
        <3>5. Pays(e, x, v, c, r, u, d)
            <4>1. r + 0 <= x + q + 5 /\ r + 0 <= F + q
                BY ONLY <2>1, <2>2, <2>3, <2>4, <2>8, r \in Int, x \in Int
            <4>2. Spent(e) = 0
                BY <3>2 DEF Spent
            <4> QED BY ONLY <2>2, <2>3, <3>2, <3>4, <4>1, <4>2 DEF Pays, Starts
        <3>6. Within(r, u, d)'
            <4>1. served' = Append(served, e) /\ e.failOpen \in BOOLEAN /\ e.at \in Int
                BY <2>1, <3>1
            <4>2. Within(x, v, c)
                BY <2>8
            <4> QED BY ONLY TypeInv, OrderInv, <3>5, <4>1, <4>2, WithinServed
        <3>7. Within(Refilled(clock), clock, Credit)'
            BY ONLY <2>4, <2>7, <3>4, <3>6 DEF Within, Upper
        <3>8. pc'[h] = "idle"
            BY <2>10 DEF LetThrough, Goto, TypeInv, TypeOK
        <3>9. Stales' >= 1
            BY <2>1, <3>3
        <3> QED BY <3>7, <3>8, <3>9 DEF Budget
    <2> QED BY <1>3, <2>9, <2>10
<1> QED BY <1>2, <1>3 DEF Store

LEMMA BudgetExpire ==
    ASSUME NEW h \in Handlers, TypeInv, OrderInv, Budget(h), Expire(h)
    PROVE  Budget(h)'
<1>1. pc[h] = "expire" /\ UNCHANGED <<clock, bucket, now>>
    BY DEF Expire
<1>2. PICK u \in Int, v \in Int, S \in Int, r \in Int :
          u = clock /\ v = now[h] /\ S = Stales /\ r = Refilled(clock) /\ v <= u /\ S >= 0 /\ r <= Full
    BY BudgetTypes
<1>3. PICK q \in Int : q = (u - v) * Rate /\ q >= 0
    BY <1>2, Constants
<1>4. PICK F \in Int : F = Full /\ F >= 1000
    BY Constants
<1>5. PICK x \in Int, c \in Int :
          /\ x = r + 995 /\ c = (IF bucket = None THEN S + 2 ELSE S + 1)
          /\ Within(x, u, c)
    <2>1. PICK x \in Int : x = r + 995
        OBVIOUS
    <2>2. PICK c \in Int : c = (IF bucket = None THEN S + 2 ELSE S + 1)
        OBVIOUS
    <2>3. Within(r + 995, u, IF bucket = None THEN S + 2 ELSE S + 1)
        BY <1>1, <1>2 DEF Budget
    <2> QED BY <2>1, <2>2, <2>3
<1>6. bucket # None => r + 1000 <= F + q
    <2>1. SUFFICES ASSUME bucket # None PROVE r + 1000 <= F + q
        OBVIOUS
    <2>2. bucket.last_refill = v /\ bucket.tokens \in Int /\ bucket.tokens + 1000 <= F
        <3>1. bucket.tokens \in 0 .. 1000 * (Burst - 1)
            BY <2>1, RequestTypes
        <3>2. bucket.last_refill = v
            BY <1>1, <1>2, <2>1 DEF Budget
        <3> QED BY <1>4, <3>1, <3>2, Constants DEF Full
    <2>3. r = Least(bucket.tokens + q, Burst * 1000)
        BY <1>2, <1>3, <2>1, <2>2 DEF Refilled
    <2>4. r <= bucket.tokens + q
        BY <2>2, <2>3, Constants DEF Least
    <2> QED BY ONLY <1>2, <1>3, <1>4, <2>2, <2>4, r \in Int, q \in Int, F \in Int
<1>7. ASSUME NEW stale \in BOOLEAN, LetThrough(h, FALSE, stale), expires' \in Int,
             \/ bucket # None /\ ~Uncovered' /\ ~stale
             \/ stale
      PROVE  Budget(h)'
    <2>1. PICK e : /\ e = [at |-> now[h], failOpen |-> FALSE, stale |-> stale]
                   /\ served' = Append(served, e)
        BY <1>7 DEF LetThrough
    <2>2. /\ e.at = v /\ ~e.failOpen /\ e.failOpen \in BOOLEAN /\ e.stale = stale /\ e.stale \in BOOLEAN
          /\ e.at \in Int /\ served' = Append(served, e)
        BY <1>2, <2>1
    <2>3. (stale => Stales' = S + 1) /\ (~stale => Stales' = S)
        <3>1. (e.stale => Stales' = Stales + 1) /\ (~e.stale => Stales' = Stales)
            BY ONLY TypeInv, <2>2, StalesAppended
        <3> QED BY <1>2, <2>2, <3>1
    <2>4. PICK d \in Int : d = Credit' /\ c <= d /\ 1 <= d /\ (bucket = None => d >= 2)
        <3>1. CASE stale /\ bucket = None
            <4>1. ~Uncovered'
                BY <1>1, <3>1 DEF Uncovered
            <4> QED BY <1>2, <1>5, <2>3, <3>1, <4>1 DEF Credit
        <3>2. CASE stale /\ bucket # None
            BY <1>2, <1>5, <2>3, <3>2 DEF Credit
        <3>3. CASE ~stale
            BY <1>2, <1>5, <1>7, <2>3, <3>3 DEF Credit
        <3> QED BY <3>1, <3>2, <3>3
    <2>5. Uncovered' => Stales' >= 1
        BY <1>2, <1>7, <2>3
    <2>6. Pays(e, x, u, c, r, u, d)
        <3>1. PICK z \in Int : z = r + 1000 /\ Spent(e) = 1000 /\ r + Spent(e) = z
            BY <2>2 DEF Spent
        <3>2. (u - u) * Rate = 0
            BY Constants
        <3>3. z <= x + 0 + 5
            BY ONLY <1>5, <3>1, r \in Int
        <3>4. \/ 1 <= d /\ z <= F + q
              \/ 2 <= d /\ z <= F + 1000 + q
            BY ONLY <1>2, <1>3, <1>4, <1>6, <2>4, <3>1, r \in Int, q \in Int, F \in Int
        <3>5. Starts(e, r, u, d)
            BY ONLY <1>3, <1>4, <2>2, <3>1, <3>4 DEF Starts
        <3> QED BY ONLY <2>4, <3>1, <3>2, <3>3, <3>5 DEF Pays
    <2>7. Within(r, u, d)'
        BY ONLY TypeInv, OrderInv, <1>2, <1>5, <2>2, <2>4, <2>6, WithinServed
    <2>8. Refilled(clock)' = r /\ clock' = u
        BY <1>1, <1>2 DEF Refilled
    <2>9. Within(Refilled(clock), clock, Credit)'
        BY ONLY <2>4, <2>7, <2>8 DEF Within, Upper
    <2>10. pc'[h] = "idle"
        BY <1>7 DEF LetThrough, Goto, TypeInv, TypeOK
    <2> QED BY <2>5, <2>9, <2>10 DEF Budget
<1>8. CASE bucket # None /\ expires' = clock + TTL /\ LetThrough(h, FALSE, FALSE)
    <2>1. expires' \in Int /\ expires' >= now[h] + TTL
        BY <1>2, <1>8, Constants
    <2>2. bucket.last_refill = now[h]
        BY <1>1, <1>8 DEF Budget
    <2>3. ~Uncovered'
        BY <1>1, <1>2, <2>1, <2>2, Constants DEF Uncovered
    <2> QED BY <1>7, <1>8, <2>1, <2>3
<1>9. CASE LetThrough(h, FALSE, TRUE) /\ UNCHANGED expires
    <2>1. expires' \in Int
        BY <1>9, RequestTypes
    <2> QED BY <1>7, <1>9, <2>1
<1> QED BY <1>8, <1>9 DEF Expire

\* Time passes and the hash, if there is one, lives on.
LEMMA BudgetWait ==
    ASSUME NEW h \in Handlers, TypeInv, OrderInv, Budget(h),
           NEW w \in Int, clock <= w, clock' = w,
           UNCHANGED <<bucket, expires, pc, now, tokens, served>>
    PROVE  Budget(h)'
<1>1. PICK u \in Int, r \in Int, c \in Int :
          u = clock /\ r = Refilled(clock) /\ c = Credit /\ u <= w
    BY BudgetTypes
<1>2. PICK q \in Int : q = (w - u) * Rate
    BY Constants
<1>3. PICK y \in Int : y = Refilled(clock)' /\ y <= r + q
    <2>1. Refilled(w) \in Int /\ Refilled(w) <= r + q
        BY <1>1, <1>2, RefilledGrows, RefilledType
    <2>2. Refilled(clock)' = Refilled(w)
        BY DEF Refilled
    <2> QED BY <2>1, <2>2
<1>4. /\ Stales' = Stales /\ Credit' = c /\ (Uncovered' <=> Uncovered)
      /\ Refilled(now[h])' = Refilled(now[h]) /\ pc'[h] = pc[h] /\ now'[h] = now[h]
      /\ tokens'[h] = tokens[h] /\ (bucket' = None <=> bucket = None)
    BY <1>1 DEF Stales, Credit, Uncovered, Refilled
<1>5. \A m \in DOMAIN served : Taken(m)' = Taken(m)
    BY DEF Taken
<1>6. CASE pc[h] # "expire"
    <2>1. Within(r, u, c) /\ (Uncovered => Stales >= 1)
        BY <1>1, <1>6 DEF Budget
    <2>2. y <= r + q /\ c <= c
        BY <1>3
    <2>3. Reaches(r, u, c, y, w, c)
        BY ONLY <1>2, <2>2 DEF Reaches
    <2>4. Within(y, w, c)'
        BY ONLY TypeInv, OrderInv, <2>1, <2>3, WithinKept, served' = served,
                r \in Int, u \in Int, c \in Int, y \in Int, w \in Int
    <2>5. Within(Refilled(clock), clock, Credit)'
        BY ONLY <1>3, <1>4, <2>4, clock' = w DEF Within, Upper
    <2>6. pc[h] = "hmget" => Within(Refilled(now[h]), now[h], Credit)'
        <3>1. pc[h] = "hmget" => Within(Refilled(now[h]), now[h], Credit)
            BY DEF Budget
        <3> QED BY <1>1, <1>4, <1>5, <3>1 DEF Within, Upper
    <2>7. pc[h] = "hmset" => Within(tokens[h] + 1000, now[h], Stales + 1)'
        <3>1. pc[h] = "hmset" => Within(tokens[h] + 1000, now[h], Stales + 1)
            BY DEF Budget
        <3> QED BY <1>4, <1>5, <3>1 DEF Within, Upper
    <2> QED BY <1>4, <1>6, <2>1, <2>5, <2>6, <2>7 DEF Budget
<1>7. CASE pc[h] = "expire"
    <2>1. PICK d \in Int : d = (IF bucket = None THEN Stales + 2 ELSE Stales + 1)
        BY BudgetTypes
    <2>2. PICK x \in Int, z \in Int : x = r + 995 /\ z = y + 995 /\ Within(x, u, d)
        <3>1. Within(Refilled(clock) + 995, clock, IF bucket = None THEN Stales + 2 ELSE Stales + 1)
            BY <1>7 DEF Budget
        <3>2. r + 995 \in Int /\ y + 995 \in Int
            OBVIOUS
        <3> QED BY <1>1, <2>1, <3>1, <3>2
    <2>3. z <= x + q /\ d <= d
        BY ONLY <1>3, <2>2, r \in Int, y \in Int, q \in Int, d \in Int
    <2>4. Reaches(x, u, d, z, w, d)
        BY ONLY <1>2, <2>3 DEF Reaches
    <2>5. Within(z, w, d)'
        BY ONLY TypeInv, OrderInv, <2>2, <2>4, WithinKept, served' = served,
                x \in Int, u \in Int, d \in Int, z \in Int, w \in Int
    <2>6. Within(Refilled(clock) + 995, clock, IF bucket = None THEN Stales + 2 ELSE Stales + 1)'
        <3>1. (IF bucket = None THEN Stales + 2 ELSE Stales + 1)' = d /\ Refilled(clock)' + 995 = z
            BY <1>3, <1>4, <2>1, <2>2
        <3> QED BY ONLY <2>5, <3>1, clock' = w DEF Within, Upper
    <2>7. Within(995, now[h], Stales + 1)'
        <3>1. Within(995, now[h], Stales + 1)
            BY <1>7 DEF Budget
        <3> QED BY <1>4, <1>5, <3>1 DEF Within, Upper
    <2>8. bucket' # None => bucket'.last_refill = now'[h]
        BY <1>4, <1>7 DEF Budget
    <2> QED BY <1>4, <1>7, <2>6, <2>7, <2>8 DEF Budget
<1> QED BY <1>6, <1>7

\* Redis drops the hash.  One that was renewed by the last write is full by
\* now; an older one costs the credit that its stale write gave.
LEMMA BudgetDrop ==
    ASSUME NEW h \in Handlers, TypeInv, OrderInv, Budget(h),
           NEW w \in Int, clock <= w, clock' = w, w >= expires,
           pc[h] # "idle" => w - now[h] <= MaxLag,
           bucket' = None, UNCHANGED <<pc, now, tokens, served>>
    PROVE  Budget(h)'
<1>1. PICK u \in Int, v \in Int, r \in Int, S \in Int, c \in Int, F \in Int :
          /\ u = clock /\ v = now[h] /\ r = Refilled(clock) /\ S = Stales /\ c = Credit /\ F = Full
          /\ r >= 0 /\ v <= u /\ F >= 1000
    BY BudgetTypes, Constants
<1>2. PICK q \in Int : q = (w - u) * Rate /\ q >= 0
    BY <1>1, Constants
<1>3. Refilled(clock)' = F /\ Refilled(now[h])' = F
    <2>1. Refilled(clock)' = Burst * 1000 /\ Refilled(now[h])' = Burst * 1000
        BY DEF Refilled
    <2> QED BY <1>1, <2>1, Constants DEF Full
<1>4. PICK d \in Int : d = S + 1
    OBVIOUS
<1>5. /\ Stales' = S /\ ~Uncovered' /\ Credit' = d
      /\ pc'[h] = pc[h] /\ now'[h] = v /\ tokens'[h] = tokens[h]
    BY <1>1, <1>4 DEF Stales, Credit, Uncovered
<1>6. \A m \in DOMAIN served : Taken(m)' = Taken(m)
    BY DEF Taken
<1>7. (Uncovered /\ c = S) \/ (~Uncovered /\ c = d)
    BY <1>1, <1>4 DEF Credit
<1>8. ~Uncovered /\ bucket # None => w - bucket.last_refill >= TTL /\ bucket.last_refill \in Int
    BY RequestTypes, Constants DEF Uncovered
<1>9. ASSUME pc[h] # "expire"
      PROVE  Within(F, w, d)'
    <2>1. Within(r, u, c)
        BY <1>1, <1>9 DEF Budget
    <2>2. \/ c <= d /\ F <= r + q
          \/ c + 1 <= d /\ F <= r + F + q
        <3>1. CASE Uncovered
            BY ONLY <1>1, <1>2, <1>4, <1>7, <3>1, r \in Int, q \in Int, F \in Int, S \in Int, c \in Int, d \in Int
        <3>2. CASE ~Uncovered
            <4>1. bucket # None => w - bucket.last_refill >= TTL - MaxLag
                BY <1>8, <3>2, Constants
            <4>2. Refilled(w) = F
                BY ONLY <1>1, <4>1, TypeInv, w \in Int, RefilledWhole
            <4>3. Refilled(w) <= Refilled(u) + q /\ Refilled(u) = r
                BY <1>1, <1>2, RefilledGrows
            <4> QED BY ONLY <1>7, <3>2, <4>2, <4>3, d \in Int
        <3> QED BY <3>1, <3>2
    <2>3. Reaches(r, u, c, F, w, d)
        BY ONLY <1>2, <1>1, <2>2 DEF Reaches
    <2> QED BY ONLY TypeInv, OrderInv, <2>1, <2>3, WithinKept, served' = served,
                r \in Int, u \in Int, c \in Int, F \in Int, w \in Int, d \in Int
<1>10. ASSUME pc[h] = "hmget"
       PROVE  Within(F, v, d)'
    <2>1. PICK x \in Int : x = Refilled(now[h]) /\ x >= 0 /\ Within(x, v, c)
        BY <1>1, <1>10, BudgetTypes DEF Budget
    <2>2. (v - v) * Rate = 0
        BY Constants
    <2>3. \/ c <= d /\ F <= x + 0
          \/ c + 1 <= d /\ F <= x + F + 0
        <3>1. CASE Uncovered
            BY ONLY <1>4, <1>7, <2>1, <3>1, x \in Int, F \in Int, S \in Int, c \in Int, d \in Int
        <3>2. CASE ~Uncovered
            <4>1. w - v <= MaxLag
                BY <1>1, <1>10
            <4>2. bucket # None => v - bucket.last_refill >= TTL - MaxLag
                BY <1>8, <3>2, <4>1, Constants
            <4>3. Refilled(v) = F
                BY ONLY <1>1, <4>2, TypeInv, v \in Int, RefilledWhole
            <4>4. x = F
                BY <1>1, <2>1, <4>3
            <4> QED BY ONLY <1>7, <3>2, <4>4, F \in Int, d \in Int
        <3> QED BY <3>1, <3>2
    <2>4. Reaches(x, v, c, F, v, d)
        BY ONLY <1>1, <2>2, <2>3 DEF Reaches
    <2> QED BY ONLY TypeInv, OrderInv, <2>1, <2>4, WithinKept, served' = served,
                x \in Int, v \in Int, c \in Int, F \in Int, d \in Int
<1>11. ASSUME pc[h] = "expire"
       PROVE  Within(Refilled(clock) + 995, clock, Stales + 2)'
    <2>1. PICK x \in Int, y \in Int, e \in Int : x = 995 /\ y = F + 995 /\ e = S + 2
        OBVIOUS
    <2>2. Within(x, v, d)
        BY <1>1, <1>4, <1>11, <2>1 DEF Budget
    <2>3. PICK p \in Int : p = (w - v) * Rate /\ p >= 0
        BY <1>1, Constants
    <2>4. d + 1 <= e /\ y <= x + F + p
        BY ONLY <1>4, <2>1, <2>3, F \in Int, p \in Int, S \in Int, d \in Int
    <2>5. Reaches(x, v, d, y, w, e)
        BY ONLY <1>1, <2>3, <2>4 DEF Reaches
    <2>6. Within(y, w, e)'
        BY ONLY TypeInv, OrderInv, <2>2, <2>5, WithinKept, served' = served,
                x \in Int, v \in Int, d \in Int, y \in Int, w \in Int, e \in Int
    <2>7. Refilled(clock)' + 995 = y /\ Stales' + 2 = e
        BY <1>3, <1>5, <2>1
    <2> QED BY ONLY <2>6, <2>7, clock' = w DEF Within, Upper
<1>12. pc[h] # "expire" => Within(Refilled(clock), clock, Credit)'
    BY ONLY <1>3, <1>5, <1>9, clock' = w DEF Within, Upper
<1>13. pc[h] = "hmget" => Within(Refilled(now[h]), now[h], Credit)'
    BY ONLY <1>3, <1>5, <1>10 DEF Within, Upper
<1>14. pc[h] = "hmset" => Within(tokens[h] + 1000, now[h], Stales + 1)'
    <2>1. pc[h] = "hmset" => Within(tokens[h] + 1000, now[h], Stales + 1)
        BY DEF Budget
    <2> QED BY <1>1, <1>5, <1>6, <2>1 DEF Within, Upper
<1>15. pc[h] = "expire" => Within(995, now[h], Stales + 1)'
    <2>1. pc[h] = "expire" => Within(995, now[h], Stales + 1)
        BY DEF Budget
    <2> QED BY <1>1, <1>5, <1>6, <2>1 DEF Within, Upper
<1>16. (IF bucket = None THEN Stales + 2 ELSE Stales + 1)' = (Stales + 2)'
    OBVIOUS
<1>17. pc[h] = "expire" =>
           Within(Refilled(clock) + 995, clock, IF bucket = None THEN Stales + 2 ELSE Stales + 1)'
    BY ONLY <1>11, <1>16 DEF Within, Upper
<1> QED BY <1>5, <1>12, <1>13, <1>14, <1>15, <1>17 DEF Budget

LEMMA BudgetTick ==
    ASSUME NEW h \in Handlers, TypeInv, OrderInv, Budget(h), Tick
    PROVE  Budget(h)'
<1>1. PICK w \in Int : w = clock + Step /\ clock <= w /\ clock' = w
    BY ServedTypes, Constants DEF Tick
<1>2. pc[h] # "idle" => w - now[h] <= MaxLag
    <2>1. pc[h] # "idle" => clock + Step - now[h] <= MaxLag
        BY DEF Tick
    <2>2. now[h] \in Int /\ clock \in Int
        BY RequestTypes
    <2> QED BY <1>1, <2>1, <2>2, Constants
<1>3. UNCHANGED <<pc, now, tokens, served>>
    BY DEF Tick
<1>4. CASE w >= expires
    <2>1. bucket' = None
        BY <1>1, <1>4 DEF Tick
    <2> QED BY <1>1, <1>2, <1>3, <1>4, <2>1, BudgetDrop
<1>5. CASE ~(w >= expires)
    <2>1. UNCHANGED <<bucket, expires>>
        BY <1>1, <1>5 DEF Tick
    <2> QED BY <1>1, <1>3, <2>1, BudgetWait
<1> QED BY <1>4, <1>5

LEMMA BudgetInvInit == ASSUME Init PROVE BudgetInv
<1>1. served = <<>> /\ DOMAIN served = {} /\ \A h \in Handlers : pc[h] = "idle"
    BY DEF Init
<1>2. ~Uncovered
    BY DEF Init, Uncovered
<1> QED BY <1>1, <1>2 DEF BudgetInv, Budget, Within

LEMMA BudgetInvStep ==
    ASSUME NEW h, Handlers = {h}, TypeInv, OrderInv, BudgetInv, [Next]_vars
    PROVE  BudgetInv'
<1>1. h \in Handlers /\ Budget(h)
    BY DEF BudgetInv
<1>2. CASE Begin(h)
    BY <1>1, <1>2, BudgetBegin DEF BudgetInv
<1>3. CASE Check(h)
    BY <1>1, <1>3, BudgetCheck DEF BudgetInv
<1>4. CASE Store(h)
    BY <1>1, <1>4, BudgetStore DEF BudgetInv
<1>5. CASE Expire(h)
    BY <1>1, <1>5, BudgetExpire DEF BudgetInv
<1>6. CASE Tick
    BY <1>1, <1>6, BudgetTick DEF BudgetInv
<1>7. CASE UNCHANGED vars
    <2>1. PICK w \in Int : w = clock /\ clock' = w
        BY <1>7, ServedTypes DEF vars
    <2>2. clock <= w /\ UNCHANGED <<bucket, expires, pc, now, tokens, served>>
        BY <1>7, <2>1 DEF vars
    <2> QED BY <1>1, <2>1, <2>2, BudgetWait DEF BudgetInv
<1> QED BY <1>2, <1>3, <1>4, <1>5, <1>6, <1>7 DEF Next

-----------------------------------------------------------------------------
(***************************************************************************)
(* What the bound says of the requests m .. n, once they are served, never *)
(* changes; with the last request it is the budget at that request's time. *)
(***************************************************************************)
Bounded(m, n) ==
    Cardinality({k \in m .. n : ~served[k].failOpen}) * 1000 <=
        Burst * 1000 * (1 + Cardinality({k \in 1 .. n : served[k].stale}))
            + (served[n].at - served[m].at) * Rate + 5 * (n - m)

LEMMA BoundedKept ==
    ASSUME NEW m \in Int, NEW n \in Int, 1 <= m, m <= n, Bounded(m, n),
           \A k \in 1 .. n : served'[k] = served[k]
    PROVE  Bounded(m, n)'
<1>1. {k \in m .. n : ~served'[k].failOpen} = {k \in m .. n : ~served[k].failOpen}
    <2>1. \A k \in m .. n : served'[k] = served[k]
        OBVIOUS
    <2> QED BY ONLY <2>1
<1>2. {k \in 1 .. n : served'[k].stale} = {k \in 1 .. n : served[k].stale}
    OBVIOUS
<1>3. served'[m] = served[m] /\ served'[n] = served[n]
    OBVIOUS
<1>4. /\ Cardinality({k \in m .. n : ~served'[k].failOpen})
             = Cardinality({k \in m .. n : ~served[k].failOpen})
      /\ Cardinality({k \in 1 .. n : served'[k].stale})
             = Cardinality({k \in 1 .. n : served[k].stale})
    BY ONLY <1>1, <1>2
<1> QED BY ONLY <1>3, <1>4, Bounded(m, n) DEF Bounded

LEMMA AdmissionServed ==
    ASSUME TypeInv, OrderInv, AdmissionBounded, NEW h \in Handlers,
           NEW open \in BOOLEAN, NEW stale \in BOOLEAN, LetThrough(h, open, stale),
           NEW x \in Int, NEW v \in Int, v = now[h], NEW c \in Int, Within(x, v, c),
           c <= Stales + 1, x >= 0, ~open => x >= 995
    PROVE  AdmissionBounded'
<1>1. PICK e : /\ e = [at |-> now[h], failOpen |-> open, stale |-> stale]
               /\ served' = Append(served, e)
    BY DEF LetThrough
<1>2. e.at = v /\ e.failOpen = open /\ e.stale = stale
    BY <1>1
<1>3. /\ Len(served) \in Nat /\ DOMAIN served = 1 .. Len(served)
      /\ Len(served') = Len(served) + 1
      /\ DOMAIN served' = 1 .. Len(served) + 1
      /\ \A k \in 1 .. Len(served) : served'[k] = served[k]
      /\ served'[Len(served) + 1] = e
    BY <1>1, Appended, ServedTypes
<1>4. PICK d \in Int : d = 1 + Stales' /\ c <= d /\ 1 <= d
    <2>1. served' = Append(served, e) /\ e.stale \in BOOLEAN
        BY <1>1
    <2>2. (e.stale => Stales' = Stales + 1) /\ (~e.stale => Stales' = Stales)
        BY ONLY TypeInv, <2>1, StalesAppended
    <2>3. Stales \in Nat
        BY ServedTypes
    <2> QED BY ONLY <2>1, <2>2, <2>3, c <= Stales + 1, c \in Int
<1>5. PICK z \in Int : z = 0
    OBVIOUS
<1>6. Pays(e, x, v, c, z, v, d)
    <2>1. PICK F \in Int : F = Full /\ F >= 1000
        BY Constants
    <2>2. PICK s \in Int : s = Spent(e) /\ s >= 0 /\ s <= x + 5 /\ s <= 1000
        BY <1>2 DEF Spent
    <2>3. (v - v) * Rate = 0 /\ (v - e.at) * Rate = 0
        BY <1>2, Constants
    <2>4. z + s <= x + 0 + 5 /\ z + s <= F + 0
        BY ONLY <1>5, <2>1, <2>2, x \in Int
    <2> QED BY ONLY <1>4, <2>1, <2>2, <2>3, <2>4 DEF Pays, Starts
<1>7. Within(z, v, d)'
    <2>1. served' = Append(served, e) /\ e.failOpen \in BOOLEAN /\ e.at \in Int
        BY <1>1, <1>2
    <2> QED BY ONLY TypeInv, OrderInv, <1>6, <2>1, Within(x, v, c), WithinServed,
                x \in Int, v \in Int, c \in Int, z \in Int, d \in Int
<1>8. ASSUME NEW m \in 1 .. Len(served) + 1, NEW n, n = Len(served) + 1
      PROVE  Bounded(m, n)'
    <2>1. Upper(m, z, v, d)'
        BY <1>3, <1>7 DEF Within
    <2>2. PICK T : T = Taken(m)' /\ T = Cardinality({k \in m .. n : ~served'[k].failOpen})
        BY ONLY <1>3, <1>8 DEF Taken
    <2>3. PICK S : S = Stales' /\ S = Cardinality({k \in 1 .. n : served'[k].stale})
        BY ONLY <1>3, <1>8 DEF Stales
    <2>4. served'[n].at = v
        BY <1>2, <1>3, <1>8
    <2>5. PICK a : a = served'[m].at
        OBVIOUS
    <2>6. z + 1000 * T <= Full * d + (v - a) * Rate + 5 * (n - m)
        BY ONLY <1>3, <1>8, <2>1, <2>2, <2>5 DEF Upper
    <2>7. T \in Int
        <3>1. CASE m \in 1 .. Len(served)
            <4>1. served' = Append(served, e) /\ e.failOpen \in BOOLEAN
                BY <1>1
            <4>2. (e.failOpen => Taken(m)' = Taken(m)) /\ (~e.failOpen => Taken(m)' = Taken(m) + 1)
                BY ONLY TypeInv, <3>1, <4>1, TakenAppended
            <4>3. Taken(m) \in Nat
                BY <3>1, ServedTypes
            <4>4. Taken(m)' = Taken(m) \/ Taken(m)' = Taken(m) + 1
                BY ONLY <4>1, <4>2
            <4> QED BY ONLY <2>2, <4>3, <4>4
        <3>2. CASE m = Len(served) + 1
            <4>1. served' = Append(served, e) /\ e.failOpen \in BOOLEAN
                BY <1>1
            <4>2. (e.failOpen => Taken(m)' = 0) /\ (~e.failOpen => Taken(m)' = 1)
                BY ONLY TypeInv, <3>2, <4>1, TakenNew
            <4>3. Taken(m)' = 0 \/ Taken(m)' = 1
                BY ONLY <4>1, <4>2
            <4> QED BY ONLY <2>2, <4>3
        <3> QED BY <1>3, <3>1, <3>2
    <2>8. T * 1000 <= Burst * 1000 * (1 + S) + (v - a) * Rate + 5 * (n - m)
        <3>1. z + 1000 * T = T * 1000
            BY ONLY <1>5, <2>7
        <3>2. Full * d = Burst * 1000 * (1 + S)
            <4>1. Burst \in Int
                BY Constants
            <4> QED BY ONLY <1>4, <2>3, <4>1, d \in Int DEF Full
        <3> QED BY ONLY <2>6, <3>1, <3>2
    <2> QED BY ONLY <2>2, <2>3, <2>4, <2>5, <2>8 DEF Bounded
<1>9. ASSUME NEW m \in 1 .. Len(served), NEW n \in 1 .. Len(served), m <= n
      PROVE  Bounded(m, n)'
    <2>1. Bounded(m, n)
        <3>1. \A i, j \in DOMAIN served : i <= j => Bounded(i, j)
            BY ONLY AdmissionBounded, Zenon DEF AdmissionBounded, Bounded
        <3> QED BY ONLY <1>3, <1>9, <3>1
    <2>2. \A k \in 1 .. n : served'[k] = served[k]
        BY <1>3
    <2>3. m \in Int /\ n \in Int /\ 1 <= m
        BY <1>3
    <2> QED BY <1>9, <2>1, <2>2, <2>3, BoundedKept
<1>10. ASSUME NEW m \in DOMAIN served', NEW n \in DOMAIN served', m <= n
       PROVE  Bounded(m, n)'
    <2>1. n = Len(served) + 1 \/ (n \in 1 .. Len(served) /\ m \in 1 .. Len(served))
        BY <1>3, <1>10
    <2> QED BY <1>3, <1>8, <1>9, <1>10, <2>1
<1> QED BY <1>10 DEF AdmissionBounded, Bounded

LEMMA AdmissionStep ==
    ASSUME NEW h, Handlers = {h}, TypeInv, OrderInv, BudgetInv, AdmissionBounded, [Next]_vars
    PROVE  AdmissionBounded'
<1>1. h \in Handlers /\ Budget(h)
    BY DEF BudgetInv
<1>2. PICK v \in Int, S \in Int : v = now[h] /\ S = Stales
    BY <1>1, BudgetTypes
<1>3. CASE served' = served
    BY <1>3 DEF AdmissionBounded
<1>4. CASE Check(h) /\ LetThrough(h, TRUE, FALSE)
    <2>1. pc[h] = "hmget"
        BY <1>4 DEF Check
    <2>2. PICK x \in Int, c \in Int : x = Refilled(now[h]) /\ c = Credit /\ x >= 0 /\ c <= Stales + 1
        BY <1>1, <2>1, BudgetTypes
    <2>3. Within(x, v, c)
        BY <1>1, <1>2, <2>1, <2>2 DEF Budget
    <2> QED BY <1>1, <1>2, <1>4, <2>2, <2>3, AdmissionServed
<1>5. CASE Store(h) /\ served' # served
    <2>1. pc[h] = "hmset" /\ \E stale \in BOOLEAN : LetThrough(h, TRUE, stale)
        BY <1>5 DEF Store
    <2>2. PICK x \in Int, c \in Int : x = tokens[h] + 1000 /\ c = Stales + 1 /\ x >= 0
        BY <1>1, BudgetTypes
    <2>3. Within(x, v, c)
        BY <1>1, <1>2, <2>1, <2>2 DEF Budget
    <2>4. c <= Stales + 1
        BY <1>2, <2>2
    <2>5. PICK open \in BOOLEAN, stale \in BOOLEAN : open = TRUE /\ LetThrough(h, open, stale)
        BY <2>1
    <2>6. (~open => x >= 995) /\ x >= 0
        BY <2>2, <2>5
    <2>7. LetThrough(h, open, stale)
        BY <2>5
    <2> QED BY ONLY TypeInv, OrderInv, AdmissionBounded, <1>1, <1>2, <2>3, <2>4, <2>6, <2>7,
                    x \in Int, v \in Int, c \in Int, AdmissionServed
<1>6. CASE Expire(h)
    <2>1. pc[h] = "expire" /\ \E stale \in BOOLEAN : LetThrough(h, FALSE, stale)
        BY <1>6 DEF Expire
    <2>2. PICK x \in Int, c \in Int : x = 995 /\ c = Stales + 1 /\ c <= Stales + 1
        BY <1>2
    <2>3. Within(x, v, c)
        BY <1>1, <1>2, <2>1, <2>2 DEF Budget
    <2>4. x >= 0 /\ x >= 995
        BY <2>2
    <2>5. PICK open \in BOOLEAN, stale \in BOOLEAN : open = FALSE /\ LetThrough(h, open, stale)
        BY <2>1
    <2>6. (~open => x >= 995) /\ c <= Stales + 1
        BY <2>2, <2>4
    <2>7. LetThrough(h, open, stale)
        BY <2>5
    <2> QED BY ONLY TypeInv, OrderInv, AdmissionBounded, <1>1, <1>2, <2>3, <2>4, <2>6, <2>7,
                    x \in Int, v \in Int, c \in Int, AdmissionServed
<1> QED BY <1>3, <1>4, <1>5, <1>6 DEF Next, Begin, Check, Tick, vars

\* One request at a time, in any window at most Burst requests are admitted by
\* a token, plus what Rate and the rounding of "%.2f" give, plus one Burst per
\* write whose EXPIRE was lost or came too late (Allow): for every rate, burst
\* and clock step, and every TTL long enough to fill the bucket.
THEOREM AdmissionIsBounded ==
    ASSUME NEW h, Handlers = {h}
    PROVE  Spec => []AdmissionBounded
<1> DEFINE Inv == TypeInv /\ OrderInv /\ BudgetInv /\ AdmissionBounded
<1>1. Init => Inv
    <2>1. Init => AdmissionBounded
        <3>1. Init => DOMAIN served = {}
            BY DEF Init
        <3> QED BY <3>1 DEF AdmissionBounded
    <2> QED BY <2>1, TypeInvInit, OrderInvInit, BudgetInvInit
<1>2. Inv /\ [Next]_vars => Inv'
    BY TypeInvStep, OrderInvStep, BudgetInvStep, AdmissionStep
<1>3. Inv => AdmissionBounded
    OBVIOUS
<1> QED BY <1>1, <1>2, <1>3, PTL DEF Spec

(***************************************************************************)
(* What is left in the bucket: it is full, or some window of requests used *)
(* what is missing.  more counts the request that has written but has not  *)
(* gone on yet.                                                            *)
(***************************************************************************)
Window(x, t, more) ==
    \E m \in DOMAIN served :
        x >= Full + (t - served[m].at) * Rate - 1005 * (Len(served) - m + 1 + more)

Lower(x, t) == x >= Full \/ Window(x, t, 0)

Rest(h) ==
    /\ pc[h] # "expire" => Lower(Refilled(clock), clock)
    /\ pc[h] = "hmget" => Lower(Refilled(now[h]), now[h])
    /\ pc[h] = "hmset" => Lower(tokens[h] + 1000, now[h])
    /\ pc[h] = "expire" =>
          \/ Refilled(clock) >= Full
          \/ Window(Refilled(clock), clock, 1)
          \/ Refilled(clock) >= Full + (clock - now[h]) * Rate - 1005

RestInv == \A h \in Handlers : Rest(h)

-----------------------------------------------------------------------------
LEMMA RestTypes ==
    ASSUME TypeInv, NEW h \in Handlers
    PROVE  /\ now[h] \in Int /\ clock \in Int /\ now[h] <= clock /\ tokens[h] \in Int
           /\ Refilled(clock) \in Int /\ Refilled(now[h]) \in Int
           /\ Full \in Int /\ Full >= 1000 /\ Rate \in Nat
BY RequestTypes, RefilledType, Constants

\* Until it is full the bucket gains exactly what the time earns.
LEMMA RefilledExactly ==
    ASSUME TypeInv, NEW t \in Int, NEW u \in Int, t <= u
    PROVE  Refilled(u) >= Full \/ Refilled(u) >= Refilled(t) + (u - t) * Rate
<1>1. Rate \in Nat /\ Burst \in Nat /\ Full = Burst * 1000
    BY Constants DEF Full
<1>2. CASE bucket = None
    BY <1>1, <1>2 DEF Refilled
<1>3. CASE bucket # None
    <2>1. bucket.last_refill \in Int /\ bucket.tokens \in Int
        BY <1>3 DEF TypeInv
    <2>2. PICK p \in Int, q \in Int, r \in Int :
              /\ p = (u - bucket.last_refill) * Rate /\ q = (t - bucket.last_refill) * Rate
              /\ r = (u - t) * Rate /\ p = q + r
        BY <1>1, <2>1
    <2>3. /\ Refilled(u) = Least(bucket.tokens + p, Burst * 1000)
          /\ Refilled(t) = Least(bucket.tokens + q, Burst * 1000)
        BY <1>3, <2>2 DEF Refilled
    <2>4. PICK F \in Int : F = Full /\ F = Burst * 1000
        BY <1>1
    <2>5. Refilled(u) >= F \/ Refilled(u) >= Refilled(t) + r
        BY ONLY <2>1, <2>2, <2>3, <2>4, p \in Int, q \in Int, r \in Int, F \in Int DEF Least
    <2> QED BY ONLY <2>2, <2>4, <2>5
<1> QED BY <1>2, <1>3

\* y at u is what is left of x at t after the requests that the step serves and
\* those that have written but not gone on.
Falls(x, t, j, y, u, k) ==
    y >= x + (u - t) * Rate - 1005 * ((Len(served') - Len(served)) + (k - j))

LEMMA WindowNext ==
    ASSUME TypeInv, NEW e, served' = served \/ served' = Append(served, e),
           NEW x \in Int, NEW t \in Int, NEW j \in Int, Window(x, t, j),
           NEW y \in Int, NEW u \in Int, NEW k \in Int, Falls(x, t, j, y, u, k)
    PROVE  Window(y, u, k)'
<1>1. PICK m \in DOMAIN served :
          x >= Full + (t - served[m].at) * Rate - 1005 * (Len(served) - m + 1 + j)
    BY DEF Window
<1>2. Len(served) \in Nat /\ DOMAIN served = 1 .. Len(served) /\ served[m].at \in Int
    BY ServedTypes
<1>3. m \in DOMAIN served' /\ served'[m] = served[m] /\ Len(served') \in Int
    <2>1. CASE served' = served
        BY <1>2, <2>1
    <2>2. CASE served' = Append(served, e)
        BY <1>2, <2>2, Appended
    <2> QED BY <2>1, <2>2
<1>4. PICK n \in Int, l \in Int, i \in Int, a \in Int, F \in Int :
          n = Len(served) /\ l = Len(served') - Len(served) /\ i = m /\ a = served[m].at /\ F = Full
    <2>1. PICK n \in Int : n = Len(served)
        <3>1. Len(served) \in Int
            BY ServedTypes
        <3> QED BY ONLY <3>1, Zenon
    <2>2. PICK z \in Int : z = Len(served')
        BY ONLY <1>3, Zenon
    <2>3. PICK l \in Int : l = z - n
        OBVIOUS
    <2>4. PICK i \in Int : i = m
        BY ONLY <1>2
    <2>5. PICK a \in Int, F \in Int : a = served[m].at /\ F = Full
        BY ONLY <1>2, Constants
    <2> QED BY <2>1, <2>2, <2>3, <2>4, <2>5
<1>5. PICK p \in Int, q \in Int, r \in Int :
          p = (t - a) * Rate /\ q = (u - t) * Rate /\ r = (u - a) * Rate /\ r = p + q
    BY ONLY t \in Int, u \in Int, a \in Int, Constants
<1>6. x >= F + p - 1005 * (n - i + 1 + j)
    BY ONLY <1>1, <1>4, <1>5
<1>7. y >= x + q - 1005 * (l + (k - j))
    BY ONLY <1>4, <1>5, Falls(x, t, j, y, u, k) DEF Falls
<1>8. y >= F + r - 1005 * ((n + l) - i + 1 + k)
    BY ONLY <1>5, <1>6, <1>7, x \in Int, y \in Int, F \in Int, p \in Int, q \in Int, r \in Int,
            n \in Int, l \in Int, i \in Int, j \in Int, k \in Int
<1>9. n + l = Len(served')
    BY ONLY <1>2, <1>3, <1>4
<1>10. y >= Full + (u - served'[m].at) * Rate - 1005 * (Len(served') - m + 1 + k)
    BY ONLY <1>3, <1>4, <1>5, <1>8, <1>9
<1> QED BY ONLY <1>3, <1>10 DEF Window

\* The window of the request itself.
LEMMA WindowFresh ==
    ASSUME TypeInv, NEW e, served' = Append(served, e), e.at \in Int,
           NEW y \in Int, NEW u \in Int, y >= Full + (u - e.at) * Rate - 1005
    PROVE  Window(y, u, 0)'
<1>1. PICK n \in Nat : n = Len(served) + 1
    BY ServedTypes
<1>2. n \in DOMAIN served' /\ Len(served') = n /\ served'[n] = e
    BY <1>1, Appended, ServedTypes
<1>3. 1005 * (n - n + 1 + 0) = 1005
    OBVIOUS
<1>4. y >= Full + (u - served'[n].at) * Rate - 1005 * (Len(served') - n + 1 + 0)
    BY ONLY <1>2, <1>3, y >= Full + (u - e.at) * Rate - 1005
<1> QED BY ONLY <1>2, <1>4 DEF Window

\* A request that has written nothing is let through.
LEMMA LowerServed ==
    ASSUME TypeInv, NEW e, served' = Append(served, e),
           NEW x \in Int, NEW t \in Int, Lower(x, t)
    PROVE  Lower(x, t)'
<1>1. CASE x >= Full
    BY <1>1 DEF Lower
<1>2. CASE Window(x, t, 0)
    <2>1. (t - t) * Rate = 0
        BY Constants
    <2>2. Len(served') - Len(served) = 1
        BY Appended, ServedTypes
    <2>3. x >= x + 0 - 1005 * (1 + (0 - 0))
        OBVIOUS
    <2>4. Falls(x, t, 0, x, t, 0)
        BY ONLY <2>1, <2>2, <2>3 DEF Falls
    <2>5. Window(x, t, 0)'
        BY <1>2, <2>4, WindowNext
    <2> QED BY <2>5 DEF Lower
<1> QED BY <1>1, <1>2 DEF Lower

LEMMA RestBegin ==
    ASSUME NEW h \in Handlers, TypeInv, Rest(h), Begin(h)
    PROVE  Rest(h)'
<1>1. /\ pc[h] = "idle" /\ pc'[h] = "hmget" /\ now'[h] = clock
      /\ clock' = clock /\ bucket' = bucket /\ served' = served
    BY DEF Begin, Goto, TypeInv, TypeOK
<1>2. Refilled(clock)' = Refilled(clock) /\ Refilled(now[h])' = Refilled(clock)
    BY <1>1 DEF Refilled
<1> QED BY <1>1, <1>2 DEF Rest, Lower, Window

\* Neither the bucket nor the clock changes.
LEMMA RestUnwritten ==
    ASSUME NEW h \in Handlers, TypeInv, Rest(h), pc[h] # "expire",
           UNCHANGED <<clock, bucket>>, NEW e, served' = served \/ served' = Append(served, e)
    PROVE  Lower(Refilled(clock), clock)'
<1>1. PICK x \in Int, t \in Int : x = Refilled(clock) /\ t = clock
    BY RestTypes
<1>2. Lower(x, t)
    BY <1>1 DEF Rest
<1>3. Lower(x, t)'
    <2>1. CASE served' = served
        BY <1>2, <2>1 DEF Lower, Window
    <2>2. CASE served' = Append(served, e)
        BY <1>2, <2>2, LowerServed
    <2> QED BY <2>1, <2>2
<1>4. Refilled(clock)' = x /\ clock' = t
    BY <1>1 DEF Refilled
<1> QED BY <1>3, <1>4 DEF Lower, Window

LEMMA RestCheck ==
    ASSUME NEW h \in Handlers, TypeInv, Rest(h), Check(h)
    PROVE  Rest(h)'
<1>1. pc[h] = "hmget" /\ UNCHANGED <<clock, bucket, now>>
    BY DEF Check
<1>2. CASE LetThrough(h, TRUE, FALSE)
    <2>1. Lower(Refilled(clock), clock)'
        BY <1>1, <1>2, RestUnwritten DEF LetThrough
    <2>2. pc'[h] = "idle"
        BY <1>2 DEF LetThrough, Goto, TypeInv, TypeOK
    <2> QED BY <2>1, <2>2 DEF Rest
<1>3. CASE Goto(h, "idle") /\ UNCHANGED served
    <2>1. Lower(Refilled(clock), clock)'
        BY <1>1, <1>3, RestUnwritten
    <2>2. pc'[h] = "idle"
        BY <1>3 DEF Goto, TypeInv, TypeOK
    <2> QED BY <2>1, <2>2 DEF Rest
<1>4. CASE /\ tokens' = [tokens EXCEPT ![h] = Refilled(now[h]) - 1000]
           /\ Goto(h, "hmset") /\ UNCHANGED served
    <2>1. Lower(Refilled(clock), clock)'
        BY <1>1, <1>4, RestUnwritten
    <2>2. PICK x \in Int, v \in Int : x = Refilled(now[h]) /\ v = now[h]
        BY RestTypes
    <2>3. pc'[h] = "hmset" /\ tokens'[h] + 1000 = x /\ now'[h] = v
        BY <1>1, <1>4, <2>2 DEF Goto, TypeInv, TypeOK
    <2>4. Lower(x, v)
        BY <1>1, <2>2 DEF Rest
    <2>5. Lower(tokens[h] + 1000, now[h])'
        BY <1>4, <2>3, <2>4 DEF Lower, Window
    <2> QED BY <2>1, <2>3, <2>5 DEF Rest
<1> QED BY <1>2, <1>3, <1>4 DEF Check

LEMMA RestStore ==
    ASSUME NEW h \in Handlers, TypeInv, Rest(h), Store(h)
    PROVE  Rest(h)'
<1>1. pc[h] = "hmset" /\ UNCHANGED <<clock, now, tokens>>
    BY DEF Store
<1>2. CASE UNCHANGED bucket /\ LetThrough(h, TRUE, FALSE)
    <2>1. Lower(Refilled(clock), clock)'
        BY <1>1, <1>2, RestUnwritten DEF LetThrough
    <2>2. pc'[h] = "idle"
        BY <1>2 DEF LetThrough, Goto, TypeInv, TypeOK
    <2> QED BY <2>1, <2>2 DEF Rest
<1>3. ASSUME Write(h), (Goto(h, "expire") /\ UNCHANGED served) \/ LetThrough(h, TRUE, TRUE)
      PROVE  Rest(h)'
    <2>1. PICK u \in Int, v \in Int, w \in Int, F \in Int, q \in Int, x \in Int, z \in Int :
              /\ u = clock /\ v = now[h] /\ w = tokens[h] /\ F = Full /\ q = (u - v) * Rate
              /\ x = w + 1000 /\ z = 0
        <3>1. PICK u \in Int, v \in Int, w \in Int, F \in Int :
                  u = clock /\ v = now[h] /\ w = tokens[h] /\ F = Full
            BY RestTypes
        <3>2. PICK q \in Int : q = (u - v) * Rate
            BY Constants
        <3>3. PICK x \in Int, z \in Int : x = w + 1000 /\ z = 0
            OBVIOUS
        <3> QED BY ONLY <3>1, <3>2, <3>3
    <2>2. PICK y \in Int : y = Refilled(clock)' /\ (y >= F \/ y >= w - 5 + q)
        <3>1. bucket' # None /\ bucket'.last_refill = v /\ bucket'.tokens \in Int /\ bucket'.tokens >= w - 5
            BY <1>3, <2>1, WriteTypes, Constants
        <3>2. Refilled(clock)' = Least(bucket'.tokens + q, Burst * 1000)
            BY <1>1, <2>1, <3>1 DEF Refilled
        <3>3. F = Burst * 1000
            BY <2>1, Constants DEF Full
        <3> QED BY ONLY <3>1, <3>2, <3>3, F \in Int, q \in Int, w \in Int DEF Least
    <2>3. Lower(x, v)
        BY <1>1, <2>1 DEF Rest
    <2>4. clock' = u /\ now'[h] = v
        BY <1>1, <2>1
    <2>5. CASE Goto(h, "expire") /\ UNCHANGED served
        <3>1. pc'[h] = "expire"
            BY <2>5 DEF Goto, TypeInv, TypeOK
        <3>2. y >= F \/ Window(y, u, 1)' \/ y >= F + q - 1005
            <4>1. CASE x >= F
                BY ONLY <2>1, <2>2, <4>1, y \in Int, F \in Int, q \in Int, w \in Int
            <4>2. CASE Window(x, v, 0) /\ y >= w - 5 + q
                <5>1. PICK l \in Int : l = Len(served') - Len(served) /\ l = 0
                    BY <2>5, ServedTypes
                <5>2. y >= x + q - 1005 * (l + (1 - 0))
                    <6>1. l = 0 /\ x = w + 1000 /\ y >= w - 5 + q
                        BY <2>1, <4>2, <5>1
                    <6> QED BY ONLY <6>1, y \in Int, q \in Int, w \in Int, x \in Int, l \in Int
                <5>3. Falls(x, v, 0, y, u, 1)
                    BY ONLY <2>1, <5>1, <5>2 DEF Falls
                <5>4. Window(x, v, 0) /\ 0 \in Int /\ 1 \in Int /\ served' = served
                    BY <2>5, <4>2
                <5> QED BY ONLY TypeInv, <5>3, <5>4, WindowNext,
                                x \in Int, v \in Int, y \in Int, u \in Int
            <4> QED BY <2>1, <2>2, <2>3, <4>1, <4>2 DEF Lower
        <3>3. \/ Refilled(clock)' >= Full
              \/ Window(Refilled(clock), clock, 1)'
              \/ Refilled(clock)' >= Full + (clock' - now'[h]) * Rate - 1005
            BY ONLY <2>1, <2>2, <2>4, <3>2 DEF Window
        <3> QED BY ONLY <3>1, <3>3 DEF Rest
    <2>6. CASE LetThrough(h, TRUE, TRUE)
        <3>1. PICK e : e = [at |-> now[h], failOpen |-> TRUE, stale |-> TRUE] /\ served' = Append(served, e)
            BY <2>6 DEF LetThrough
        <3>2. e.at = v /\ pc'[h] = "idle"
            BY <2>1, <2>6, <3>1 DEF LetThrough, Goto, TypeInv, TypeOK
        <3>3. Lower(y, u)'
            <4>1. CASE y >= F
                BY <2>1, <4>1 DEF Lower
            <4>2. CASE x >= F /\ y >= w - 5 + q
                <5>1. y >= F + q - 1005
                    BY ONLY <2>1, <4>2, y \in Int, F \in Int, q \in Int, w \in Int
                <5>2. y >= Full + (u - e.at) * Rate - 1005
                    BY ONLY <2>1, <3>2, <5>1
                <5>3. served' = Append(served, e) /\ e.at \in Int
                    BY <3>1, <3>2
                <5> QED BY <5>2, <5>3, WindowFresh DEF Lower
            <4>3. CASE Window(x, v, 0) /\ y >= w - 5 + q
                <5>1. Len(served') - Len(served) = 1
                    BY <3>1, Appended, ServedTypes
                <5>2. y >= x + q - 1005 * (1 + (0 - 0))
                    BY ONLY <2>1, <4>3, y \in Int, q \in Int, w \in Int, x \in Int
                <5>3. Falls(x, v, 0, y, u, 0)
                    BY ONLY <2>1, <5>1, <5>2 DEF Falls
                <5>4. Window(x, v, 0) /\ 0 \in Int /\ served' = Append(served, e)
                    BY <3>1, <4>3
                <5>5. Window(y, u, 0)'
                    BY ONLY TypeInv, <5>3, <5>4, WindowNext,
                            x \in Int, v \in Int, y \in Int, u \in Int
                <5> QED BY <5>5 DEF Lower
            <4> QED BY <2>1, <2>2, <2>3, <4>1, <4>2, <4>3 DEF Lower
        <3>4. Lower(Refilled(clock), clock)'
            BY ONLY <2>2, <2>4, <3>3 DEF Lower, Window
        <3> QED BY <3>2, <3>4 DEF Rest
    <2> QED BY <1>3, <2>5, <2>6
<1> QED BY <1>2, <1>3 DEF Store

LEMMA RestExpire ==
    ASSUME NEW h \in Handlers, TypeInv, Rest(h), Expire(h)
    PROVE  Rest(h)'
<1>1. pc[h] = "expire" /\ UNCHANGED <<clock, bucket>>
    BY DEF Expire
<1>2. PICK e : e.at = now[h] /\ served' = Append(served, e)
    BY DEF Expire, LetThrough
<1>3. pc'[h] = "idle"
    BY DEF Expire, LetThrough, Goto, TypeInv, TypeOK
<1>4. PICK y \in Int, u \in Int, v \in Int : y = Refilled(clock) /\ u = clock /\ v = now[h]
    BY RestTypes
<1>5. Lower(y, u)'
    <2>1. CASE y >= Full
        BY <2>1 DEF Lower
    <2>2. CASE Window(y, u, 1)
        <3>1. (u - u) * Rate = 0
            BY Constants
        <3>2. Len(served') - Len(served) = 1
            BY <1>2, Appended, ServedTypes
        <3>3. y >= y + 0 - 1005 * (1 + (0 - 1))
            OBVIOUS
        <3>4. Falls(y, u, 1, y, u, 0)
            BY ONLY <3>1, <3>2, <3>3 DEF Falls
        <3>5. Window(y, u, 1) /\ 0 \in Int /\ 1 \in Int /\ served' = Append(served, e)
            BY <1>2, <2>2
        <3>6. Window(y, u, 0)'
            BY ONLY TypeInv, <3>4, <3>5, WindowNext, y \in Int, u \in Int
        <3> QED BY <3>6 DEF Lower
    <2>3. CASE y >= Full + (clock - now[h]) * Rate - 1005
        <3>1. y >= Full + (u - e.at) * Rate - 1005 /\ e.at \in Int
            BY <1>2, <1>4, <2>3
        <3> QED BY <1>2, <3>1, WindowFresh DEF Lower
    <2> QED BY <1>1, <1>4, <2>1, <2>2, <2>3 DEF Rest
<1>6. Refilled(clock)' = y /\ clock' = u
    BY <1>1, <1>4 DEF Refilled
<1>7. Lower(Refilled(clock), clock)'
    BY ONLY <1>5, <1>6 DEF Lower, Window
<1> QED BY <1>3, <1>7 DEF Rest

LEMMA RestTick ==
    ASSUME NEW h \in Handlers, TypeInv, Rest(h), Tick
    PROVE  Rest(h)'
<1>1. UNCHANGED <<pc, now, tokens, served>>
    BY DEF Tick
<1>2. PICK u \in Int, w \in Int, v \in Int, x \in Int, F \in Int, q \in Int :
          /\ u = clock /\ v = now[h] /\ x = Refilled(clock) /\ F = Full
          /\ w = clock + Step /\ u <= w /\ clock' = w /\ q = (w - u) * Rate
    BY RestTypes, Constants DEF Tick
<1>3. pc[h] = "hmset" => Lower(tokens[h] + 1000, now[h])'
    BY <1>1 DEF Rest, Lower, Window
<1>4. CASE bucket' = None
    <2>1. Refilled(clock)' = F /\ Refilled(now[h])' = F
        <3>1. Refilled(clock)' = Burst * 1000 /\ Refilled(now[h])' = Burst * 1000
            BY <1>4 DEF Refilled
        <3> QED BY <1>2, <3>1, Constants DEF Full
    <2>2. Refilled(clock)' >= Full /\ Refilled(now[h])' >= Full
        BY ONLY <1>2, <2>1, F \in Int
    <2>3. Lower(Refilled(clock), clock)' /\ Lower(Refilled(now[h]), now[h])'
        BY ONLY <2>2 DEF Lower
    <2> QED BY ONLY <1>1, <1>3, <2>2, <2>3 DEF Rest
<1>5. CASE bucket' = bucket
    <2>1. PICK y \in Int : y = Refilled(clock)' /\ (y >= F \/ y >= x + q)
        <3>1. Refilled(w) \in Int /\ (Refilled(w) >= F \/ Refilled(w) >= x + q)
            BY <1>2, RefilledExactly, RefilledType
        <3>2. Refilled(clock)' = Refilled(w)
            BY <1>2, <1>5 DEF Refilled
        <3> QED BY <3>1, <3>2
    <2>2. ASSUME NEW j \in Int, Window(x, u, j), y >= x + q
          PROVE  Window(y, w, j)'
        <3>1. PICK l \in Int : l = Len(served') - Len(served) /\ l = 0
            BY <1>1, ServedTypes
        <3>2. y >= x + q - 1005 * (l + (j - j))
            BY ONLY <2>2, <3>1, x \in Int, y \in Int, q \in Int, j \in Int
        <3>3. Falls(x, u, j, y, w, j)
            BY ONLY <1>2, <3>1, <3>2 DEF Falls
        <3>4. served' = served
            BY <1>1
        <3> QED BY ONLY TypeInv, <2>2, <3>3, <3>4, WindowNext,
                        x \in Int, u \in Int, j \in Int, y \in Int, w \in Int
    <2>3. pc[h] # "expire" => Lower(Refilled(clock), clock)'
        <3>1. SUFFICES ASSUME pc[h] # "expire" PROVE Lower(y, w)'
            BY <1>2, <2>1 DEF Lower, Window
        <3>2. Lower(x, u)
            BY <1>2, <3>1 DEF Rest
        <3>3. CASE y >= F
            BY <1>2, <3>3 DEF Lower
        <3>4. CASE x >= F /\ y >= x + q
            <4>1. q >= 0
                BY <1>2, Constants
            <4>2. y >= F
                BY ONLY <3>4, <4>1, x \in Int, y \in Int, q \in Int, F \in Int
            <4> QED BY <1>2, <4>2 DEF Lower
        <3>5. CASE Window(x, u, 0) /\ y >= x + q
            BY <2>2, <3>5 DEF Lower
        <3> QED BY <1>2, <2>1, <3>2, <3>3, <3>4, <3>5 DEF Lower
    <2>4. pc[h] = "hmget" => Lower(Refilled(now[h]), now[h])'
        <3>1. Refilled(now[h])' = Refilled(now[h]) /\ now'[h] = now[h]
            BY <1>1, <1>5 DEF Refilled
        <3> QED BY <1>1, <3>1 DEF Rest, Lower, Window
    <2>5. ASSUME pc[h] = "expire"
          PROVE  \/ y >= F
                 \/ Window(y, w, 1)'
                 \/ y >= F + (w - v) * Rate - 1005
        <3>1. CASE x >= F /\ y >= x + q
            <4>1. q >= 0
                BY <1>2, Constants
            <4> QED BY ONLY <3>1, <4>1, x \in Int, y \in Int, q \in Int, F \in Int
        <3>2. CASE Window(x, u, 1) /\ y >= x + q
            BY <2>2, <3>2
        <3>3. CASE x >= F + (u - v) * Rate - 1005 /\ y >= x + q
            <4>1. PICK p \in Int, r \in Int : p = (u - v) * Rate /\ r = (w - v) * Rate /\ r = p + q
                BY <1>2, Constants
            <4>2. y >= F + r - 1005
                BY ONLY <3>3, <4>1, x \in Int, y \in Int, q \in Int, F \in Int, p \in Int, r \in Int
            <4> QED BY ONLY <4>1, <4>2
        <3> QED BY <1>2, <2>1, <2>5, <3>1, <3>2, <3>3 DEF Rest
    <2>6. pc'[h] = pc[h] /\ now'[h] = v /\ clock' = w
        BY <1>1, <1>2
    <2>7. pc[h] = "expire" =>
              \/ Refilled(clock)' >= Full
              \/ Window(Refilled(clock), clock, 1)'
              \/ Refilled(clock)' >= Full + (clock' - now'[h]) * Rate - 1005
        BY ONLY <1>2, <2>1, <2>5, <2>6 DEF Window
    <2> QED BY ONLY <1>3, <2>3, <2>4, <2>6, <2>7 DEF Rest
<1> QED BY <1>4, <1>5 DEF Tick

LEMMA RestInvInit == ASSUME Init PROVE RestInv
<1>1. bucket = None /\ clock \in Int /\ \A h \in Handlers : pc[h] = "idle"
    BY DEF Init
<1>2. Refilled(clock) >= Full
    <2>1. Refilled(clock) = Burst * 1000
        BY <1>1 DEF Refilled
    <2> QED BY <2>1, Constants DEF Full
<1> QED BY <1>1, <1>2 DEF RestInv, Rest, Lower

LEMMA RestInvStep ==
    ASSUME NEW h, Handlers = {h}, TypeInv, RestInv, [Next]_vars
    PROVE  RestInv'
<1>1. h \in Handlers /\ Rest(h)
    BY DEF RestInv
<1>2. CASE Begin(h)
    BY <1>1, <1>2, RestBegin DEF RestInv
<1>3. CASE Check(h)
    BY <1>1, <1>3, RestCheck DEF RestInv
<1>4. CASE Store(h)
    BY <1>1, <1>4, RestStore DEF RestInv
<1>5. CASE Expire(h)
    BY <1>1, <1>5, RestExpire DEF RestInv
<1>6. CASE Tick
    BY <1>1, <1>6, RestTick DEF RestInv
<1>7. CASE UNCHANGED vars
    BY <1>1, <1>7 DEF RestInv, Rest, Lower, Window, Refilled, vars
<1> QED BY <1>2, <1>3, <1>4, <1>5, <1>6, <1>7 DEF Next

-----------------------------------------------------------------------------
\* What RefusedOnlyWhenSpent says of one refusal.
UsedUp(r) ==
    \E m \in 1 .. r.after :
        Burst * 1000 + (r.at - served[m].at) * Rate - (r.after - m + 1) * 1000
            < 1000 + 5 * (r.after - m + 1)

UsedUpInv == \A r \in refused : r.after <= Len(served) /\ UsedUp(r)

\* What was used up before a refusal stays used up.
LEMMA UsedUpKept ==
    ASSUME TypeInv, NEW r \in refused, r.after <= Len(served), UsedUp(r),
           served' = served \/ \E e : served' = Append(served, e)
    PROVE  r.after <= Len(served') /\ UsedUp(r)'
<1>1. r.after \in Nat /\ Len(served) \in Nat
    BY ServedTypes DEF TypeInv, TypeOK
<1>2. Len(served') \in Nat /\ Len(served') >= Len(served)
      /\ \A k \in 1 .. Len(served) : served'[k] = served[k]
    <2>1. CASE served' = served
        BY <1>1, <2>1
    <2>2. CASE \E e : served' = Append(served, e)
        BY <1>1, <2>2, Appended
    <2> QED BY <2>1, <2>2
<1>3. \A m \in 1 .. r.after : served'[m] = served[m]
    BY <1>1, <1>2
<1>4. UsedUp(r)'
    BY <1>3 DEF UsedUp
<1> QED BY <1>1, <1>2, <1>4

\* The bucket that refuses is not full: some window of requests used it up.
LEMMA UsedUpCheck ==
    ASSUME NEW h \in Handlers, TypeInv, Rest(h), pc[h] = "hmget",
           ~HasToken(Refilled(now[h])), served' = served,
           NEW r, r = [at |-> now[h], after |-> Len(served)]
    PROVE  r.after <= Len(served') /\ UsedUp(r)'
<1>1. PICK x \in Int, v \in Int, n \in Nat :
          x = Refilled(now[h]) /\ v = now[h] /\ n = Len(served)
    BY RestTypes, ServedTypes
<1>2. x < 1000 /\ ~(x >= Full)
    BY <1>1, Constants DEF HasToken
<1>3. Window(x, v, 0)
    BY <1>1, <1>2 DEF Rest, Lower
<1>4. PICK m \in DOMAIN served :
          x >= Full + (v - served[m].at) * Rate - 1005 * (Len(served) - m + 1 + 0)
    BY <1>3 DEF Window
<1>5. PICK a \in Int, i \in 1 .. n : a = served[m].at /\ i = m
    BY <1>1, ServedTypes
<1>6. PICK p \in Int : p = (v - a) * Rate
    BY Constants
<1>7. PICK F \in Int : F = Full /\ F = Burst * 1000
    BY Constants DEF Full
<1>8. PICK used \in Int : used = n - i + 1
    OBVIOUS
<1>9. x >= F + p - 1005 * used
    <2>1. n - i + 1 + 0 = used
        BY ONLY <1>8, n \in Nat, i \in 1 .. n, used \in Int
    <2>2. Len(served) - m + 1 + 0 = used
        BY ONLY <1>1, <1>5, <2>1
    <2> QED BY ONLY <1>4, <1>5, <1>6, <1>7, <2>2
<1>10. F + p - used * 1000 < 1000 + 5 * used
    <2>1. x < 1000
        BY <1>2
    <2> QED BY ONLY <1>9, <2>1, x \in Int, F \in Int, p \in Int, used \in Int
<1>11. r.at = v /\ r.after = n
    BY <1>1
<1>12. Burst * 1000 + (r.at - served'[m].at) * Rate - (r.after - m + 1) * 1000
           < 1000 + 5 * (r.after - m + 1)
    BY ONLY <1>5, <1>6, <1>7, <1>8, <1>10, <1>11, served' = served
<1>13. m \in 1 .. r.after
    BY <1>1, <1>5, <1>11
<1>14. r.after <= Len(served')
    BY <1>1, <1>11
<1> QED BY ONLY <1>12, <1>13, <1>14 DEF UsedUp

LEMMA UsedUpInvStep ==
    ASSUME NEW h, Handlers = {h}, TypeInv, RestInv, UsedUpInv, [Next]_vars
    PROVE  UsedUpInv'
<1>1. h \in Handlers /\ Rest(h)
    BY DEF RestInv
<1>2. CASE refused' = refused /\ (served' = served \/ \E e : served' = Append(served, e))
    BY <1>2, UsedUpKept DEF UsedUpInv
<1>3. CASE /\ pc[h] = "hmget" /\ ~HasToken(Refilled(now[h])) /\ served' = served
           /\ refused' = {[at |-> now[h], after |-> Len(served)]}
    BY <1>1, <1>3, UsedUpCheck DEF UsedUpInv
<1>4. CASE Begin(h)
    BY <1>2, <1>4 DEF Begin
<1>5. CASE Check(h)
    BY <1>2, <1>3, <1>5 DEF Check, LetThrough
<1>6. CASE Store(h)
    BY <1>2, <1>6 DEF Store, LetThrough
<1>7. CASE Expire(h)
    BY <1>2, <1>7 DEF Expire, LetThrough
<1>8. CASE Tick
    BY <1>2, <1>8 DEF Tick
<1>9. CASE UNCHANGED vars
    BY <1>2, <1>9 DEF vars
<1> QED BY <1>4, <1>5, <1>6, <1>7, <1>8, <1>9 DEF Next

\* One request at a time, a request is refused only when the requests let
\* through in some window before it used up Burst and the refill, but for less
\* than one token and the rounding of "%.2f" (Allow), whatever calls fail.
THEOREM RefusalMeansSpent ==
    ASSUME NEW h, Handlers = {h}
    PROVE  Spec => []RefusedOnlyWhenSpent
<1> DEFINE Inv == TypeInv /\ RestInv /\ UsedUpInv
<1>1. Init => Inv
    BY TypeInvInit, RestInvInit DEF Init, UsedUpInv
<1>2. Inv /\ [Next]_vars => Inv'
    BY TypeInvStep, RestInvStep, UsedUpInvStep
<1>3. Inv => RefusedOnlyWhenSpent
    BY DEF UsedUpInv, UsedUp, RefusedOnlyWhenSpent
<1> QED BY <1>1, <1>2, <1>3, PTL DEF Spec

=============================================================================
