---------------------------- MODULE RouterProofs ----------------------------
(***************************************************************************)
(* Whatever is switched or recorded while it runs, SelectProviders returns *)
(* every provider once, in an order it can answer for, and the weighted    *)
(* draw is fair: proofs for any number of providers, any weights and any   *)
(* counters.                                                               *)
(***************************************************************************)
EXTENDS Router, FiniteSetTheorems, SequenceTheorems, WellFoundedInduction, TLAPS

\* The registry keeps the registered names; the result holds names already
\* read, each once, and all that are and were active.
ReadInv ==
    /\ \A n \in DOMAIN Order : registry[n].provider = Order[n]
    /\ pc = "scan" => next <= Len(Order) /\ Len(result) < next
    /\ pc # "scan" => next = Len(Order) + 1
    /\ \A m \in DOMAIN result : \E n \in 1 .. next - 1 : result[m].provider = Order[n]
    /\ \A m, n \in DOMAIN result : result[m].provider = result[n].provider => m = n
    /\ \A n \in 1 .. next - 1 : Order[n] \notin switched =>
          (registry[n].active <=> \E m \in DOMAIN result : result[m].provider = Order[n])

InOrder(s, from) ==
    \A m, n \in from .. Len(s) : m < n => Place(s[m]) < Place(s[n])

\* Before a selection the result is in the order of registration, after a
\* weighted one all of it but the first.
OrderInv ==
    /\ pc \in {"scan", "select"} => InOrder(result, 1)
    /\ pc = "done" /\ algo # "success_based" => InOrder(result, 2)
    /\ pc = "sort" => algo = "success_based"

RouterInv == TypeOK /\ ReadInv /\ OrderInv

USE RouterAssumption

-----------------------------------------------------------------------------
LEMMA OrderIsSeq == Order \in Seq(Names) /\ Len(Order) \in Nat \ {0} /\ DOMAIN Order = 1 .. Len(Order)
OBVIOUS

\* A nonempty set of indices has a least one.
LEMMA LeastIndex ==
    ASSUME NEW len \in Nat, NEW S \in SUBSET (1 .. len), S # {}
    PROVE  First(S) \in S /\ \A m \in S : First(S) <= m
<1> DEFINE Upto(n) == 1 .. n
           T == {Upto(n) : n \in S}
<1>1. IsWellFoundedOn(StrictSubsetOrdering(1 .. len), FiniteSubsetsOf(1 .. len))
  BY FS_StrictSubsetOrderingWellFounded
<1>2. T \subseteq FiniteSubsetsOf(1 .. len) /\ T # {}
  <2>1. \A n \in S : IsFiniteSet(Upto(n)) /\ Upto(n) \subseteq 1 .. len
    BY FS_Interval
  <2> QED
    BY <2>1 DEF FiniteSubsetsOf
<1>3. \E X \in T : \A Y \in T : <<Y, X>> \notin StrictSubsetOrdering(1 .. len)
  <2> HIDE DEF T
  <2> QED
    BY <1>1, <1>2, WFMin
<1>4. PICK n \in S : \A m \in S : <<Upto(m), Upto(n)>> \notin StrictSubsetOrdering(1 .. len)
  BY <1>3
<1>5. \A m \in S : n <= m
  <2> SUFFICES ASSUME NEW m \in S, m < n PROVE FALSE
    OBVIOUS
  <2>1. Upto(m) \subseteq Upto(n) /\ n \in Upto(n) /\ n \notin Upto(m)
    OBVIOUS
  <2>2. Upto(m) \in SUBSET (1 .. len) /\ Upto(n) \in SUBSET (1 .. len)
    OBVIOUS
  <2>3. <<Upto(m), Upto(n)>> \in StrictSubsetOrdering(1 .. len)
    <3> HIDE DEF Upto
    <3> QED
      BY <2>1, <2>2 DEF StrictSubsetOrdering
  <2> QED
    BY <1>4, <2>3
<1> QED
  BY <1>5 DEF First

\* SetActive and Place find the entry of a name: there is just one.
LEMMA OnlyIndex ==
    ASSUME NEW S, NEW n \in S, \A m \in S : m = n, n \in Nat
    PROVE  (IF S # {} THEN Min(S) ELSE 0) = n
<1>1. S = {n}
  OBVIOUS
<1> QED
  BY <1>1 DEF Min

LEMMA PlaceOf ==
    ASSUME NEW e, NEW n \in DOMAIN Order, e.provider = Order[n]
    PROVE  Place(e) = n
<1> DEFINE S == {m \in 1 .. Len(Order) : Order[m] = e.provider}
<1>1. n \in S /\ (\A m \in S : m = n) /\ n \in Nat
  BY OrderIsSeq
<1>2. (IF S # {} THEN Min(S) ELSE 0) = n
  <2> HIDE DEF S
  <2> QED
    BY <1>1, OnlyIndex
<1> QED
  BY <1>2 DEF Place, SelectInSeq

LEMMA RegistryIsSeq ==
    ASSUME TypeOK
    PROVE  registry \in Seq(Entry) /\ Len(registry) = Len(Order)
<1>1. registry \in [1 .. Len(Order) -> Entry] /\ Len(Order) \in Nat
  BY OrderIsSeq DEF TypeOK
<1>2. registry \in Seq(Entry)
  BY <1>1, SeqDef
<1> QED
  BY <1>1, <1>2

LEMMA Indices ==
    ASSUME NEW len \in Nat
    PROVE  \A n \in 1 .. len + 1 : n \in 1 .. len \/ n = len + 1
OBVIOUS

\* The entry SetActive switches.
LEMMA EntryOf ==
    ASSUME TypeOK, ReadInv, NEW name \in Names
    PROVE  \E n \in DOMAIN Order :
              /\ Order[n] = name
              /\ SelectInSeq(registry, LAMBDA e : e.provider = name) = n
<1> DEFINE S == {m \in 1 .. Len(registry) : registry[m].provider = name}
<1>1. PICK n \in DOMAIN Order : Order[n] = name
  BY DEF Names, Range
<1>2. Len(registry) = Len(Order)
  BY RegistryIsSeq
<1>3. n \in S /\ (\A m \in S : m = n) /\ n \in Nat
  BY <1>1, <1>2, OrderIsSeq DEF ReadInv
<1>4. (IF S # {} THEN Min(S) ELSE 0) = n
  <2> HIDE DEF S
  <2> QED
    BY <1>3, OnlyIndex
<1> QED
  BY <1>1, <1>4 DEF SelectInSeq

-----------------------------------------------------------------------------
LEMMA ResultIsSeq ==
    ASSUME TypeOK
    PROVE  /\ result \in Seq(Entry) /\ Len(result) \in Nat
           /\ DOMAIN result = 1 .. Len(result)
           /\ \A n \in DOMAIN result : result[n] \in Entry
BY DEF TypeOK

\* What is moved around stays once each: a new result that takes every entry
\* from the old one, no two from the same place.
Rearranged(s, f) ==
    /\ f \in [DOMAIN result -> DOMAIN result]
    /\ \A m, n \in DOMAIN result : f[m] = f[n] => m = n
    /\ \A n \in DOMAIN result : \E m \in DOMAIN result : f[m] = n
    /\ s \in Seq(Entry) /\ Len(s) = Len(result)
    /\ \A n \in DOMAIN result : s[n] = result[f[n]]

LEMMA RearrangedInv ==
    ASSUME TypeOK, ReadInv, NEW f, Rearranged(result', f), pc # "scan", pc' # "scan",
           UNCHANGED <<registry, next, switched>>
    PROVE  ReadInv'
<1>1. DOMAIN result' = DOMAIN result /\ \A n \in DOMAIN result : f[n] \in DOMAIN result
  BY ResultIsSeq DEF Rearranged
<1>5. \A n \in DOMAIN result : result'[n].provider = result[f[n]].provider
  BY DEF Rearranged
<1>2. \A m \in DOMAIN result' : \E n \in 1 .. next - 1 : result'[m].provider = Order[n]
  <2> SUFFICES ASSUME NEW m \in DOMAIN result
               PROVE  \E n \in 1 .. next - 1 : result'[m].provider = Order[n]
    BY <1>1
  <2>1. PICK n \in 1 .. next - 1 : result[f[m]].provider = Order[n]
    BY <1>1 DEF ReadInv
  <2> QED
    BY <1>5, <2>1
<1>3. ASSUME NEW m \in DOMAIN result, NEW n \in DOMAIN result,
             result'[m].provider = result'[n].provider
      PROVE  m = n
  <2>1. result[f[m]].provider = result[f[n]].provider
    BY <1>3, <1>5
  <2>2. f[m] = f[n]
    BY <1>1, <2>1 DEF ReadInv
  <2> QED
    BY <2>2 DEF Rearranged
<1>4. ASSUME NEW n \in 1 .. next - 1
      PROVE  (\E m \in DOMAIN result' : result'[m].provider = Order[n])
                <=> \E m \in DOMAIN result : result[m].provider = Order[n]
  BY <1>1, <1>5 DEF Rearranged
<1> QED
  BY <1>1, <1>2, <1>3, <1>4 DEF ReadInv

LEMMA LenOfConcat ==
    ASSUME NEW S, NEW u \in Seq(S), NEW v \in Seq(S)
    PROVE  u \o v \in Seq(S) /\ Len(u \o v) = Len(u) + Len(v)
OBVIOUS

\* The selected provider moves to the front, the others close up.
LEMMA Moved ==
    ASSUME NEW s \in Seq(Entry), NEW idx \in 1 .. Len(s)
    PROVE  /\ MoveToFront(s, idx) \in Seq(Entry)
           /\ Len(MoveToFront(s, idx)) = Len(s)
           /\ \A n \in 1 .. Len(s) : MoveToFront(s, idx)[n] =
                 IF n = 1 THEN s[idx] ELSE IF n <= idx THEN s[n - 1] ELSE s[n]
<1> DEFINE left  == SubSeq(s, 1, idx - 1)
           right == SubSeq(s, idx + 1, Len(s))
           rest  == left \o right
<1>1. left \in Seq(Entry) /\ Len(left) = idx - 1 /\ \A n \in 1 .. idx - 1 : left[n] = s[n]
  OBVIOUS
<1>2. /\ right \in Seq(Entry) /\ Len(right) = Len(s) - idx
      /\ \A n \in 1 .. Len(s) - idx : right[n] = s[idx + n]
  OBVIOUS
<1>3. /\ rest \in Seq(Entry) /\ Len(rest) = Len(s) - 1
      /\ \A n \in 1 .. Len(s) - 1 : rest[n] = IF n < idx THEN s[n] ELSE s[n + 1]
  <2> HIDE DEF left, right
  <2>1. rest \in Seq(Entry) /\ Len(rest) = (idx - 1) + (Len(s) - idx)
    <3>1. left \in Seq(Entry) /\ right \in Seq(Entry)
      BY <1>1, <1>2
    <3>2. rest \in Seq(Entry) /\ Len(rest) = Len(left) + Len(right)
      BY <3>1, LenOfConcat
    <3>3. Len(left) = idx - 1 /\ Len(right) = Len(s) - idx
      BY <1>1, <1>2
    <3> QED
      BY <3>2, <3>3
  <2>2. Len(rest) = Len(s) - 1
    BY <2>1
  <2>3. ASSUME NEW n \in 1 .. Len(s) - 1, n < idx
        PROVE  rest[n] = s[n]
    BY <1>1, <1>2, <2>3
  <2>4. ASSUME NEW n \in 1 .. Len(s) - 1, ~(n < idx)
        PROVE  rest[n] = s[n + 1]
    <3>1. n - Len(left) \in 1 .. Len(s) - idx /\ idx + (n - Len(left)) = n + 1
      BY <1>1, <2>4
    <3>2. rest[n] = right[n - Len(left)]
      BY <1>1, <1>2, <2>4
    <3> QED
      BY <1>2, <3>1, <3>2
  <2> QED
    BY <2>1, <2>2, <2>3, <2>4
<1>4. /\ <<s[idx]>> \o rest \in Seq(Entry) /\ Len(<<s[idx]>> \o rest) = Len(s)
      /\ \A n \in 1 .. Len(s) : (<<s[idx]>> \o rest)[n] = IF n = 1 THEN s[idx] ELSE rest[n - 1]
  <2> HIDE DEF rest
  <2> QED
    BY <1>3
<1>5. \A n \in 2 .. Len(s) : rest[n - 1] = IF n <= idx THEN s[n - 1] ELSE s[n]
  <2> HIDE DEF rest
  <2>1. \A n \in 2 .. Len(s) : n - 1 \in 1 .. Len(s) - 1 /\ (n - 1) + 1 = n
    OBVIOUS
  <2> QED
    BY <1>3, <2>1
<1>6. MoveToFront(s, idx) = <<s[idx]>> \o rest
  BY DEF MoveToFront, RemoveAt
<1> HIDE DEF rest
<1>7. \A n \in 1 .. Len(s) : n # 1 => n \in 2 .. Len(s)
  OBVIOUS
<1> QED
  BY <1>4, <1>5, <1>6, <1>7

LEMMA SwappedIs ==
    ASSUME NEW s \in Seq(Entry), NEW m \in DOMAIN s, NEW n \in DOMAIN s
    PROVE  /\ Swapped(s, m, n) \in Seq(Entry)
           /\ Len(Swapped(s, m, n)) = Len(s)
           /\ \A k \in DOMAIN s : Swapped(s, m, n)[k] =
                 IF k = n THEN s[m] ELSE IF k = m THEN s[n] ELSE s[k]
BY DEF Swapped

\* Every draw selects somebody: the running sum over all weights is the total.
LEMMA DrawSelects ==
    ASSUME NEW S, NEW weights \in Seq(S), NEW r \in Draws(weights), weights # <<>>
    PROVE  weightedRandomIndex(weights, r) \in DOMAIN weights
<1> DEFINE T == {n \in DOMAIN weights : r < Sum(SubSeq(weights, 1, n))}
<1>1. Len(weights) \in DOMAIN weights /\ DOMAIN weights = 1 .. Len(weights)
  OBVIOUS
<1>2. Len(weights) \in T
  BY <1>1, SubSeqFull DEF Draws
<1>3. First(T) \in T
  <2>1. T \in SUBSET (1 .. Len(weights)) /\ T # {} /\ Len(weights) \in Nat
    BY <1>1, <1>2
  <2> HIDE DEF T
  <2> QED
    BY <2>1, LeastIndex
<1> QED
  BY <1>3 DEF weightedRandomIndex

LEMMA WeightsAreSeq ==
    ASSUME NEW s \in Seq(Entry)
    PROVE  /\ calculateEffectiveWeights(s) \in Seq(Range(calculateEffectiveWeights(s)))
           /\ Len(calculateEffectiveWeights(s)) = Len(s)
           /\ DOMAIN calculateEffectiveWeights(s) = 1 .. Len(s)
<1> DEFINE w == calculateEffectiveWeights(s)
<1>1. w = [n \in 1 .. Len(s) |-> w[n]] /\ DOMAIN w = 1 .. Len(s) /\ Len(s) \in Nat
  BY DEF calculateEffectiveWeights
<1> HIDE DEF w
<1>2. w \in [1 .. Len(s) -> Range(w)]
  BY <1>1 DEF Range
<1>3. w \in Seq(Range(w))
  BY <1>1, <1>2, SeqDef
<1> QED
  BY <1>1, <1>3 DEF w

-----------------------------------------------------------------------------
LEMMA RouterInit == Init => RouterInv
<1> SUFFICES ASSUME Init PROVE RouterInv
  OBVIOUS
<1>1. TypeOK
  <2>1. registry \in [DOMAIN Order -> Entry]
    BY DEF Init
  <2>2. tracker \in [Names -> Stats]
    BY DEF Init, Stats
  <2> QED
    BY <2>1, <2>2, OrderIsSeq DEF Init, TypeOK
<1>2. ReadInv
  BY OrderIsSeq DEF Init, ReadInv
<1>3. OrderInv
  BY DEF Init, OrderInv, InOrder
<1> QED
  BY <1>1, <1>2, <1>3 DEF RouterInv

LEMMA ScanKeeps == RouterInv /\ GetProviders => RouterInv'
<1> SUFFICES ASSUME RouterInv, GetProviders PROVE RouterInv'
  OBVIOUS
<1> DEFINE e == registry[next]
           len == Len(result)
<1>1. /\ TypeOK /\ ReadInv /\ OrderInv /\ pc = "scan" /\ next \in DOMAIN Order /\ len < next
      /\ e \in Entry /\ e.provider = Order[next] /\ Len(registry) = Len(Order)
      /\ UNCHANGED <<registry, tracker, algo, i, j, quiet, switched>> /\ next' = next + 1
      /\ result \in Seq(Entry) /\ len \in Nat /\ DOMAIN result = 1 .. len
  <2>1. TypeOK /\ ReadInv /\ OrderInv
    BY DEF RouterInv
  <2>2. pc = "scan" /\ next <= Len(registry) /\ next' = next + 1
        /\ UNCHANGED <<registry, tracker, algo, i, j, quiet, switched>>
    BY DEF GetProviders, sortVars
  <2>3. registry \in Seq(Entry) /\ Len(registry) = Len(Order) /\ next \in 1 .. Len(Order)
    BY <2>1, <2>2, RegistryIsSeq DEF TypeOK
  <2> QED
    BY <2>1, <2>2, <2>3, ResultIsSeq, OrderIsSeq DEF TypeOK, ReadInv
<1>2. next' \in 1 .. Len(Order) + 1 /\ pc' = IF next = Len(Order) THEN "select" ELSE "scan"
  BY <1>1, OrderIsSeq DEF GetProviders
<1>3. \A m \in 1 .. len : result[m].provider # Order[next] /\ Place(result[m]) < next
  <2> SUFFICES ASSUME NEW m \in 1 .. len
               PROVE  result[m].provider # Order[next] /\ Place(result[m]) < next
    OBVIOUS
  <2>1. PICK n \in 1 .. next - 1 : result[m].provider = Order[n]
    BY <1>1 DEF ReadInv
  <2>2. n \in DOMAIN Order /\ n < next
    BY <1>1, OrderIsSeq
  <2>3. Place(result[m]) = n
    BY <2>1, <2>2, PlaceOf
  <2> QED
    BY <1>1, <2>1, <2>2, <2>3
<1>4. CASE e.active
  <2>1. result' = Append(result, e)
    BY <1>4 DEF GetProviders
  <2>2. /\ result' \in Seq(Entry) /\ Len(result') = len + 1
        /\ DOMAIN result' = 1 .. len + 1
        /\ \A m \in 1 .. len : result'[m] = result[m]
        /\ result'[len + 1] = e
    BY <1>1, <2>1
  <2>3. TypeOK'
    BY <1>1, <1>2, <2>2 DEF TypeOK, Names
  <2>4. ReadInv'
    <3>1. \A m \in DOMAIN result' : \E n \in 1 .. next : result'[m].provider = Order[n]
      BY <1>1, <2>2 DEF ReadInv
    <3>2. \A m, n \in DOMAIN result' : result'[m].provider = result'[n].provider => m = n
      <4>1. \A m, n \in 1 .. len : result'[m].provider = result'[n].provider => m = n
        <5>1. \A m, n \in 1 .. len : result[m].provider = result[n].provider => m = n
          BY <1>1 DEF ReadInv
        <5> QED
          BY <2>2, <5>1
      <4>2. \A m \in 1 .. len : result'[m].provider # result'[len + 1].provider
        BY <1>1, <1>3, <2>2
      <4> QED
        BY <2>2, <4>1, <4>2, Indices
    <3>3. \A n \in 1 .. next : Order[n] \notin switched =>
             (registry[n].active <=> \E m \in DOMAIN result' : result'[m].provider = Order[n])
      <4>1. \A n \in 1 .. next - 1 : Order[n] # Order[next]
        BY <1>1, OrderIsSeq
      <4>2. ASSUME NEW n \in 1 .. next - 1
            PROVE  (\E m \in DOMAIN result' : result'[m].provider = Order[n])
                      <=> \E m \in DOMAIN result : result[m].provider = Order[n]
        <5>1. e.provider # Order[n]
          BY <1>1, <4>1
        <5>2. \A m \in 1 .. len : result'[m].provider = result[m].provider
          BY <2>2
        <5>3. \A m \in 1 .. len : m \in 1 .. len + 1
          BY <1>1
        <5>4. ASSUME NEW m \in DOMAIN result', result'[m].provider = Order[n]
              PROVE  m \in 1 .. len
          BY <1>1, <2>2, <5>1, <5>4, Indices
        <5> QED
          BY <1>1, <2>2, <5>2, <5>3, <5>4
      <4>3. \E m \in DOMAIN result' : result'[m].provider = Order[next]
        BY <1>1, <2>2
      <4>4. \A n \in 1 .. next : n = next \/ n \in 1 .. next - 1
        BY <1>1, OrderIsSeq
      <4> QED
        BY <1>1, <1>4, <4>2, <4>3, <4>4 DEF ReadInv
    <3> QED
      BY <1>1, <1>2, <2>2, <3>1, <3>2, <3>3, OrderIsSeq DEF ReadInv
  <2>5. OrderInv'
    <3>1. Place(e) = next
      BY <1>1, PlaceOf
    <3>2. InOrder(result, 1)
      BY <1>1 DEF OrderInv
    <3>3. InOrder(result', 1)
      <4>1. \A m, n \in 1 .. len : m < n => Place(result'[m]) < Place(result'[n])
        BY <2>2, <3>2 DEF InOrder
      <4>2. \A m \in 1 .. len : Place(result'[m]) < Place(result'[len + 1])
        BY <1>3, <2>2, <3>1
      <4>3. \A n \in 1 .. len : ~(len + 1 < n)
        BY <1>1
      <4>4. ASSUME NEW m \in 1 .. len + 1, NEW n \in 1 .. len + 1, m < n
            PROVE  Place(result'[m]) < Place(result'[n])
        <5>1. m \in 1 .. len
          BY <1>1, <4>3, <4>4
        <5> QED
          BY <1>1, <4>1, <4>2, <4>4, <5>1, Indices
      <4> QED
        BY <2>2, <4>4 DEF InOrder
    <3> QED
      BY <1>2, <3>3 DEF OrderInv
  <2> QED
    BY <2>3, <2>4, <2>5 DEF RouterInv
<1>5. CASE ~e.active
  <2>1. result' = result
    BY <1>5 DEF GetProviders
  <2>2. TypeOK'
    BY <1>1, <1>2, <2>1 DEF TypeOK
  <2>3. ReadInv'
    <3>1. \A n \in 1 .. next : n = next \/ n \in 1 .. next - 1
      BY <1>1, OrderIsSeq
    <3>2. \A m \in DOMAIN result' : \E n \in 1 .. next : result'[m].provider = Order[n]
      BY <1>1, <2>1, OrderIsSeq DEF ReadInv
    <3>3. \A n \in 1 .. next : Order[n] \notin switched =>
             (registry[n].active <=> \E m \in DOMAIN result' : result'[m].provider = Order[n])
      BY <1>1, <1>3, <1>5, <2>1, <3>1 DEF ReadInv
    <3>4. next' - 1 = next /\ (pc' = "scan" => next' <= Len(Order) /\ len < next')
          /\ (pc' # "scan" => next' = Len(Order) + 1)
      BY <1>1, <1>2, OrderIsSeq
    <3>5. \A m, n \in DOMAIN result' : result'[m].provider = result'[n].provider => m = n
      BY <1>1, <2>1 DEF ReadInv
    <3>6. \A n \in DOMAIN Order : registry'[n].provider = Order[n]
      BY <1>1 DEF ReadInv
    <3> QED
      BY <1>1, <2>1, <3>2, <3>3, <3>4, <3>5, <3>6 DEF ReadInv
  <2>4. OrderInv'
    BY <1>1, <1>2, <2>1 DEF OrderInv
  <2> QED
    BY <2>2, <2>3, <2>4 DEF RouterInv
<1> QED
  BY <1>4, <1>5

LEMMA SwitchKeeps ==
    ASSUME RouterInv, NEW name \in Names, NEW active \in BOOLEAN, SetActive(name, active)
    PROVE  RouterInv'
<1>1. TypeOK /\ ReadInv /\ OrderInv /\ pc = "scan"
  BY DEF RouterInv, SetActive
<1>2. PICK n \in DOMAIN Order :
         /\ Order[n] = name
         /\ SelectInSeq(registry, LAMBDA e : e.provider = name) = n
  BY <1>1, EntryOf
<1>3. /\ registry' = [registry EXCEPT ![n].active = active]
      /\ switched' = switched \cup {name}
      /\ UNCHANGED <<tracker, pc, algo, result, next, i, j, quiet>>
  BY <1>2 DEF SetActive, sortVars
<1>4. registry \in [DOMAIN Order -> Entry]
  BY <1>1 DEF TypeOK
<1>5. /\ registry' \in [DOMAIN Order -> Entry]
      /\ \A m \in DOMAIN Order : registry'[m].provider = registry[m].provider
      /\ \A m \in DOMAIN Order : m # n => registry'[m] = registry[m]
  BY <1>3, <1>4 DEF Entry
<1>6. TypeOK'
  BY <1>1, <1>3, <1>5 DEF TypeOK
<1>7. ReadInv'
  <2>1. \A m \in 1 .. next - 1 : m \in DOMAIN Order
    BY <1>1, OrderIsSeq DEF TypeOK
  <2>2. \A m \in 1 .. next - 1 : Order[m] \notin switched' =>
           (registry'[m].active <=> \E k \in DOMAIN result : result[k].provider = Order[m])
    BY <1>1, <1>2, <1>3, <1>5, <2>1 DEF ReadInv
  <2>3. \A m \in DOMAIN Order : registry'[m].provider = Order[m]
    BY <1>1, <1>5 DEF ReadInv
  <2> QED
    BY <1>1, <1>3, <2>2, <2>3 DEF ReadInv
<1>8. OrderInv'
  BY <1>1, <1>3 DEF OrderInv, InOrder
<1> QED
  BY <1>6, <1>7, <1>8 DEF RouterInv

LEMMA SelectKeeps == RouterInv /\ SelectProviders => RouterInv'
<1> SUFFICES ASSUME RouterInv, SelectProviders PROVE RouterInv'
  OBVIOUS
<1>1. /\ TypeOK /\ ReadInv /\ OrderInv /\ pc = "select"
      /\ UNCHANGED <<registry, tracker, algo, next, i, j, quiet, switched>>
  BY DEF RouterInv, SelectProviders, sortVars
<1>2. InOrder(result, 1) /\ next = Len(Order) + 1
  BY <1>1 DEF OrderInv, ReadInv
<1>3. CASE UNCHANGED result /\ pc' \in {"done", "sort"} /\ (pc' = "sort" => algo = "success_based")
  <2>1. TypeOK'
    BY <1>1, <1>3 DEF TypeOK
  <2>2. ReadInv'
    BY <1>1, <1>2, <1>3 DEF ReadInv
  <2>3. InOrder(result, 2)
    BY <1>1, <1>2, ResultIsSeq DEF InOrder
  <2>4. OrderInv'
    BY <1>1, <1>3, <2>3 DEF OrderInv, InOrder
  <2> QED
    BY <2>1, <2>2, <2>4 DEF RouterInv
<1>4. CASE result # <<>> /\ SelectByWeight /\ pc' = "done"
  <2> DEFINE len == Len(result)
  <2>1. /\ result \in Seq(Entry) /\ len \in Nat /\ DOMAIN result = 1 .. len
    BY <1>1, ResultIsSeq
  <2>2. PICK r \in Draws(calculateEffectiveWeights(result)) :
           result' = MoveToFront(result, weightedRandomIndex(calculateEffectiveWeights(result), r))
    BY <1>4 DEF SelectByWeight
  <2>3. PICK idx \in 1 .. len : result' = MoveToFront(result, idx)
    <3> DEFINE w == calculateEffectiveWeights(result)
    <3>1. w \in Seq(Range(w)) /\ DOMAIN w = 1 .. len /\ Len(w) = len
      BY <2>1, WeightsAreSeq
    <3>2. len # 0
      BY <1>4, <2>1
    <3>3. w # <<>>
      <4> HIDE DEF w
      <4> QED
        BY <3>1, <3>2
    <3>4. r \in Draws(w) /\ result' = MoveToFront(result, weightedRandomIndex(w, r))
      BY <2>2
    <3>5. weightedRandomIndex(w, r) \in 1 .. len
      <4> HIDE DEF w
      <4> QED
        BY <3>1, <3>3, <3>4, DrawSelects
    <3> QED
      BY <3>4, <3>5
  <2> DEFINE from == [n \in 1 .. len |-> IF n = 1 THEN idx ELSE IF n <= idx THEN n - 1 ELSE n]
  <2>4. /\ result' \in Seq(Entry) /\ Len(result') = len /\ DOMAIN result' = 1 .. len
        /\ \A n \in 1 .. len : result'[n] =
              IF n = 1 THEN result[idx] ELSE IF n <= idx THEN result[n - 1] ELSE result[n]
    BY <2>1, <2>3, Moved
  <2>5. Rearranged(result', from)
    <3>1. from \in [1 .. len -> 1 .. len]
      BY <2>1
    <3>2. \A m, n \in 1 .. len : from[m] = from[n] => m = n
      BY <2>1
    <3>3. ASSUME NEW n \in 1 .. len
          PROVE  \E m \in 1 .. len : from[m] = n
      <4>1. CASE n = idx
        BY <2>1, <4>1
      <4>2. CASE n < idx
        <5>1. n + 1 \in 1 .. len /\ from[n + 1] = n
          BY <2>1, <4>2
        <5> QED
          BY <5>1
      <4>3. CASE n > idx
        <5>1. from[n] = n
          BY <2>1, <4>3
        <5> QED
          BY <5>1
      <4> QED
        BY <2>1, <4>1, <4>2, <4>3
    <3>4. \A n \in 1 .. len : result'[n] = result[from[n]]
      BY <2>4
    <3> QED
      BY <2>1, <2>4, <3>1, <3>2, <3>3, <3>4 DEF Rearranged
  <2>6. TypeOK'
    BY <1>1, <1>4, <2>4 DEF TypeOK
  <2>7. ReadInv'
    <3> HIDE DEF from
    <3> QED
      BY <1>1, <1>4, <2>5, RearrangedInv
  <2>8. InOrder(result', 2)
    <3>1. ASSUME NEW m \in 2 .. len, NEW n \in 2 .. len, m < n
          PROVE  Place(result'[m]) < Place(result'[n])
      <4> DEFINE a == IF m <= idx THEN m - 1 ELSE m
                 b == IF n <= idx THEN n - 1 ELSE n
      <4>1. a \in 1 .. len /\ b \in 1 .. len /\ a < b
        BY <2>1, <3>1
      <4>2. result'[m] = result[a] /\ result'[n] = result[b]
        BY <2>1, <2>4
      <4> HIDE DEF a, b
      <4> QED
        BY <1>2, <4>1, <4>2 DEF InOrder
    <3> QED
      BY <2>4, <3>1 DEF InOrder
  <2> QED
    BY <1>4, <2>6, <2>7, <2>8 DEF RouterInv, OrderInv
<1> QED
  BY <1>3, <1>4 DEF SelectProviders

LEMMA SortKeeps == RouterInv /\ SortStep => RouterInv'
<1> SUFFICES ASSUME RouterInv, SortStep PROVE RouterInv'
  OBVIOUS
<1>1. /\ TypeOK /\ ReadInv /\ OrderInv /\ pc = "sort" /\ algo = "success_based"
      /\ UNCHANGED <<registry, tracker, algo, next, quiet, switched>>
  BY DEF RouterInv, OrderInv, SortStep, Compare, NextRow, SortDone, sortVars
<1>2. /\ result \in Seq(Entry) /\ Len(result) \in Nat /\ DOMAIN result = 1 .. Len(result)
      /\ Len(result) <= Len(Order) /\ Len(Order) \in Nat
      /\ i \in 1 .. Len(Order) + 1 /\ j \in 2 .. Len(Order) + 2
  BY <1>1, ResultIsSeq, OrderIsSeq DEF TypeOK
<1>3. CASE UNCHANGED result /\ pc' \in {"sort", "done"}
            /\ i' \in 1 .. Len(Order) + 1 /\ j' \in 2 .. Len(Order) + 2
  BY <1>1, <1>3 DEF RouterInv, TypeOK, ReadInv, OrderInv
<1>4. CASE Compare
  <2>1. i \in 1 .. Len(result) /\ j \in 1 .. Len(result)
        /\ pc' = pc /\ i' = i /\ j' = j + 1
    BY <1>2, <1>4 DEF Compare
  <2>2. CASE result' = result
    BY <1>2, <1>3, <1>1, <2>1, <2>2
  <2>3. CASE result' = Swapped(result, i, j)
    <3> DEFINE f == [n \in DOMAIN result |-> IF n = j THEN i ELSE IF n = i THEN j ELSE n]
    <3>1. Rearranged(result', f)
      <4>1. /\ result' \in Seq(Entry) /\ Len(result') = Len(result)
            /\ \A n \in DOMAIN result : result'[n] =
                  IF n = j THEN result[i] ELSE IF n = i THEN result[j] ELSE result[n]
        <5>1. result \in Seq(Entry) /\ i \in DOMAIN result /\ j \in DOMAIN result
          BY <1>2, <2>1
        <5> QED
          BY <2>3, <5>1, SwappedIs
      <4>4. \A n \in DOMAIN result : result'[n] = result[f[n]]
        BY <1>2, <2>1, <4>1
      <4>2. f \in [DOMAIN result -> DOMAIN result]
        BY <1>2, <2>1
      <4>3. \A n \in DOMAIN result : f[f[n]] = n
        BY <1>2, <2>1
      <4> HIDE DEF f
      <4> QED
        BY <4>1, <4>2, <4>3, <4>4 DEF Rearranged
    <3>2. TypeOK'
      BY <1>1, <1>2, <2>1, <3>1 DEF TypeOK, Rearranged
    <3>3. ReadInv'
      <4> HIDE DEF f
      <4> QED
        BY <1>1, <2>1, <3>1, RearrangedInv
    <3>4. OrderInv'
      BY <1>1, <2>1 DEF OrderInv
    <3> QED
      BY <3>2, <3>3, <3>4 DEF RouterInv
  <2> QED
    BY <1>4, <2>2, <2>3 DEF Compare
<1>5. CASE NextRow
  <2>1. i < Len(result) /\ i' = i + 1 /\ j' = i + 2 /\ UNCHANGED <<result, pc>>
    BY <1>5 DEF NextRow
  <2> QED
    BY <1>1, <1>2, <1>3, <2>1
<1>6. CASE SortDone
  <2>1. i' = i /\ j' = j /\ UNCHANGED result /\ pc' = "done"
    BY <1>6 DEF SortDone, sortVars
  <2> QED
    BY <1>1, <1>2, <1>3, <2>1
<1> QED
  BY <1>4, <1>5, <1>6 DEF SortStep

LEMMA RecordKeeps == RouterInv /\ RecordSend => RouterInv'
<1> SUFFICES ASSUME RouterInv, RecordSend PROVE RouterInv'
  OBVIOUS
<1>1. UNCHANGED <<registry, pc, algo, result, next, i, j, switched>>
  BY DEF RecordSend
<1>2. tracker' \in [Names -> Stats]
  <2>1. tracker \in [Names -> Stats] /\ MaxCount \in Nat
    BY DEF RouterInv, TypeOK
  <2>2. PICK name \in Names :
           \/ /\ tracker[name].success < MaxCount
              /\ tracker' = [tracker EXCEPT ![name].success = @ + 1]
           \/ /\ tracker[name].fail < MaxCount
              /\ tracker' = [tracker EXCEPT ![name].fail = @ + 1]
    BY DEF RecordSend
  <2>3. /\ tracker[name].success < MaxCount => tracker[name].success + 1 \in 0 .. MaxCount
        /\ tracker[name].fail < MaxCount => tracker[name].fail + 1 \in 0 .. MaxCount
    BY <2>1 DEF Stats
  <2> QED
    BY <2>1, <2>2, <2>3 DEF Stats
<1> QED
  BY <1>1, <1>2 DEF RouterInv, TypeOK, ReadInv, OrderInv, InOrder

LEMMA RouterStepKeeps == RouterInv /\ [Next]_vars => RouterInv'
<1> SUFFICES ASSUME RouterInv, [Next]_vars PROVE RouterInv'
  OBVIOUS
<1>1. CASE UNCHANGED vars
  BY <1>1 DEF vars, RouterInv, TypeOK, ReadInv, OrderInv, InOrder
<1>2. CASE Next
  BY <1>2, ScanKeeps, SelectKeeps, SortKeeps, SwitchKeeps, RecordKeeps DEF Next, RouterStep
<1> QED
  BY <1>1, <1>2

-----------------------------------------------------------------------------
\* The invariant of SelectProviders, whatever is switched or recorded meanwhile.
THEOREM RouterInvariance == Spec => []RouterInv
<1> QED
  BY RouterInit, RouterStepKeeps, PTL DEF Spec

\* Every variable of a selection keeps its type.
THEOREM RouterTypeCorrectness == Spec => []TypeOK
<1>1. RouterInv => TypeOK
  BY DEF RouterInv
<1> QED
  BY <1>1, RouterInvariance, PTL

\* No provider is returned twice, and one that is active all the time is
\* returned, one that is inactive all the time is not (GetProviders, the swaps
\* of selectBySuccessRate and the move of selectByWeight).
THEOREM NobodyTwice == Spec => []EveryProviderOnce
<1>1. ASSUME RouterInv, pc = "done", NEW n \in DOMAIN Order
      PROVE  /\ Returned(Order[n]) <= 1
             /\ Order[n] \notin switched => Returned(Order[n]) = IF registry[n].active THEN 1 ELSE 0
  <2> DEFINE S == {m \in DOMAIN result : result[m].provider = Order[n]}
  <2>1. n \in 1 .. next - 1
    BY <1>1, OrderIsSeq DEF RouterInv, ReadInv
  <2>2. \A m, k \in S : m = k
    BY <1>1 DEF RouterInv, ReadInv
  <2>3. S = {} \/ \E m \in S : S = {m}
    BY <2>2
  <2>4. Cardinality(S) = IF S = {} THEN 0 ELSE 1
    BY <2>3, FS_EmptySet, FS_Singleton
  <2>5. Order[n] \notin switched => (registry[n].active <=> S # {})
    BY <1>1, <2>1 DEF RouterInv, ReadInv
  <2>6. Returned(Order[n]) = Cardinality(S)
    BY DEF Returned
  <2> HIDE DEF S
  <2> QED
    BY <2>4, <2>5, <2>6
<1>2. RouterInv => EveryProviderOnce
  <2> SUFFICES ASSUME RouterInv, pc = "done", NEW e \in Range(registry)
               PROVE  /\ Returned(e.provider) <= 1
                      /\ e.provider \notin switched =>
                            Returned(e.provider) = IF e.active THEN 1 ELSE 0
    BY DEF EveryProviderOnce
  <2>1. PICK n \in DOMAIN Order : e = registry[n]
    BY DEF Range, RouterInv, TypeOK
  <2>2. e.provider = Order[n]
    BY <2>1 DEF RouterInv, ReadInv
  <2> QED
    BY <1>1, <2>1, <2>2
<1> QED
  BY <1>2, RouterInvariance, PTL

\* A weighted selection leaves the fallback order of the others as configured
\* (selectByWeight), and the priority algorithm that of all.
THEOREM OthersKeepTheirOrder == Spec => []OnlyTheSelectedMoves
<1>1. RouterInv => OnlyTheSelectedMoves
  BY DEF RouterInv, OrderInv, InOrder, OnlyTheSelectedMoves
<1> QED
  BY <1>1, RouterInvariance, PTL

-----------------------------------------------------------------------------
(***************************************************************************)
(* The exchange sort.  Comparing is asymmetric and transitive, so what has *)
(* lost a comparison in its row never wins against the row's new head.     *)
(***************************************************************************)
LEMMA Scaled ==
    ASSUME NEW x \in Int, NEW y \in Int, NEW z \in Nat \ {0}
    PROVE  x > y <=> x * z > y * z
OBVIOUS

LEMMA RatesTransitive ==
    ASSUME NEW a \in Nat, NEW b \in Nat, NEW c \in Nat,
           NEW A \in Nat \ {0}, NEW B \in Nat \ {0}, NEW C \in Nat \ {0},
           a * B > b * A, b * C > c * B
    PROVE  a * C > c * A
<1>1. (a * B) * C > (b * A) * C
  BY Scaled
<1>2. (b * C) * A > (c * B) * A
  BY Scaled
<1>3. /\ (a * B) * C = (a * C) * B
      /\ (b * A) * C = (b * C) * A
      /\ (c * B) * A = (c * A) * B
  OBVIOUS
<1>4. (a * C) * B > (c * A) * B
  BY <1>1, <1>2, <1>3
<1> QED
  BY <1>4, Scaled

LEMMA BeforeIsOrder ==
    ASSUME TypeOK
    PROVE  /\ \A a, b \in Names : GoesBefore(a, b) => ~GoesBefore(b, a)
           /\ \A a, b, c \in Names : GoesBefore(a, b) /\ GoesBefore(b, c) => GoesBefore(a, c)
<1> DEFINE s(a) == tracker[a].success
           t(a) == tracker[a].success + tracker[a].fail
<1>1. \A a \in Names : s(a) \in Nat /\ t(a) \in Nat /\ (HasEnough(a) => t(a) \in Nat \ {0})
  BY DEF TypeOK, Stats, HasEnough
<1>2. \A a, b \in Names : HigherRate(a, b) <=> s(a) * t(b) > s(b) * t(a)
  BY DEF HigherRate
<1> HIDE DEF s, t
<1>3. ASSUME NEW a \in Names, NEW b \in Names, GoesBefore(a, b)
      PROVE  ~GoesBefore(b, a)
  <2>1. s(a) * t(b) \in Int /\ s(b) * t(a) \in Int
    BY <1>1
  <2> QED
    BY <1>2, <1>3, <2>1 DEF GoesBefore
<1>4. ASSUME NEW a \in Names, NEW b \in Names, NEW c \in Names, GoesBefore(a, b), GoesBefore(b, c)
      PROVE  GoesBefore(a, c)
  <2>1. HasEnough(a) /\ HasEnough(b) /\ s(a) * t(b) > s(b) * t(a)
    BY <1>2, <1>4 DEF GoesBefore
  <2>2. CASE HasEnough(c)
    <3>1. s(b) * t(c) > s(c) * t(b)
      BY <1>2, <1>4, <2>2 DEF GoesBefore
    <3>2. s(a) * t(c) > s(c) * t(a)
      BY <1>1, <2>1, <2>2, <3>1, RatesTransitive
    <3> QED
      BY <1>2, <2>1, <3>2 DEF GoesBefore
  <2> QED
    BY <2>1, <2>2 DEF GoesBefore
<1> QED
  BY <1>3, <1>4

Beats(s, n, m) == GoesBefore(s[n].provider, s[m].provider)

\* The rows before i are sorted, and row i up to column j - 1.
SortedUpTo(s, row, column) ==
    \A m, n \in DOMAIN s :
        m < n /\ (m < row \/ (m = row /\ n < column)) => ~Beats(s, n, m)

SortInv ==
    algo = "success_based" /\ quiet =>
        /\ pc = "sort" => i < j /\ SortedUpTo(result, i, j)
        /\ pc = "done" => SortedUpTo(result, Len(result), 1)
        /\ pc \in {"scan", "select"} => i = 1 /\ j = 2

LEMMA SortInit == Init => SortInv
BY DEF Init, SortInv

\* One comparison extends the sorted part, whether or not it swaps.
LEMMA CompareSorts ==
    ASSUME RouterInv, Compare, i < j, SortedUpTo(result, i, j)
    PROVE  (i < j /\ SortedUpTo(result, i, j))'
<1>1. /\ TypeOK /\ result \in Seq(Entry) /\ Len(result) \in Nat /\ DOMAIN result = 1 .. Len(result)
      /\ \A n \in DOMAIN result : result[n].provider \in Names
  BY ResultIsSeq DEF RouterInv, Entry
<1>2. i \in DOMAIN result /\ j \in DOMAIN result /\ i \in Nat /\ j \in Nat
      /\ i' = i /\ j' = j + 1 /\ UNCHANGED tracker
  BY <1>1 DEF Compare, TypeOK
<1>3. i' < j'
  BY <1>2
<1>4. \A m, n \in DOMAIN result :
         m < n /\ (m < i \/ (m = i /\ n < j)) => ~Beats(result, n, m)
  BY DEF SortedUpTo
<1>5. CASE Beats(result, j, i) /\ result' = Swapped(result, i, j)
  <2>1. /\ DOMAIN result' = DOMAIN result
        /\ result'[i] = result[j] /\ result'[j] = result[i]
        /\ \A n \in DOMAIN result : n # i /\ n # j => result'[n] = result[n]
    BY <1>1, <1>2, <1>5 DEF Swapped
  <2>2. ASSUME NEW m \in DOMAIN result, NEW n \in DOMAIN result, m < n,
               m < i \/ (m = i /\ n < j + 1)
        PROVE  ~Beats(result', n, m)
    <3>1. CASE m < i
      <4>1. result'[m] = result[m]
        BY <1>2, <2>1, <3>1
      <4>2. PICK k \in DOMAIN result : result'[n] = result[k] /\ m < k
        <5>1. CASE n = i
          <6>1. m < j
            BY <1>1, <1>2, <3>1
          <6> QED
            BY <1>2, <2>1, <5>1, <6>1
        <5>2. CASE n = j
          BY <1>2, <2>1, <3>1, <5>2
        <5>3. CASE n # i /\ n # j
          BY <2>1, <2>2, <5>3
        <5> QED
          BY <5>1, <5>2, <5>3
      <4>3. ~Beats(result, k, m)
        BY <1>4, <3>1, <4>2
      <4> QED
        BY <4>1, <4>2, <4>3 DEF Beats
    <3>2. CASE m = i /\ n = j
      BY <1>1, <1>2, <1>5, <2>1, <3>2, BeforeIsOrder DEF Beats
    <3>3. CASE m = i /\ n # j
      <4>1. n < j /\ i < n /\ result'[n] = result[n] /\ result'[m] = result[j]
        BY <1>1, <1>2, <2>1, <2>2, <3>3
      <4>2. ~Beats(result, n, i)
        BY <1>2, <4>1 DEF SortedUpTo
      <4> QED
        BY <1>1, <1>2, <1>5, <4>1, <4>2, BeforeIsOrder DEF Beats
    <3> QED
      BY <2>2, <3>1, <3>2, <3>3
  <2>3. \A m, n \in DOMAIN result : Beats(result, n, m)' <=> Beats(result', n, m)
    BY <1>2 DEF Beats, GoesBefore, HasEnough, HigherRate
  <2> QED
    BY <1>2, <1>3, <2>1, <2>2, <2>3 DEF SortedUpTo
<1>6. CASE ~Beats(result, j, i) /\ result' = result
  <2>1. ASSUME NEW m \in DOMAIN result, NEW n \in DOMAIN result, m < n,
               m < i \/ (m = i /\ n < j + 1)
        PROVE  ~Beats(result, n, m)
    <3>1. m < i \/ (m = i /\ n < j) \/ (m = i /\ n = j)
      <4>1. n \in Nat /\ j \in Nat
        BY <1>1, <1>2
      <4> QED
        BY <2>1, <4>1
    <3> QED
      BY <1>6, <1>4, <2>1, <3>1
  <2>2. \A m, n \in DOMAIN result : Beats(result, n, m)' <=> Beats(result, n, m)
    BY <1>2, <1>6 DEF Beats, GoesBefore, HasEnough, HigherRate
  <2> QED
    BY <1>2, <1>3, <1>6, <2>1, <2>2 DEF SortedUpTo
<1> QED
  BY <1>5, <1>6 DEF Compare, Beats

LEMMA SortStepKeeps == RouterInv /\ SortInv /\ [Next]_vars => SortInv'
<1> SUFFICES ASSUME RouterInv, SortInv, [Next]_vars, (algo = "success_based" /\ quiet)'
             PROVE  /\ pc' = "sort" => (i < j /\ SortedUpTo(result, i, j))'
                    /\ pc' = "done" => SortedUpTo(result, Len(result), 1)'
                    /\ pc' \in {"scan", "select"} => i' = 1 /\ j' = 2
  BY DEF SortInv
<1>1. /\ TypeOK /\ result \in Seq(Entry) /\ Len(result) \in Nat /\ DOMAIN result = 1 .. Len(result)
      /\ i \in Nat /\ j \in Nat
  BY ResultIsSeq DEF RouterInv, TypeOK
<1>2. CASE UNCHANGED <<tracker, algo, quiet>>
  <2>1. /\ pc = "sort" => i < j /\ SortedUpTo(result, i, j)
        /\ pc = "done" => SortedUpTo(result, Len(result), 1)
        /\ pc \in {"scan", "select"} => i = 1 /\ j = 2
    BY <1>2 DEF SortInv
  <2>2. \A a, b \in Names : GoesBefore(a, b)' <=> GoesBefore(a, b)
    BY <1>2 DEF GoesBefore, HasEnough, HigherRate
  <2>4. CASE UNCHANGED vars
    BY <1>1, <2>1, <2>4 DEF vars, sortVars, SortedUpTo, Beats, GoesBefore, HasEnough, HigherRate
  <2>5. CASE GetProviders \/ \E name \in Names, active \in BOOLEAN : SetActive(name, active)
    BY <2>1, <2>5 DEF GetProviders, SetActive, sortVars
  <2>6. CASE SelectProviders
    <3>1. CASE result = <<>> /\ result' = <<>> /\ pc' = "done"
      BY <3>1 DEF SortedUpTo
    <3>2. CASE pc' = "sort"
      <4>1. UNCHANGED <<i, j, result>> /\ i = 1 /\ j = 2
        BY <2>1, <2>6, <3>2 DEF SelectProviders, sortVars
      <4> QED
        BY <1>1, <3>2, <4>1 DEF SortedUpTo
    <3> QED
      BY <1>2, <2>6, <3>1, <3>2 DEF SelectProviders, SortInv
  <2>7. CASE Compare
    BY <2>1, <2>7, CompareSorts DEF Compare
  <2>8. CASE NextRow
    <3>1. pc = "sort" /\ pc' = "sort" /\ i < Len(result) /\ j > Len(result)
          /\ i' = i + 1 /\ j' = i + 2 /\ result' = result
      BY <2>8 DEF NextRow
    <3>2. ASSUME NEW m \in DOMAIN result, NEW n \in DOMAIN result, m < n,
                 m < i + 1 \/ (m = i + 1 /\ n < i + 2)
          PROVE  ~Beats(result, n, m)
      <4>1. m < i \/ (m = i /\ n < j)
        BY <1>1, <3>1, <3>2
      <4>2. \A k, l \in DOMAIN result :
               k < l /\ (k < i \/ (k = i /\ l < j)) => ~Beats(result, l, k)
        BY <2>1, <3>1 DEF SortedUpTo
      <4> QED
        BY <3>2, <4>1, <4>2
    <3>3. \A m, n \in DOMAIN result : Beats(result, n, m)' <=> Beats(result, n, m)
      BY <1>2, <3>1 DEF Beats, GoesBefore, HasEnough, HigherRate
    <3> QED
      BY <1>1, <3>1, <3>2, <3>3 DEF SortedUpTo
  <2>9. CASE SortDone
    <3>1. pc = "sort" /\ pc' = "done" /\ i >= Len(result) /\ result' = result
      BY <2>9 DEF SortDone
    <3>2. ASSUME NEW m \in DOMAIN result, NEW n \in DOMAIN result, m < n
          PROVE  ~Beats(result, n, m)
      <4>1. m < i
        BY <1>1, <3>1, <3>2
      <4>2. \A k, l \in DOMAIN result : k < l /\ k < i => ~Beats(result, l, k)
        BY <2>1, <3>1 DEF SortedUpTo
      <4> QED
        BY <3>2, <4>1, <4>2
    <3>3. \A m, n \in DOMAIN result : Beats(result, n, m)' <=> Beats(result, n, m)
      BY <1>2, <3>1 DEF Beats, GoesBefore, HasEnough, HigherRate
    <3> QED
      BY <3>1, <3>2, <3>3 DEF SortedUpTo
  <2>10. CASE RecordSend
    BY <2>10 DEF RecordSend
  <2> QED
    BY <2>4, <2>5, <2>6, <2>7, <2>8, <2>9, <2>10 DEF Next, RouterStep, SortStep
<1>3. CASE ~UNCHANGED <<tracker, algo, quiet>>
  BY <1>3 DEF vars, Next, RouterStep, SortStep, GetProviders, SetActive, SelectProviders,
     Compare, NextRow, SortDone, RecordSend, sortVars
<1> QED
  BY <1>2, <1>3

\* If no send is recorded during the sort, providers with enough samples come
\* first and their rates do not increase (selectBySuccessRate): the exchange
\* sort is right for any number of providers and any counters.
THEOREM SortedByRate == Spec => []BestFirst
<1>1. RouterInv /\ SortInv => BestFirst
  <2> SUFFICES ASSUME RouterInv, SortInv, pc = "done", algo = "success_based", quiet,
                      NEW m \in DOMAIN result, NEW n \in DOMAIN result, m < n,
                      HasEnough(result[n].provider)
               PROVE  HasEnough(result[m].provider)
                      /\ ~HigherRate(result[n].provider, result[m].provider)
    BY DEF BestFirst
  <2>1. ~Beats(result, n, m)
    <3>1. m < Len(result)
      BY ResultIsSeq DEF RouterInv
    <3>2. \A k, l \in DOMAIN result : k < l /\ k < Len(result) => ~Beats(result, l, k)
      BY DEF SortInv, SortedUpTo
    <3> QED
      BY <3>1, <3>2
  <2> QED
    BY <2>1 DEF Beats, GoesBefore
<1>2. Spec => []SortInv
  BY SortInit, SortStepKeeps, RouterInvariance, PTL DEF Spec
<1> QED
  BY <1>1, <1>2, RouterInvariance, PTL

-----------------------------------------------------------------------------
HIDE RouterAssumption

\* The weights.  Sum is a fold; what it adds up to is found by induction over
\* sets of indices, as functions of running sums.

\* Induction over the naturals, stated with sets.
LEMMA UpFromZero ==
    ASSUME NEW S, 0 \in S, \A n \in Nat : n \in S => n + 1 \in S
    PROVE  Nat \subseteq S
<1> SUFFICES ASSUME Nat \ S # {} PROVE FALSE
  OBVIOUS
<1>1. IsWellFoundedOn(OpToRel(<, Nat), Nat)
  BY NatLessThanWellFounded
<1>2. PICK x \in Nat \ S : \A y \in Nat \ S : <<y, x>> \notin OpToRel(<, Nat)
  BY <1>1, WFMin
<1>3. \A y \in Nat \ S : ~(y < x)
  BY <1>2 DEF OpToRel
<1>4. x # 0 /\ x \in Nat
  BY <1>2
<1>5. x - 1 \in Nat /\ x - 1 < x
  BY ONLY <1>4
<1>6. x - 1 \in S
  BY <1>3, <1>5
<1>7. (x - 1) + 1 \in S
  BY <1>5, <1>6
<1>8. (x - 1) + 1 = x
  BY ONLY <1>4
<1> QED
  BY <1>2, <1>7, <1>8

\* The function FoldLeft builds: the sum over each set of the first n indices.
IsFold(f, s, n) ==
    f = [S \in SUBSET (1 .. n) |->
            IF S = {} THEN 0 ELSE f[S \ {Max(S)}] + s[Max(S)]]

\* Sum is the fold that function computes.
LEMMA SumIsFold ==
    ASSUME NEW n \in Nat, NEW s, DOMAIN s = 1 .. n
    PROVE  Sum(s) = (CHOOSE f : IsFold(f, s, n))[1 .. n]
BY DEF Sum, FoldLeft, MapThenFoldSet, IsFold

\* Division with rest.
LEMMA Divides ==
    ASSUME NEW a \in Nat, NEW b \in Nat \ {0}
    PROVE  a = b * (a \div b) + (a % b) /\ a % b \in 0 .. b - 1 /\ a \div b \in Nat
OBVIOUS

\* The greatest index of a set that holds n.
LEMMA MaxAt ==
    ASSUME NEW n \in Nat, NEW S \in SUBSET (1 .. n), n \in S
    PROVE  Max(S) = n
<1>1. \A y \in S : n >= y
  OBVIOUS
<1>2. \A x \in S : (\A y \in S : x >= y) => x = n
  OBVIOUS
<1> QED
  BY <1>1, <1>2 DEF Max

\* The fold over the subsets of 1 .. n exists.
LEMMA FoldExists ==
    ASSUME NEW s
    PROVE  \A n \in Nat : \E f : IsFold(f, s, n)
<1> DEFINE T == {n \in Nat : \E f : IsFold(f, s, n)}
<1>1. 0 \in T
  <2> DEFINE f == [S \in SUBSET (1 .. 0) |-> 0]
  <2>1. \A S \in SUBSET (1 .. 0) : S = {}
    OBVIOUS
  <2>2. IsFold(f, s, 0)
    BY <2>1 DEF IsFold
  <2> HIDE DEF f
  <2> QED
    BY <2>2
<1>2. ASSUME NEW n \in Nat, n \in T PROVE n + 1 \in T
  <2>1. PICK f : IsFold(f, s, n)
    BY <1>2
  <2> DEFINE g == [S \in SUBSET (1 .. n + 1) |->
                      IF n + 1 \in S THEN f[S \ {n + 1}] + s[n + 1] ELSE f[S]]
  <2>2. ASSUME NEW S \in SUBSET (1 .. n + 1)
        PROVE  g[S] = IF S = {} THEN 0 ELSE g[S \ {Max(S)}] + s[Max(S)]
    <3>1. CASE n + 1 \in S
      <4>1. Max(S) = n + 1
        BY <3>1, MaxAt
      <4>2. S \ {n + 1} \in SUBSET (1 .. n + 1) /\ n + 1 \notin S \ {n + 1}
        OBVIOUS
      <4>3. g[S \ {n + 1}] = f[S \ {n + 1}]
        BY <4>2
      <4> QED
        BY <3>1, <4>1, <4>3
    <3>2. CASE n + 1 \notin S /\ S # {}
      <4>1. S \in SUBSET (1 .. n)
        BY <3>2
      <4>2. f[S] = f[S \ {Max(S)}] + s[Max(S)]
        BY <2>1, <3>2, <4>1 DEF IsFold
      <4>3. g[S] = f[S] /\ g[S \ {Max(S)}] = f[S \ {Max(S)}]
        BY <3>2
      <4> QED
        BY <3>2, <4>2, <4>3
    <3>3. CASE S = {}
      <4>1. f[{}] = 0
        BY <2>1 DEF IsFold
      <4> QED
        BY <3>3, <4>1
    <3> QED
      BY <3>1, <3>2, <3>3
  <2>3. IsFold(g, s, n + 1)
    <3> DEFINE h == [S \in SUBSET (1 .. n + 1) |->
                        IF S = {} THEN 0 ELSE g[S \ {Max(S)}] + s[Max(S)]]
    <3>1. \A S \in SUBSET (1 .. n + 1) : g[S] = h[S]
      <4> HIDE DEF g
      <4> QED
        BY <2>2
    <3>2. g = h
      BY <3>1
    <3> HIDE DEF g
    <3> QED
      BY <3>2 DEF IsFold
  <2> HIDE DEF g
  <2> QED
    BY <2>3
<1>3. \A n \in Nat : n \in T => n + 1 \in T
  BY <1>2
<1> HIDE DEF T
<1>4. Nat \subseteq T
  BY <1>1, <1>3, UpFromZero
<1> QED
  BY <1>4 DEF T

\* A function of the running sums of s.
Running(p, s, n) ==
    /\ p \in [0 .. n -> Int]
    /\ p[0] = 0
    /\ \A k \in 1 .. n : p[k] = p[k - 1] + s[k]

\* Every sequence of integers has running sums, the last of which is Sum.
LEMMA RunningExists ==
    ASSUME NEW n \in Nat, NEW s \in [1 .. n -> Int]
    PROVE  \E p : Running(p, s, n) /\ p[n] = Sum(s)
<1> DEFINE f == CHOOSE g : IsFold(g, s, n)
<1>1. IsFold(f, s, n)
  BY FoldExists
<1>2. Sum(s) = f[1 .. n]
  BY SumIsFold
<1> HIDE DEF f
<1> DEFINE p == [k \in 0 .. n |-> f[1 .. k]]
<1>3. p[0] = 0
  <2>1. 1 .. 0 = {} /\ {} \in SUBSET (1 .. n)
    OBVIOUS
  <2>2. f[{}] = 0
    BY <1>1 DEF IsFold
  <2> QED
    BY <2>1, <2>2
<1>4. ASSUME NEW k \in 1 .. n PROVE p[k] = p[k - 1] + s[k]
  <2>1. k \in Nat /\ k \in 1 .. k /\ 1 .. k \in SUBSET (1 .. n) /\ 1 .. k \in SUBSET (1 .. k)
    <3>1. k \in Nat /\ k \in 1 .. k /\ 1 .. k \subseteq 1 .. n
      OBVIOUS
    <3> QED
      BY <3>1
  <2>2. Max(1 .. k) = k
    BY <2>1, MaxAt
  <2>3. (1 .. k) \ {k} = 1 .. k - 1
    OBVIOUS
  <2>4. f[1 .. k] = f[(1 .. k) \ {Max(1 .. k)}] + s[Max(1 .. k)]
    BY <1>1, <2>1 DEF IsFold
  <2>5. k \in 0 .. n /\ k - 1 \in 0 .. n
    OBVIOUS
  <2> QED
    BY <2>2, <2>3, <2>4, <2>5
<1>5. \A k \in 0 .. n : p[k] \in Int
  <2> DEFINE T == {k \in Nat : k \in 0 .. n => p[k] \in Int}
  <2> HIDE DEF p
  <2>1. 0 \in T
    BY <1>3
  <2>2. ASSUME NEW k \in Nat, k \in T PROVE k + 1 \in T
    <3>1. CASE k + 1 \in 0 .. n
      <4>1. k + 1 \in 1 .. n /\ (k + 1) - 1 = k /\ k \in 0 .. n
        BY <3>1
      <4>2. p[k + 1] = p[k] + s[k + 1]
        BY <1>4, <4>1
      <4> QED
        BY <2>2, <4>1, <4>2
    <3> QED
      BY <3>1
  <2>3. \A k \in Nat : k \in T => k + 1 \in T
    BY <2>2
  <2> HIDE DEF T
  <2>4. Nat \subseteq T
    BY <2>1, <2>3, UpFromZero
  <2> QED
    BY <2>4 DEF T
<1>6. n \in 0 .. n
  OBVIOUS
<1>7. p[n] = Sum(s)
  BY <1>2, <1>6
<1>8. p \in [0 .. n -> Int]
  BY <1>5
<1> HIDE DEF p
<1> QED
  BY <1>3, <1>4, <1>7, <1>8 DEF Running

\* There is one such function, on a prefix of s as well.
LEMMA RunningAgree ==
    ASSUME NEW n \in Nat, NEW m \in 0 .. n, NEW s, NEW t, NEW p, NEW q,
           Running(p, s, n), Running(q, t, m), \A k \in 1 .. m : s[k] = t[k]
    PROVE  p[m] = q[m]
<1> DEFINE T == {k \in Nat : k \in 0 .. m => p[k] = q[k]}
<1>1. 0 \in T
  BY DEF Running
<1>2. ASSUME NEW k \in Nat, k \in T PROVE k + 1 \in T
  <2>1. CASE k + 1 \in 0 .. m
    <3>1. k + 1 \in 1 .. m /\ k + 1 \in 1 .. n /\ (k + 1) - 1 = k /\ k \in 0 .. m
      BY <2>1
    <3>2. p[k + 1] = p[k] + s[k + 1] /\ q[k + 1] = q[k] + t[k + 1]
      BY <3>1 DEF Running
    <3> QED
      BY <1>2, <3>1, <3>2
  <2> QED
    BY <2>1
<1>3. \A k \in Nat : k \in T => k + 1 \in T
  BY <1>2
<1> HIDE DEF T
<1>4. Nat \subseteq T
  BY <1>1, <1>3, UpFromZero
<1> QED
  BY <1>4 DEF T

\* The sum of a sequence is known from any function of running sums.
LEMMA SumFromRunning ==
    ASSUME NEW n \in Nat, NEW s \in [1 .. n -> Int], NEW p, Running(p, s, n)
    PROVE  /\ Sum(s) = p[n]
           /\ \A m \in 1 .. n : Sum(SubSeq(s, 1, m)) = p[m]
<1>1. PICK q : Running(q, s, n) /\ q[n] = Sum(s)
  BY RunningExists
<1>2. n \in 0 .. n
  OBVIOUS
<1>3. p[n] = q[n]
  BY <1>1, <1>2, RunningAgree
<1>4. ASSUME NEW m \in 1 .. n PROVE Sum(SubSeq(s, 1, m)) = p[m]
  <2> DEFINE t == [k \in 1 .. m |-> s[k]]
  <2>1. s \in Seq(Int) /\ Len(s) = n
    OBVIOUS
  <2>2. SubSeq(s, 1, m) = t
    <3>1. SubSeq(s, 1, m) \in Seq(Int) /\ Len(SubSeq(s, 1, m)) = m
          /\ \A k \in 1 .. m : SubSeq(s, 1, m)[k] = s[k]
      BY <2>1
    <3> QED
      BY <3>1
  <2>3. t \in [1 .. m -> Int] /\ m \in Nat /\ m \in 0 .. n /\ \A k \in 1 .. m : s[k] = t[k]
    OBVIOUS
  <2> HIDE DEF t
  <2>4. PICK r : Running(r, t, m) /\ r[m] = Sum(t)
    BY <2>3, RunningExists
  <2>5. p[m] = r[m]
    BY <2>3, <2>4, RunningAgree
  <2> QED
    BY <2>2, <2>4, <2>5
<1> QED
  BY <1>1, <1>3, <1>4
-----------------------------------------------------------------------------
\* Counting the members of S up to k.
LEMMA CountUpTo ==
    ASSUME NEW n \in Nat, NEW S \in SUBSET (1 .. n)
    PROVE  /\ \A k \in 0 .. n : Cardinality(S \cap (1 .. k)) \in Nat
           /\ Cardinality(S \cap (1 .. 0)) = 0
           /\ \A k \in 1 .. n : Cardinality(S \cap (1 .. k)) =
                 Cardinality(S \cap (1 .. k - 1)) + (IF k \in S THEN 1 ELSE 0)
           /\ Cardinality(S \cap (1 .. n)) = Cardinality(S)
<1>1. ASSUME NEW k \in 0 .. n
      PROVE  IsFiniteSet(S \cap (1 .. k)) /\ Cardinality(S \cap (1 .. k)) \in Nat
  <2>1. IsFiniteSet(1 .. k)
    BY FS_Interval
  <2>2. IsFiniteSet((1 .. k) \cap S)
    BY <2>1, FS_Intersection
  <2>3. (1 .. k) \cap S = S \cap (1 .. k)
    OBVIOUS
  <2> QED
    BY <2>2, <2>3, FS_CardinalityType
<1>2. Cardinality(S \cap (1 .. 0)) = 0
  <2>1. S \cap (1 .. 0) = {}
    OBVIOUS
  <2> QED
    BY <2>1, FS_EmptySet
<1>3. ASSUME NEW k \in 1 .. n
      PROVE  Cardinality(S \cap (1 .. k)) =
                 Cardinality(S \cap (1 .. k - 1)) + (IF k \in S THEN 1 ELSE 0)
  <2>1. CASE k \in S
    <3>1. S \cap (1 .. k) = (S \cap (1 .. k - 1)) \cup {k} /\ k \notin S \cap (1 .. k - 1)
      BY <2>1
    <3>2. k - 1 \in 0 .. n
      OBVIOUS
    <3>3. Cardinality((S \cap (1 .. k - 1)) \cup {k}) = Cardinality(S \cap (1 .. k - 1)) + 1
      BY <1>1, <3>1, <3>2, FS_AddElement
    <3> QED
      BY <2>1, <3>1, <3>3
  <2>2. CASE k \notin S
    <3>1. S \cap (1 .. k) = S \cap (1 .. k - 1)
      BY <2>2
    <3>2. k - 1 \in 0 .. n
      OBVIOUS
    <3> QED
      BY <1>1, <2>2, <3>1, <3>2
  <2> QED
    BY <2>1, <2>2
<1>4. S \cap (1 .. n) = S
  OBVIOUS
<1> QED
  BY <1>1, <1>2, <1>3, <1>4

\* The weights e: an explicit one of w stands, the others, those of S, are a
\* share of what is left, with the rest of the division for the first.
Shared(w, e, n, S, first, share, rest) ==
    /\ w \in [1 .. n -> Int] /\ e \in [1 .. n -> Int]
    /\ S \in SUBSET (1 .. n) /\ first \in S
    /\ \A k \in (1 .. n) \ S : e[k] = w[k]
    /\ \A k \in S : w[k] = 0 /\ e[k] = share + (IF k = first THEN rest ELSE 0)

\* What weights add up to when those of S share something evenly.
LEMMA SumOfShares ==
    ASSUME NEW n \in Nat, NEW share \in Int, NEW rest \in Int,
           NEW w, NEW e, NEW S, NEW first,
           Shared(w, e, n, S, first, share, rest)
    PROVE  Sum(e) = Sum(w) + share * Cardinality(S) + rest
<1>1. /\ w \in [1 .. n -> Int] /\ e \in [1 .. n -> Int]
      /\ S \in SUBSET (1 .. n) /\ first \in S
  BY DEF Shared
<1> DEFINE C(k) == Cardinality(S \cap (1 .. k))
           B(k) == IF first <= k THEN rest ELSE 0
<1>2. PICK p : Running(p, w, n) /\ p[n] = Sum(w)
  BY <1>1, RunningExists
<1>3. /\ \A k \in 0 .. n : C(k) \in Nat
      /\ C(0) = 0
      /\ \A k \in 1 .. n : C(k) = C(k - 1) + (IF k \in S THEN 1 ELSE 0)
      /\ C(n) = Cardinality(S)
  BY <1>1, CountUpTo
<1>4. first \in 1 .. n /\ first \in Int
  BY <1>1
<1>5. /\ \A k \in 0 .. n : B(k) \in Int
      /\ B(0) = 0
      /\ \A k \in 1 .. n : B(k) = B(k - 1) + (IF k = first THEN rest ELSE 0)
      /\ B(n) = rest
  <2>1. \A k \in 0 .. n : B(k) \in Int
    BY <1>4
  <2>2. B(0) = 0
    BY <1>4
  <2>3. ASSUME NEW k \in 1 .. n
        PROVE  B(k) = B(k - 1) + (IF k = first THEN rest ELSE 0)
    <3>1. CASE k = first
      BY <1>4, <3>1
    <3>2. CASE k < first
      BY <1>4, <3>2
    <3>3. CASE k > first
      BY <1>4, <3>3
    <3> QED
      BY <1>4, <3>1, <3>2, <3>3
  <2> QED
    BY <1>4, <2>1, <2>2, <2>3
<1> HIDE DEF B, C
<1>6. PICK t \in [0 .. n -> Int] :
         /\ t[0] = 0
         /\ \A k \in 1 .. n : t[k] = t[k - 1] + (IF k \in S THEN share ELSE 0)
         /\ t[n] = share * Cardinality(S)
  <2> DEFINE u == [k \in 0 .. n |-> share * C(k)]
  <2>1. u \in [0 .. n -> Int]
    BY <1>3
  <2>2. u[0] = 0
    <3>1. u[0] = share * 0
      BY <1>3
    <3> QED
      BY <3>1
  <2>3. ASSUME NEW k \in 1 .. n PROVE u[k] = u[k - 1] + (IF k \in S THEN share ELSE 0)
    <3>1. k \in 0 .. n /\ k - 1 \in 0 .. n
      OBVIOUS
    <3>2. C(k - 1) \in Int /\ C(k) = C(k - 1) + (IF k \in S THEN 1 ELSE 0)
      BY <1>3, <3>1
    <3>3. PICK c \in Int : c = C(k - 1)
      BY <3>2
    <3>4. u[k] = share * C(k) /\ u[k - 1] = share * c
      BY <3>1, <3>3
    <3>5. PICK x \in Int : x = share * c
      OBVIOUS
    <3>6. CASE k \in S
      <4>1. C(k) = c + 1
        BY <3>2, <3>3, <3>6
      <4>2. share * (c + 1) = share * c + share
        OBVIOUS
      <4> HIDE DEF u
      <4> QED
        BY <3>4, <3>6, <4>1, <4>2
    <3>7. CASE k \notin S
      <4>1. C(k) = c
        BY <3>2, <3>3, <3>7
      <4>2. x + 0 = x
        OBVIOUS
      <4> HIDE DEF u
      <4> QED
        BY <3>4, <3>5, <3>7, <4>1, <4>2
    <3> QED
      BY <3>6, <3>7
  <2>4. u[n] = share * Cardinality(S)
    BY <1>3
  <2> HIDE DEF u
  <2> QED
    BY <2>1, <2>2, <2>3, <2>4
<1> DEFINE r == [k \in 0 .. n |-> p[k] + t[k] + B(k)]
<1>7. Running(r, e, n)
  <2>1. ASSUME NEW k \in 0 .. n
        PROVE  r[k] = p[k] + t[k] + B(k) /\ p[k] \in Int /\ t[k] \in Int /\ B(k) \in Int
    BY <1>2, <1>6, <1>5 DEF Running
  <2>2. r = [k \in 0 .. n |-> r[k]]
    OBVIOUS
  <2> HIDE DEF r
  <2>3. r \in [0 .. n -> Int]
    <3>1. \A k \in 0 .. n : r[k] \in Int
      <4> TAKE k \in 0 .. n
      <4>1. PICK x \in Int, y \in Int, z \in Int : x = p[k] /\ y = t[k] /\ z = B(k)
        BY <2>1
      <4>2. r[k] = x + y + z
        BY <2>1, <4>1
      <4> QED
        BY <4>2
    <3> QED
      BY ONLY <2>2, <3>1
  <2>4. r[0] = 0
    <3>1. 0 \in 0 .. n
      OBVIOUS
    <3>2. r[0] = p[0] + t[0] + B(0)
      BY <2>1, <3>1
    <3>3. p[0] = 0 /\ t[0] = 0 /\ B(0) = 0
      BY <1>2, <1>6, <1>5 DEF Running
    <3> QED
      BY <3>2, <3>3
  <2>5. ASSUME NEW k \in 1 .. n PROVE r[k] = r[k - 1] + e[k]
    <3>1. k \in 0 .. n /\ k - 1 \in 0 .. n
      OBVIOUS
    <3>2. p[k] = p[k - 1] + w[k] /\ w[k] \in Int
      BY <1>2, <1>1 DEF Running
    <3>3. t[k] = t[k - 1] + (IF k \in S THEN share ELSE 0)
      BY <1>6
    <3>4. B(k) = B(k - 1) + (IF k = first THEN rest ELSE 0)
      BY <1>5
    <3>5. PICK a \in Int, b \in Int, c \in Int :
             a = p[k - 1] /\ b = t[k - 1] /\ c = B(k - 1)
      BY <2>1, <3>1
    <3>6. r[k - 1] = a + b + c /\ r[k] = p[k] + t[k] + B(k)
      BY <2>1, <3>1, <3>5
    <3>7. CASE k \in S
      <4>1. p[k] = a + 0 /\ t[k] = b + share
        BY <3>2, <3>3, <3>5, <3>7 DEF Shared
      <4>2. PICK d \in Int : d = IF k = first THEN rest ELSE 0
        OBVIOUS
      <4>3. B(k) = c + d /\ e[k] = share + d
        BY <3>4, <3>5, <3>7, <4>2 DEF Shared
      <4>4. (a + 0) + (b + share) + (c + d) = (a + b + c) + (share + d)
        OBVIOUS
      <4> QED
        BY <3>6, <4>1, <4>3, <4>4
    <3>8. CASE k \notin S
      <4>1. k # first /\ e[k] = w[k]
        BY <1>1, <3>8 DEF Shared
      <4>2. PICK d \in Int : d = w[k]
        BY <3>2
      <4>3. p[k] = a + d /\ t[k] = b + 0 /\ B(k) = c + 0
        BY <3>2, <3>3, <3>4, <3>5, <3>8, <4>1, <4>2
      <4>4. (a + d) + (b + 0) + (c + 0) = (a + b + c) + d
        OBVIOUS
      <4> QED
        BY <3>6, <4>1, <4>2, <4>3, <4>4
    <3> QED
      BY <3>7, <3>8
  <2> QED
    BY <2>3, <2>4, <2>5 DEF Running
<1>8. Sum(e) = r[n]
  <2> HIDE DEF r
  <2> QED
    BY <1>7, <1>1, SumFromRunning
<1>9. n \in 0 .. n
  OBVIOUS
<1> QED
  BY <1>2, <1>6, <1>8, <1>9, <1>5 DEF Running

\* Running sums of weights only grow, by at most 100 each.
LEMMA RunningGrows ==
    ASSUME NEW n \in Nat, NEW s \in [1 .. n -> 0 .. 100], NEW p, Running(p, s, n)
    PROVE  /\ \A k \in 0 .. n : p[k] \in Nat /\ p[k] <= 100 * k
           /\ \A m, k \in 0 .. n : m <= k => p[m] <= p[k]
<1>1. \A k \in 0 .. n : p[k] \in Nat /\ p[k] <= 100 * k
  <2> DEFINE T == {k \in Nat : k \in 0 .. n => p[k] \in Nat /\ p[k] <= 100 * k}
  <2>1. 0 \in T
    BY DEF Running
  <2>2. ASSUME NEW k \in Nat, k \in T PROVE k + 1 \in T
    <3>1. CASE k + 1 \in 0 .. n
      <4>1. k + 1 \in 1 .. n /\ (k + 1) - 1 = k /\ k \in 0 .. n
        BY <3>1
      <4>2. p[k + 1] = p[k] + s[k + 1] /\ s[k + 1] \in 0 .. 100
        BY <4>1 DEF Running
      <4>3. p[k] \in Nat /\ p[k] <= 100 * k
        BY <2>2, <4>1
      <4>4. p[k + 1] \in Nat /\ p[k + 1] <= 100 * (k + 1)
        <5>1. PICK x \in Nat, y \in 0 .. 100 : x = p[k] /\ y = s[k + 1]
          BY <4>2, <4>3
        <5>2. x <= 100 * k
          BY <4>3, <5>1
        <5>3. x + y \in Nat /\ x + y <= 100 * (k + 1)
          BY ONLY <5>2, x \in Nat, y \in 0 .. 100, k \in Nat
        <5> QED
          BY <4>2, <5>1, <5>3
      <4> QED
        BY <4>4
    <3> QED
      BY <3>1
  <2>3. \A k \in Nat : k \in T => k + 1 \in T
    BY <2>2
  <2> HIDE DEF T
  <2>4. Nat \subseteq T
    BY <2>1, <2>3, UpFromZero
  <2> QED
    BY <2>4 DEF T
<1>2. ASSUME NEW m \in 0 .. n PROVE \A k \in 0 .. n : m <= k => p[m] <= p[k]
  <2> DEFINE T == {k \in Nat : k \in 0 .. n /\ m <= k => p[m] <= p[k]}
  <2>1. 0 \in T
    <3>1. m <= 0 => m = 0
      OBVIOUS
    <3>2. p[m] <= p[m]
      BY <1>1
    <3> QED
      BY <3>1, <3>2
  <2>2. ASSUME NEW k \in Nat, k \in T PROVE k + 1 \in T
    <3>1. CASE k + 1 \in 0 .. n /\ m <= k
      <4>1. k + 1 \in 1 .. n /\ (k + 1) - 1 = k /\ k \in 0 .. n
        BY <3>1
      <4>2. p[k + 1] = p[k] + s[k + 1] /\ s[k + 1] \in 0 .. 100
        BY <4>1 DEF Running
      <4>3. p[m] <= p[k] /\ p[m] \in Nat /\ p[k] \in Nat
        BY <1>1, <2>2, <3>1, <4>1
      <4>4. p[m] <= p[k + 1]
        <5>1. PICK x \in Nat, y \in 0 .. 100, z \in Nat : x = p[k] /\ y = s[k + 1] /\ z = p[m]
          BY <4>2, <4>3
        <5>2. z <= x
          BY <4>3, <5>1
        <5>3. z <= x + y
          BY ONLY <5>2, x \in Nat, y \in 0 .. 100, z \in Nat
        <5> QED
          BY <4>2, <5>1, <5>3
      <4> QED
        BY <4>4
    <3>2. CASE k + 1 \in 0 .. n /\ m = k + 1
      <4>1. p[m] <= p[m]
        BY <1>1
      <4> QED
        BY <3>2, <4>1
    <3>3. CASE ~(k + 1 \in 0 .. n /\ m <= k + 1)
      BY <3>3
    <3> QED
      BY <3>1, <3>2, <3>3
  <2>3. \A k \in Nat : k \in T => k + 1 \in T
    BY <2>2
  <2> HIDE DEF T
  <2>4. Nat \subseteq T
    BY <2>1, <2>3, UpFromZero
  <2> QED
    BY <2>4 DEF T
<1> QED
  BY <1>1, <1>2

\* The explicit weights, 0 where unset.
Given == [m \in DOMAIN result |-> result[m].weight]

\* The weights of the configuration.
LEMMA GivenWeights ==
    ASSUME TypeOK
    PROVE  /\ Given \in [1 .. Len(result) -> 0 .. 100]
           /\ Sum(Given) \in Nat
           /\ Unset(result) \in SUBSET (1 .. Len(result))
           /\ \A k \in 1 .. Len(result) : k \in Unset(result) <=> Given[k] = 0
<1>1. PICK n \in Nat : n = Len(result)
  BY ResultIsSeq
<1>2. DOMAIN result = 1 .. n
  BY <1>1, ResultIsSeq
<1>3. \A k \in 1 .. n : result[k].weight \in 0 .. 100
  <2>1. \A k \in 1 .. n : result[k] \in Entry
    BY <1>2, ResultIsSeq
  <2>2. \A k \in 1 .. n : result[k].weight \in Weights
    BY <2>1 DEF Entry
  <2> QED
    BY <2>2, RouterAssumption
<1>4. Given \in [1 .. n -> 0 .. 100]
  BY <1>2, <1>3 DEF Given
<1>5. Sum(Given) \in Nat
  <2>1. Given \in [1 .. n -> Int]
    <3>1. 0 .. 100 \subseteq Int
      OBVIOUS
    <3> QED
      BY <1>4, <3>1
  <2>2. PICK p : Running(p, Given, n) /\ p[n] = Sum(Given)
    BY <2>1, RunningExists
  <2>3. n \in 0 .. n
    OBVIOUS
  <2> QED
    BY <1>4, <2>2, <2>3, RunningGrows
<1>6. /\ Unset(result) \in SUBSET (1 .. n)
      /\ \A k \in 1 .. n : k \in Unset(result) <=> Given[k] = 0
  BY <1>2 DEF Unset, Given
<1> QED
  BY <1>1, <1>4, <1>5, <1>6

\* calculateEffectiveWeights, provider by provider.
LEMMA EffectiveWeights ==
    ASSUME TypeOK
    PROVE  /\ calculateEffectiveWeights(result) \in [1 .. Len(result) -> 0 .. 100]
           /\ \A k \in 1 .. Len(result) \ Unset(result) :
                 calculateEffectiveWeights(result)[k] = Given[k]
           /\ Unset(result) # {} /\ Sum(Given) < 100 =>
                 \A k \in Unset(result) :
                    calculateEffectiveWeights(result)[k] =
                       (100 - Sum(Given)) \div Cardinality(Unset(result))
                         + (IF k = First(Unset(result))
                            THEN (100 - Sum(Given)) % Cardinality(Unset(result)) ELSE 0)
<1>1. PICK n \in Nat : n = Len(result)
  BY ResultIsSeq
<1>2. DOMAIN result = 1 .. n
  BY <1>1, ResultIsSeq
<1>3. PICK total \in Nat : total = Sum(Given)
  BY GivenWeights
<1>4. PICK S \in SUBSET (1 .. n) :
         /\ S = Unset(result)
         /\ \A k \in 1 .. n : k \in S <=> Given[k] = 0
  BY <1>1, GivenWeights
<1>5. \A k \in 1 .. n : Given[k] = result[k].weight /\ Given[k] \in 0 .. 100
  BY <1>1, <1>2, GivenWeights DEF Given
<1>6. IsFiniteSet(S)
  <2>1. IsFiniteSet(1 .. n)
    BY FS_Interval
  <2> QED
    BY <2>1, FS_Subset
<1>7. PICK c \in Nat : c = Cardinality(S) /\ (S # {} => c # 0)
  BY <1>6, FS_CardinalityType, FS_EmptySet
<1> DEFINE e == calculateEffectiveWeights(result)
<1>8. ASSUME NEW k \in (1 .. n) \ S
      PROVE  e[k] = Given[k] /\ Given[k] \in 0 .. 100
  <2>1. Given[k] # 0 /\ Given[k] = result[k].weight /\ Given[k] \in 0 .. 100
    BY <1>4, <1>5
  <2>2. result[k].weight > 0
    BY <2>1
  <2> QED
    BY <1>2, <2>1, <2>2 DEF calculateEffectiveWeights
<1>9. ASSUME NEW k \in S
      PROVE  e[k] = IF 100 - total <= 0 THEN 1
                    ELSE ((100 - total) \div c)
                           + (IF k = First(S) THEN (100 - total) % c ELSE 0)
  <2>1. ~(result[k].weight > 0)
    BY <1>4, <1>5
  <2>2. e[k] = UnsetWeight(result, k)
    BY <1>2, <2>1 DEF calculateEffectiveWeights
  <2> QED
    BY <1>3, <1>4, <1>7, <2>2 DEF UnsetWeight, Given
<1>10. ASSUME NEW k \in S PROVE e[k] \in 0 .. 100
  <2>1. CASE 100 - total <= 0
    BY <1>9, <2>1
  <2>2. CASE 100 - total > 0
    <3>1. PICK left \in 1 .. 100 : left = 100 - total
      BY <2>2
    <3>2. c \in Nat \ {0}
      BY <1>7
    <3>3. left = c * (left \div c) + (left % c) /\ left % c \in 0 .. c - 1 /\ left \div c \in Nat
      <4>1. left \in Nat
        OBVIOUS
      <4> QED
        BY <3>2, <4>1, Divides
    <3>4. PICK d \in Nat, m \in Nat : d = left \div c /\ m = left % c
      BY <3>3
    <3>5. d + m <= left
      <4>1. left = c * d + m
        BY <3>3, <3>4
      <4>2. c * d >= d
        BY <3>2
      <4>3. c * d \in Nat
        BY <3>2
      <4> QED
        BY <4>1, <4>2, <4>3
    <3>6. e[k] = d + (IF k = First(S) THEN m ELSE 0)
      BY <1>9, <2>2, <3>1, <3>4
    <3> QED
      BY <3>1, <3>5, <3>6
  <2> QED
    BY <2>1, <2>2
<1>11. e \in [1 .. n -> 0 .. 100]
  <2>1. \A k \in 1 .. n : e[k] \in 0 .. 100
    BY <1>8, <1>10
  <2>2. e = [k \in 1 .. n |-> e[k]]
    BY <1>2 DEF calculateEffectiveWeights
  <2> HIDE DEF e
  <2> QED
    BY <2>1, <2>2
<1>12. total < 100 => ~(100 - total <= 0)
  OBVIOUS
<1> HIDE DEF e
<1>13. /\ e \in [1 .. Len(result) -> 0 .. 100]
       /\ \A k \in 1 .. Len(result) \ Unset(result) : e[k] = Given[k]
       /\ Unset(result) # {} /\ Sum(Given) < 100 =>
             \A k \in Unset(result) :
                e[k] = (100 - Sum(Given)) \div Cardinality(Unset(result))
                         + (IF k = First(Unset(result))
                            THEN (100 - Sum(Given)) % Cardinality(Unset(result)) ELSE 0)
  BY <1>1, <1>3, <1>4, <1>7, <1>8, <1>9, <1>11, <1>12
<1> QED
  BY <1>13 DEF e

\* The two properties of the weights hold in every well-typed state.
LEMMA TypesAddUp ==
    ASSUME TypeOK
    PROVE  WeightsAddUp
<1> DEFINE e == calculateEffectiveWeights(result)
           S == Unset(result)
<1> SUFFICES ASSUME S # {}, Sum(Given) < 100 PROVE Sum(e) = 100
  BY DEF WeightsAddUp, Given
<1>1. PICK n \in Nat : n = Len(result)
  BY ResultIsSeq
<1>2. PICK total \in Nat : total = Sum(Given)
  BY GivenWeights
<1>3. PICK left \in Nat : left = 100 - total
  BY <1>2
<1>4. S \in SUBSET (1 .. n) /\ Given \in [1 .. n -> Int] /\ \A k \in S : Given[k] = 0
  <2>1. 0 .. 100 \subseteq Int
    OBVIOUS
  <2> QED
    BY <1>1, <2>1, GivenWeights
<1>5. First(S) \in S
  BY <1>4, LeastIndex
<1>6. PICK c \in Nat \ {0} : c = Cardinality(S)
  <2>1. IsFiniteSet(1 .. n)
    BY FS_Interval
  <2>2. IsFiniteSet(S)
    BY <1>4, <2>1, FS_Subset
  <2> QED
    BY <2>2, FS_CardinalityType, FS_EmptySet
<1>7. PICK share \in Int, rest \in Int :
         share = left \div c /\ rest = left % c /\ left = c * share + rest
  <2>1. left = c * (left \div c) + (left % c) /\ left % c \in 0 .. c - 1 /\ left \div c \in Nat
    BY Divides
  <2> QED
    BY <2>1
<1>8. /\ e \in [1 .. n -> Int]
      /\ \A k \in (1 .. n) \ S : e[k] = Given[k]
      /\ \A k \in S : e[k] = share + (IF k = First(S) THEN rest ELSE 0)
  <2>1. 0 .. 100 \subseteq Int
    OBVIOUS
  <2>2. e \in [1 .. n -> Int] /\ \A k \in (1 .. n) \ S : e[k] = Given[k]
    BY <1>1, <2>1, EffectiveWeights
  <2>3. \A k \in S : e[k] = (100 - Sum(Given)) \div Cardinality(S)
                             + (IF k = First(S) THEN (100 - Sum(Given)) % Cardinality(S) ELSE 0)
    BY EffectiveWeights
  <2>4. 100 - Sum(Given) = left
    BY <1>2, <1>3
  <2> HIDE DEF e, S
  <2>5. \A k \in S : e[k] = left \div c + (IF k = First(S) THEN left % c ELSE 0)
    BY <1>6, <2>3, <2>4
  <2> QED
    BY <1>7, <2>2, <2>5
<1> HIDE DEF e, S
<1>9. Sum(e) = total + share * c + rest
  <2>1. PICK first \in S : first = First(S)
    BY <1>5
  <2>2. Shared(Given, e, n, S, first, share, rest)
    BY <1>4, <1>8, <2>1 DEF Shared
  <2>3. Sum(e) = Sum(Given) + share * Cardinality(S) + rest
    BY <2>2, SumOfShares
  <2> QED
    BY <1>2, <1>6, <2>3
<1>10. PICK x \in Int : x = c * share /\ x = share * c
  OBVIOUS
<1> QED
  BY <1>3, <1>7, <1>9, <1>10

\* Where a weight is unset and the explicit ones leave room, the effective
\* weights are 100 in all (calculateEffectiveWeights), for any number of
\* providers and any configured weights.
THEOREM EffectiveSumHundred == Spec => []WeightsAddUp
BY RouterTypeCorrectness, TypesAddUp, PTL

LEMMA TypesDrawFairly ==
    ASSUME TypeOK
    PROVE  DrawIsProportional
<1>1. PICK n \in Nat : n = Len(result)
  BY ResultIsSeq
<1>2. PICK e \in [1 .. n -> 0 .. 100] : e = calculateEffectiveWeights(result)
  BY <1>1, EffectiveWeights
<1> SUFFICES ASSUME NEW k \in 1 .. n
             PROVE  Cardinality({r \in Draws(e) : weightedRandomIndex(e, r) = k}) = e[k]
  BY <1>2 DEF DrawIsProportional
<1>3. DOMAIN e = 1 .. n /\ e \in [1 .. n -> Int] /\ Len(e) = n
  <2>1. 0 .. 100 \subseteq Int
    OBVIOUS
  <2>2. e \in [1 .. n -> Int]
    BY <2>1
  <2> QED
    BY <2>2
<1>4. PICK p : Running(p, e, n) /\ p[n] = Sum(e)
  BY <1>3, RunningExists
<1>5. \A m \in 1 .. n : Sum(SubSeq(e, 1, m)) = p[m]
  BY <1>3, <1>4, SumFromRunning
<1>6. /\ \A m \in 0 .. n : p[m] \in Nat /\ p[m] <= 100 * m
      /\ \A m, l \in 0 .. n : m <= l => p[m] <= p[l]
  BY <1>4, RunningGrows
<1>7. k \in 0 .. n /\ k - 1 \in 0 .. n /\ n \in 0 .. n /\ p[k] = p[k - 1] + e[k] /\ p[k - 1] \in Nat /\ p[k] \in Nat
  <2>1. k \in 0 .. n /\ k - 1 \in 0 .. n /\ n \in 0 .. n
    OBVIOUS
  <2> QED
    BY <1>4, <1>6, <2>1 DEF Running
<1>8. {r \in Draws(e) : weightedRandomIndex(e, r) = k} = p[k - 1] .. p[k] - 1
  <2> DEFINE X(r) == {m \in 1 .. n : r < p[m]}
  <2>1. \A r : weightedRandomIndex(e, r) = First(X(r))
    <3> SUFFICES ASSUME NEW r
                 PROVE  {m \in DOMAIN e : r < Sum(SubSeq(e, 1, m))} = X(r)
      BY DEF weightedRandomIndex
    <3> QED
      BY <1>3, <1>5
  <2>2. Draws(e) = {r \in 0 .. 100 * n : r < p[n]}
    BY <1>3, <1>4 DEF Draws
  <2>3. ASSUME NEW r \in Draws(e), First(X(r)) = k PROVE r \in p[k - 1] .. p[k] - 1
    <3>1. r \in Nat /\ r < p[n]
      BY <2>2
    <3>2. n # 0 /\ n \in X(r) /\ X(r) \in SUBSET (1 .. n)
      BY <3>1
    <3>3. k \in X(r) /\ \A m \in X(r) : k <= m
      <4> HIDE DEF X
      <4> QED
        BY <2>3, <3>2, LeastIndex
    <3>4. r < p[k]
      BY <3>3
    <3>5. p[k - 1] <= r
      <4>1. CASE k - 1 = 0
        <5>1. p[0] = 0
          BY <1>4 DEF Running
        <5> QED
          BY <3>1, <4>1, <5>1
      <4>2. CASE k - 1 # 0
        <5>1. k - 1 \in 1 .. n /\ ~(k <= k - 1)
          BY <4>2
        <5>2. k - 1 \notin X(r)
          BY <3>3, <5>1
        <5>3. ~(r < p[k - 1])
          BY <5>1, <5>2
        <5> QED
          BY <1>7, <3>1, <5>3
      <4> QED
        BY <4>1, <4>2
    <3> QED
      BY <1>7, <3>1, <3>4, <3>5
  <2>4. ASSUME NEW r \in p[k - 1] .. p[k] - 1
        PROVE  r \in Draws(e) /\ First(X(r)) = k
    <3>1. r \in Nat /\ r < p[k] /\ p[k - 1] <= r
      BY <1>7
    <3>2. r \in Draws(e)
      <4>1. p[k] <= p[n] /\ p[n] \in Nat /\ p[n] <= 100 * n
        BY <1>6, <1>7
      <4>2. PICK x \in Nat, y \in Nat : x = p[k] /\ y = p[n]
        BY <1>7, <4>1
      <4>3. r < y /\ y <= 100 * n
        BY <3>1, <4>1, <4>2
      <4>4. r \in 0 .. 100 * n
        BY ONLY <3>1, <4>3, y \in Nat, n \in Nat
      <4> QED
        BY <2>2, <4>2, <4>3, <4>4
    <3>3. k \in X(r)
      BY <3>1
    <3>4. ASSUME NEW m \in X(r) PROVE k <= m
      <4> SUFFICES ASSUME m < k PROVE FALSE
        OBVIOUS
      <4>1. m \in 0 .. n /\ m <= k - 1
        OBVIOUS
      <4>2. p[m] <= p[k - 1] /\ p[m] \in Nat
        BY <1>6, <1>7, <4>1
      <4>3. r < p[m]
        OBVIOUS
      <4> QED
        BY <1>7, <3>1, <4>2, <4>3
    <3>5. X(r) \in SUBSET (1 .. n)
      OBVIOUS
    <3>6. First(X(r)) \in X(r) /\ \A m \in X(r) : First(X(r)) <= m
      <4> HIDE DEF X
      <4> QED
        BY <3>3, <3>5, LeastIndex
    <3>7. First(X(r)) <= k /\ k <= First(X(r)) /\ First(X(r)) \in 1 .. n
      BY <3>3, <3>4, <3>5, <3>6
    <3> QED
      BY ONLY <3>2, <3>7, k \in 1 .. n, n \in Nat
  <2> HIDE DEF X
  <2> QED
    BY <2>1, <2>3, <2>4
<1>9. Cardinality(p[k - 1] .. p[k] - 1) = e[k]
  <2>1. PICK a \in Nat, b \in Nat, d \in 0 .. 100 :
           a = p[k - 1] /\ b = p[k] /\ d = e[k] /\ b = a + d
    BY <1>7
  <2>2. Cardinality(a .. b - 1) = IF a > b - 1 THEN 0 ELSE (b - 1) - a + 1
    BY FS_Interval
  <2>3. b = a + d
    BY <2>1
  <2>4. (IF a > b - 1 THEN 0 ELSE (b - 1) - a + 1) = d
    BY ONLY <2>3, a \in Nat, b \in Nat, d \in 0 .. 100
  <2>5. p[k - 1] .. p[k] - 1 = a .. b - 1
    BY <2>1
  <2> QED
    BY <2>1, <2>2, <2>4, <2>5
<1> QED
  BY <1>8, <1>9

\* Of the equally likely draws of weightedRandomIndex exactly as many select
\* a provider as its effective weight, for any number of providers.
THEOREM DrawsAreFair == Spec => []DrawIsProportional
BY RouterTypeCorrectness, TypesDrawFairly, PTL

=============================================================================
