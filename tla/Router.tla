------------------------------- MODULE Router -------------------------------
(***************************************************************************)
(* Router of internal/provider: one call of SelectProviders for a rail,    *)
(* while other sends update the tracker and providers are switched on and  *)
(* off with Registry.SetActive.                                            *)
(*                                                                         *)
(* The registry has no lock: GetProviders reads one entry after the other, *)
(* and an entry is switched before or after it is read.  The list it       *)
(* returns is a copy.                                                      *)
(*                                                                         *)
(* The server is built with RoutingPriority; the two other algorithms are  *)
(* what the package offers.  "weighted" is one step (it reads only its own *)
(* copy of the registry); "success_based" reads the tracker under a lock   *)
(* taken anew in each iteration of its inner loop, so one iteration is one *)
(* step.  (A send recorded within an iteration could only change whether   *)
(* that iteration swaps; properties of the order assume that none is.)     *)
(***************************************************************************)
EXTENDS Integers, Sequences, SequencesExt, FiniteSets

CONSTANTS
    Order,        \* the names registered for the rail, in order
    Weights,      \* values of weight in the configuration, 0 when unset
    MinSamples,   \* routing.min_samples
    MaxCount      \* bound on the tracker's counters

VARIABLES
    registry,     \* registry[i]: the entry registered i-th
    tracker,      \* tracker[name]: success and failure counts, 0 when absent
    pc,           \* "scan", "select", "sort" or "done"
    algo,         \* the algorithm asked for
    result,       \* the providers, best first; <<>> for ErrNoProviders
    next,         \* the loop variable of GetProviders
    i, j,         \* the loop variables of selectBySuccessRate
    quiet,        \* no send was recorded since the sort began (history)
    switched      \* names that SetActive was called for (history)

vars == <<registry, tracker, pc, algo, result, next, i, j, quiet, switched>>

sortVars == <<i, j, quiet>>

Names == Range(Order)

Entry == [provider : Names, weight : Weights, active : BOOLEAN]

Stats == [success : 0 .. MaxCount, fail : 0 .. MaxCount]

Algorithms == {"priority", "weighted", "success_based"}

(***************************************************************************)
(* main.go: a missing min_samples is replaced by 10, a missing weight is 0.*)
(* The configuration lists a name once per rail.                           *)
(***************************************************************************)
ASSUME RouterAssumption ==
    /\ Order \in Seq(Names) /\ Order # <<>>
    /\ \A m, n \in DOMAIN Order : Order[m] = Order[n] => m = n
    /\ Weights \subseteq 0 .. 100
    /\ MinSamples \in Nat \ {0}
    /\ MaxCount \in Nat

(***************************************************************************)
(* An algorithm starts from any value of what it reads: "weighted" from    *)
(* all weights, "success_based" from all counters.                         *)
(***************************************************************************)
Init ==
    /\ algo \in Algorithms
    /\ registry \in {r \in [DOMAIN Order -> Entry] :
                        \A n \in DOMAIN Order :
                           /\ r[n].provider = Order[n]
                           /\ algo # "weighted" => r[n].weight = 0}
    /\ tracker \in [Names -> IF algo = "success_based" THEN Stats
                              ELSE {[success |-> 0, fail |-> 0]}]
    /\ pc = "scan"
    /\ result = <<>>
    /\ next = 1
    /\ i = 1 /\ j = 2
    /\ quiet = TRUE
    /\ switched = {}

(***************************************************************************)
(* The loop of GetProviders: one entry is read, and kept if it is active.  *)
(***************************************************************************)
GetProviders ==
    /\ pc = "scan"
    /\ next <= Len(registry)
    /\ result' = IF registry[next].active THEN Append(result, registry[next]) ELSE result
    /\ next' = next + 1
    /\ pc' = IF next = Len(registry) THEN "select" ELSE "scan"
    /\ UNCHANGED <<registry, tracker, algo, sortVars, switched>>

(***************************************************************************)
(* SetActive: the first entry of that name, in place.  Once the entries    *)
(* are read a switch makes no difference to this call.                     *)
(***************************************************************************)
SetActive(name, active) ==
    /\ pc = "scan"
    /\ registry' = [registry EXCEPT ![SelectInSeq(registry, LAMBDA e : e.provider = name)].active = active]
    /\ switched' = switched \cup {name}
    /\ UNCHANGED <<tracker, pc, algo, result, next, sortVars>>

-----------------------------------------------------------------------------
(***************************************************************************)
(* calculateEffectiveWeights: explicit weights stand; the unset ones share *)
(* what is left of 100, the first of them taking the rest of the division. *)
(***************************************************************************)
Sum(s) == FoldLeft(LAMBDA x, y : x + y, 0, s)

Unset(s) == {n \in DOMAIN s : s[n].weight = 0}

First(S) == CHOOSE n \in S : \A m \in S : n <= m

UnsetWeight_NoRest(s, n) ==
    LET left == 100 - Sum([m \in DOMAIN s |-> s[m].weight])
    IN IF left <= 0 THEN 1 ELSE left \div Cardinality(Unset(s))

UnsetWeight(s, n) ==
    LET left  == 100 - Sum([m \in DOMAIN s |-> s[m].weight])
        count == Cardinality(Unset(s))
        rest  == IF n = First(Unset(s)) THEN left % count ELSE 0
    IN IF left <= 0 THEN 1 ELSE (left \div count) + rest

calculateEffectiveWeights(s) ==
    [n \in DOMAIN s |-> IF s[n].weight > 0 THEN s[n].weight ELSE UnsetWeight(s, n)]

(***************************************************************************)
(* weightedRandomIndex: r is drawn below the total, which no weight makes  *)
(* more than 100 each; the first index whose running sum exceeds r is      *)
(* taken.                                                                  *)
(***************************************************************************)
Draws(weights) == {r \in 0 .. 100 * Len(weights) : r < Sum(weights)}

weightedRandomIndex_AtMost(weights, r) ==
    First({n \in DOMAIN weights : r <= Sum(SubSeq(weights, 1, n))})

weightedRandomIndex(weights, r) ==
    First({n \in DOMAIN weights : r < Sum(SubSeq(weights, 1, n))})

(***************************************************************************)
(* selectByWeight: the selected provider moves to the front.               *)
(***************************************************************************)
MoveToFront_Kept(s, idx) == <<s[idx]>> \o s

MoveToFront_Swap(s, idx) == [s EXCEPT ![1] = s[idx], ![idx] = s[1]]

MoveToFront(s, idx) == <<s[idx]>> \o RemoveAt(s, idx)

SelectByWeight ==
    LET weights == calculateEffectiveWeights(result)
    IN \E r \in Draws(weights) :
          result' = MoveToFront(result, weightedRandomIndex(weights, r))

SelectProviders ==
    /\ pc = "select"
    /\ \/ /\ result = <<>> \/ algo = "priority"
          /\ UNCHANGED result
          /\ pc' = "done"
       \/ /\ result # <<>>
          /\ algo = "weighted"
          /\ SelectByWeight
          /\ pc' = "done"
       \/ /\ result # <<>>
          /\ algo = "success_based"
          /\ UNCHANGED result
          /\ pc' = "sort"
    /\ UNCHANGED <<registry, tracker, algo, next, sortVars, switched>>

-----------------------------------------------------------------------------
(***************************************************************************)
(* selectBySuccessRate.  Rates are compared as fractions.                  *)
(***************************************************************************)
HasEnough(name) == tracker[name].success + tracker[name].fail >= MinSamples

HigherRate(a, b) ==
    tracker[a].success * (tracker[b].success + tracker[b].fail)
        > tracker[b].success * (tracker[a].success + tracker[a].fail)

GoesBefore_RateOnly(a, b) == HasEnough(a) /\ HasEnough(b) /\ HigherRate(a, b)

GoesBefore(a, b) ==
    /\ HasEnough(a)
    /\ HasEnough(b) => HigherRate(a, b)

Swapped_Overwritten(s, m, n) == [s EXCEPT ![m] = s[n]]

Swapped(s, m, n) == [s EXCEPT ![m] = s[n], ![n] = s[m]]

Compare ==
    /\ pc = "sort"
    /\ i < Len(result) /\ j <= Len(result)
    /\ result' = IF GoesBefore(result[j].provider, result[i].provider)
                 THEN Swapped(result, i, j)
                 ELSE result
    /\ j' = j + 1
    /\ UNCHANGED <<registry, tracker, pc, algo, next, i, quiet, switched>>

NextRow ==
    /\ pc = "sort"
    /\ i < Len(result) /\ j > Len(result)
    /\ i' = i + 1
    /\ j' = i + 2
    /\ UNCHANGED <<registry, tracker, pc, algo, result, next, quiet, switched>>

SortDone ==
    /\ pc = "sort"
    /\ i >= Len(result)
    /\ pc' = "done"
    /\ UNCHANGED <<registry, tracker, algo, result, next, sortVars, switched>>

(***************************************************************************)
(* RecordSuccess or RecordFailure of another send.                         *)
(***************************************************************************)
RecordSend ==
    /\ \E name \in Names :
          \/ /\ tracker[name].success < MaxCount
             /\ tracker' = [tracker EXCEPT ![name].success = @ + 1]
          \/ /\ tracker[name].fail < MaxCount
             /\ tracker' = [tracker EXCEPT ![name].fail = @ + 1]
    /\ pc = "sort"
    /\ quiet' = FALSE
    /\ UNCHANGED <<registry, pc, algo, result, next, i, j, switched>>

SortStep == Compare \/ NextRow \/ SortDone

RouterStep == GetProviders \/ SelectProviders \/ SortStep

Next ==
    \/ RouterStep
    \/ \E name \in Names, active \in BOOLEAN : SetActive(name, active)
    \/ RecordSend

Spec == Init /\ [][Next]_vars

-----------------------------------------------------------------------------
TypeOK ==
    /\ registry \in [DOMAIN Order -> Entry]
    /\ tracker \in [Names -> Stats]
    /\ pc \in {"scan", "select", "sort", "done"}
    /\ algo \in Algorithms
    /\ result \in Seq(Entry) /\ Len(result) <= Len(Order)
    /\ next \in 1 .. Len(Order) + 1
    /\ i \in 1 .. Len(Order) + 1 /\ j \in 2 .. Len(Order) + 2
    /\ switched \subseteq Names

Returned(name) == Cardinality({n \in DOMAIN result : result[n].provider = name})

\* Whatever the algorithm and whatever is recorded or switched meanwhile, no
\* provider is returned twice (it would be charged twice), and one that is
\* active all the time is returned, one that is inactive all the time is not
\* (the unlocked loop of GetProviders, the swaps of selectBySuccessRate).
EveryProviderOnce ==
    pc = "done" =>
        \A e \in Range(registry) :
            /\ Returned(e.provider) <= 1
            /\ e.provider \notin switched =>
                  Returned(e.provider) = IF e.active THEN 1 ELSE 0

\* Weighted selection only moves the selected provider: the fallback order of
\* the others stays the configured one.
Place(e) == SelectInSeq(Order, LAMBDA name : name = e.provider)

OnlyTheSelectedMoves ==
    pc = "done" /\ algo # "success_based" =>
        \A m, n \in 2 .. Len(result) : m < n => Place(result[m]) < Place(result[n])

\* If no send is recorded during the sort, providers with enough samples come
\* first and their rates do not increase (selectBySuccessRate).
BestFirst ==
    pc = "done" /\ algo = "success_based" /\ quiet =>
        \A m, n \in DOMAIN result : m < n =>
            /\ HasEnough(result[n].provider) => HasEnough(result[m].provider)
            /\ HasEnough(result[n].provider) =>
                  ~HigherRate(result[n].provider, result[m].provider)

\* Whichever weights are set, the effective weights add up to 100 whenever the
\* explicit ones leave room: the integer division loses nothing, and providers
\* without a weight get what is left (calculateEffectiveWeights).
WeightsAddUp ==
    LET weights == calculateEffectiveWeights(result)
    IN pc = "select" /\ Unset(result) # {}
          /\ Sum([n \in DOMAIN result |-> result[n].weight]) < 100
             => Sum(weights) = 100

\* Of the equally likely draws exactly weights[n] select provider n.
DrawIsProportional ==
    LET weights == calculateEffectiveWeights(result)
    IN pc = "select" /\ algo = "weighted" =>
        \A n \in DOMAIN weights :
            Cardinality({r \in Draws(weights) : weightedRandomIndex(weights, r) = n})
                = weights[n]

=============================================================================
