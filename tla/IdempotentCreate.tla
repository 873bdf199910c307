-------------------------- MODULE IdempotentCreate --------------------------
(***************************************************************************)
(* What an idempotency key promises to the clients of POST /v1/payouts,    *)
(* whatever happens behind it: the first request that gets through decides *)
(* what the key means, every later answer agrees with that decision, and   *)
(* money is only ever sent for a payout some key means.                    *)
(*                                                                         *)
(* A request that fails (Internal, or no answer at all) is not a promise   *)
(* and is a stuttering step here.                                          *)
(***************************************************************************)
CONSTANTS
    Key, Hash, Payout,
    None

VARIABLES
    meaning,   \* meaning[k]: the request hash and the payout of key k
    sent,      \* payouts a provider was asked to pay
    accepted,  \* key, hash and payout of every 202 given
    refused    \* key and hash of every 409 given

vars == <<meaning, sent, accepted, refused>>

Init ==
    /\ meaning = [k \in Key |-> None]
    /\ sent = {}
    /\ accepted = {}
    /\ refused = {}

Decide(k, h, p) ==
    /\ meaning[k] = None
    /\ \A other \in Key : meaning[other] # None => meaning[other].payout_id # p
    /\ meaning' = [meaning EXCEPT ![k] = [request_hash |-> h, payout_id |-> p]]
    /\ UNCHANGED <<sent, accepted, refused>>

Send(k) ==
    /\ meaning[k] # None
    /\ sent' = sent \cup {meaning[k].payout_id}
    /\ UNCHANGED <<meaning, accepted, refused>>

Accept(k) ==
    /\ meaning[k] # None
    /\ accepted' = accepted \cup {<<k, meaning[k].request_hash, meaning[k].payout_id>>}
    /\ UNCHANGED <<meaning, sent, refused>>

Refuse(k, h) ==
    /\ meaning[k] # None
    /\ meaning[k].request_hash # h
    /\ refused' = refused \cup {<<k, h>>}
    /\ UNCHANGED <<meaning, sent, accepted>>

Next ==
    \E k \in Key :
        \/ \E h \in Hash, p \in Payout : Decide(k, h, p)
        \/ Send(k)
        \/ Accept(k)
        \/ \E h \in Hash : Refuse(k, h)

Spec == Init /\ [][Next]_vars

=============================================================================
