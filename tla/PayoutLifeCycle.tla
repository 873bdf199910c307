--------------------------- MODULE PayoutLifeCycle ---------------------------
(***************************************************************************)
(* The life of a payout as its row tells it: which states follow which,    *)
(* and what must be true of the charge for a row to say so.                *)
(*                                                                         *)
(* A payout is created, and then sent or given up; it may be canceled      *)
(* before or after that, and the request that is still sending it may      *)
(* overtake the cancel.  Once it is sent, only what became of its charge   *)
(* changes it, with one exception: a cancel of a payout not yet settled.   *)
(***************************************************************************)
CONSTANTS
    Payout, Provider,
    None

VARIABLES
    state,    \* state[p]: what the row of p says
    ref,      \* ref[p]: the provider that accepted p, by the row
    charge    \* charge[p]: what that provider's charge has become

vars == <<state, ref, charge>>

Settled == {"succeeded", "failed", "canceled"}

Init ==
    /\ state = [p \in Payout |-> "absent"]
    /\ ref = [p \in Payout |-> None]
    /\ charge = [p \in Payout |-> "none"]

Create(p) ==
    /\ state[p] = "absent"
    /\ state' = [state EXCEPT ![p] = "created"]
    /\ UNCHANGED <<ref, charge>>

(***************************************************************************)
(* The charge may have settled by the time the row says "sent".            *)
(***************************************************************************)
Send(p) ==
    /\ state[p] \in {"created", "canceled"}
    /\ ref[p] = None
    /\ state' = [state EXCEPT ![p] = "sent"]
    /\ \E v \in Provider : ref' = [ref EXCEPT ![p] = v]
    /\ \E c \in {"accepted"} \cup Settled : charge' = [charge EXCEPT ![p] = c]

GiveUp(p) ==
    /\ state[p] \in {"created", "canceled"}
    /\ ref[p] = None
    /\ state' = [state EXCEPT ![p] = "failed"]
    /\ UNCHANGED <<ref, charge>>

Cancel(p) ==
    /\ state[p] \in {"created", "sent"}
    /\ state' = [state EXCEPT ![p] = "canceled"]
    /\ UNCHANGED <<ref, charge>>

Settle(p) ==
    /\ charge[p] = "accepted"
    /\ \E c \in Settled : charge' = [charge EXCEPT ![p] = c]
    /\ UNCHANGED <<state, ref>>

(***************************************************************************)
(* The row learns what became of the charge.                               *)
(***************************************************************************)
Learn(p) ==
    /\ charge[p] \in Settled
    /\ state' = [state EXCEPT ![p] =
          IF charge[p] = "succeeded" THEN "completed" ELSE charge[p]]
    /\ UNCHANGED <<ref, charge>>

Next ==
    \E p \in Payout :
        Create(p) \/ Send(p) \/ GiveUp(p) \/ Cancel(p) \/ Settle(p) \/ Learn(p)

Spec == Init /\ [][Next]_vars

=============================================================================
