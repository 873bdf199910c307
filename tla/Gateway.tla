------------------------------- MODULE Gateway -------------------------------
(***************************************************************************)
(* The API service (services/api) in front of the orchestrator: the        *)
(* handlers of POST /v1/payouts, GET /v1/payouts/{id} and                  *)
(* POST /v1/payouts/{id}/cancel, the gRPC handler GetPayout, and the       *)
(* graceful stop of the orchestrator (GracefulStop in its main).           *)
(*                                                                         *)
(* An HTTP request makes one call of the orchestrator, so the two share a  *)
(* name; a client that retries sends a further request with the same key.  *)
(* The request's context is passed on to the orchestrator: when the caller *)
(* goes away, every statement and Stripe call the handler still makes may  *)
(* fail.  A request the API refuses before it calls anybody (rate limit,   *)
(* no key, a malformed body) changes nothing and is not modelled.          *)
(***************************************************************************)
EXTENDS PayoutService

CONSTANTS
    Watched,       \* payouts that clients name in GET and cancel requests
    CalmFaults,    \* the Faults that a call meets whose caller is there
    Losable,       \* calls that may not arrive, or whose answer may be lost
    Impatient      \* calls whose caller may go away before the answer

VARIABLES
    http,          \* http[q]: what HTTP request q does next
    code,          \* code[q]: the HTTP status q was answered with
    told,          \* told[id]: what clients last learned of payout id
    gone,          \* calls whose caller is gone: their context is canceled
    phase,         \* whether the orchestrator's gRPC server takes calls
    disturbed      \* requests a fault or a rival on their key met (history)

gateVars == <<http, code, told, gone, phase, disturbed>>

clientVars == <<http, code, told, gone, disturbed>>

allVars == <<vars, gateVars>>

Calls == Creates \cup Cancels

HttpLabel == {"idle", "await", "answered", "gone"}

Status == {200, 202, 404, 409, 502}

(***************************************************************************)
(* What an answer tells of a payout: a 202 that it exists, a GET its row,  *)
(* or that there is none (404).  Clients know an id from a 202; a request  *)
(* for an id they made up finds no row and changes nothing: not modelled.  *)
(***************************************************************************)
Named == [NoRow EXCEPT !.state = "named"]

ASSUME GateAssumption ==
    /\ Watched \subseteq PayoutIDs
    /\ CalmFaults \subseteq Faults
    /\ Losable \subseteq Calls /\ Impatient \subseteq Calls
    /\ Null \notin Row \cup {Named} \cup Status

(***************************************************************************)
(* The handlers as they run while the caller waits for the answer.         *)
(***************************************************************************)
Calm == INSTANCE PayoutService WITH Faults <- CalmFaults

GateTypeOK ==
    /\ http \in [Calls -> HttpLabel]
    /\ code \in [Calls -> Status \cup {Null}]
    /\ told \in [PayoutIDs -> Row \cup {Named, Null}]
    /\ gone \subseteq Calls
    /\ phase \in {"serving", "draining", "stopped"}
    /\ disturbed \subseteq Creates

GateInit ==
    /\ Init
    /\ http = [q \in Calls |-> "idle"]
    /\ code = [q \in Calls |-> Null]
    /\ told = [id \in PayoutIDs |-> Null]
    /\ gone = {}
    /\ phase = "serving"
    /\ disturbed = {}

Serving == phase = "serving"

Wait(q) ==
    /\ http' = [http EXCEPT ![q] = "await"]
    /\ UNCHANGED code

Write(q, status) ==
    /\ http' = [http EXCEPT ![q] = "answered"]
    /\ code' = [code EXCEPT ![q] = status]

-----------------------------------------------------------------------------
(***************************************************************************)
(* createPayoutHandlerWithClient: the call reaches the orchestrator, which *)
(* starts on it.                                                           *)
(***************************************************************************)
Rivals(k) == {s \in Creates : InProgress(s) /\ key(s) = k}

PostPayout(r, k, b) ==
    /\ http[r] = "idle"
    /\ Serving
    /\ Calm!BeginCreate(r, k, b)
    /\ Wait(r)
    /\ disturbed' = IF Rivals(k) = {} THEN disturbed
                    ELSE disturbed \cup Rivals(k) \cup {r}
    /\ UNCHANGED <<told, gone, phase>>

(***************************************************************************)
(* cancelPayoutHandler.                                                    *)
(***************************************************************************)
PostCancel(c, id) ==
    /\ http[c] = "idle"
    /\ told[id] # Null
    /\ Serving
    /\ Calm!BeginCancel(c, id)
    /\ Wait(c)
    /\ UNCHANGED <<told, gone, phase, disturbed>>

(***************************************************************************)
(* The call does not reach an orchestrator that takes it: Unavailable.     *)
(***************************************************************************)
NotReached(q) ==
    /\ http[q] = "idle"
    /\ ~Serving \/ q \in Losable
    /\ Write(q, 502)
    /\ disturbed' = disturbed \cup ({q} \cap Creates)
    /\ UNCHANGED <<vars, told, gone, phase>>

(***************************************************************************)
(* The HTTP status for what the orchestrator answered.                     *)
(***************************************************************************)
CreateStatus_ErrorsConflict(c) == IF c = "OK" THEN 202 ELSE 409

CreateStatus_201(c) ==
    CASE c = "OK"            -> 201
      [] c = "AlreadyExists" -> 409
      [] OTHER               -> 502

CreateStatus(c) ==
    CASE c = "OK"            -> 202
      [] c = "AlreadyExists" -> 409
      [] OTHER               -> 502

CancelStatus(c) ==
    CASE c = "OK"                 -> 200
      [] c = "NotFound"           -> 404
      [] c = "FailedPrecondition" -> 409
      [] OTHER                    -> 502

Respond(q) ==
    /\ http[q] = "await"
    /\ \/ /\ reply[q] # Null
          /\ Write(q, IF q \in Creates THEN CreateStatus(reply[q].code)
                                       ELSE CancelStatus(reply[q].code))
          /\ told' = [id \in PayoutIDs |->
                IF code'[q] = 202 /\ reply[q].payout = id /\ told[id] = Null
                THEN Named ELSE told[id]]
          /\ UNCHANGED disturbed
       \/ /\ q \in Losable
          /\ Write(q, 502)
          /\ disturbed' = disturbed \cup ({q} \cap Creates)
          /\ UNCHANGED told
    /\ UNCHANGED <<vars, gone, phase>>

(***************************************************************************)
(* The client goes away or the API stops while the orchestrator works, or  *)
(* the connection between the two breaks and the client is answered 502.   *)
(***************************************************************************)
HangUp(q) ==
    /\ q \in Impatient
    /\ http[q] = "await" /\ InProgress(q)
    /\ http' = [http EXCEPT ![q] = "gone"]
    /\ code' \in {code, [code EXCEPT ![q] = 502]}
    /\ gone' = gone \cup {q}
    /\ disturbed' = disturbed \cup ({q} \cap Creates)
    /\ UNCHANGED <<vars, told, phase>>

-----------------------------------------------------------------------------
(***************************************************************************)
(* GetPayout is one SELECT; getPayoutHandler shows its row, or 404 for     *)
(* none.  A 502 tells nothing and changes nothing: not modelled.           *)
(***************************************************************************)
GetPayout(id) == payouts[id]

ShowPayout(id) ==
    /\ Serving
    /\ told[id] # Null
    /\ told' = [told EXCEPT ![id] = GetPayout(id)]
    /\ UNCHANGED <<vars, http, code, gone, phase, disturbed>>

-----------------------------------------------------------------------------
(***************************************************************************)
(* The orchestrator goes on with the calls it has taken.                   *)
(***************************************************************************)
Handle(q) ==
    /\ \/ q \in Creates /\ IF q \in gone THEN CreateStep(q) ELSE Calm!CreateStep(q)
       \/ q \in Cancels /\ IF q \in gone THEN CancelStep(q) ELSE Calm!CancelStep(q)
    /\ UNCHANGED gateVars

(***************************************************************************)
(* ApplyProviderUpdate, whose caller (the webhook service) stays.          *)
(***************************************************************************)
Notify(u) ==
    /\ Serving
    /\ \E e \in Notifications : Calm!BeginApply(u, e)
    /\ UNCHANGED gateVars

Apply(u) == Calm!ApplyUpdate(u) /\ UNCHANGED gateVars

(***************************************************************************)
(* SIGTERM: GracefulStop takes no more calls and waits, without a timeout, *)
(* for those it has taken.  Then the process ends, and may be started      *)
(* again.                                                                  *)
(***************************************************************************)
Terminate ==
    /\ Serving
    /\ phase' = "draining"
    /\ UNCHANGED <<vars, clientVars>>

GracefulStop_Abrupt ==
    /\ phase = "draining"
    /\ phase' = "stopped"
    /\ UNCHANGED <<vars, clientVars>>

GracefulStop ==
    /\ phase = "draining"
    /\ \A r \in Requests : ~InProgress(r)
    /\ phase' = "stopped"
    /\ UNCHANGED <<vars, clientVars>>

Restart ==
    /\ phase = "stopped"
    /\ phase' = "serving"
    /\ ForgetStats
    /\ UNCHANGED <<storeVars, pc, localVars, reply, clientVars>>

GateNext ==
    \/ \E r \in Creates, k \in Keys, b \in Bodies : PostPayout(r, k, b)
    \/ \E c \in Cancels, id \in Watched : PostCancel(c, id)
    \/ \E q \in Calls : NotReached(q) \/ Respond(q) \/ HangUp(q) \/ Handle(q)
    \/ \E id \in Watched : ShowPayout(id)
    \/ \E u \in Updates : Notify(u) \/ Apply(u)
    \/ ProviderSettles /\ UNCHANGED gateVars
    \/ Terminate
    \/ GracefulStop
    \/ Restart

(***************************************************************************)
(* A goroutine that can run does run.  Nobody has to call, to go away or   *)
(* to stop or start the orchestrator.                                      *)
(***************************************************************************)
GateFairness ==
    /\ \A q \in Calls : WF_allVars(Handle(q)) /\ WF_allVars(Respond(q))
    /\ \A u \in Updates : WF_allVars(Apply(u))
    /\ WF_allVars(GracefulStop)

GateSpec == GateInit /\ [][GateNext]_allVars /\ GateFairness

=============================================================================
