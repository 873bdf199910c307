----------------------------- MODULE MCWebhook -----------------------------
(***************************************************************************)
(* Small instances of the webhook service with the orchestrator for TLC.   *)
(***************************************************************************)
EXTENDS WebhookProperties, MCPayoutService

OneBody == {cardBody}
RailOfOneBody == RailsOf(OneBody)
HashOfOneBody == HashesOf(OneBody)

NoHookFaults == {}
AllHookFaults == HookFault
RpcFault == {"rpc"}
CrashOnly == {"crash"}

DeliverySymmetry == Permutations(Updates)

=============================================================================
