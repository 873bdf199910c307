------------------------------ MODULE MCGateway ------------------------------
(***************************************************************************)
(* Small instances of the API service with the orchestrator for TLC.       *)
(***************************************************************************)
EXTENDS GatewayProperties, MCPayoutService

CallerGone == {"db", "unknown"}

=============================================================================
