------------------------------ MODULE MCRouter ------------------------------
(***************************************************************************)
(* Small instances of Router for TLC.                                      *)
(***************************************************************************)
EXTENDS Router

CONSTANTS a, b, c

ThreeNames == <<a, b, c>>

=============================================================================
