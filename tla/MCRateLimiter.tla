--------------------------- MODULE MCRateLimiter ---------------------------
(***************************************************************************)
(* Small instances of RateLimiter for TLC.  A step of 169 ms at 3 tokens   *)
(* per second refills 0.507 tokens, which "%.2f" rounds.                   *)
(***************************************************************************)
EXTENDS RateLimiter

CONSTANTS h1, h2

=============================================================================
