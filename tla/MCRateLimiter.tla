--------------------------- MODULE MCRateLimiter ---------------------------
(***************************************************************************)
(* One client with an API key, one without, two requests in two seconds,   *)
(* and a clock of half seconds.                                            *)
(***************************************************************************)
EXTENDS RateLimiter

CONSTANTS key1, host1
=============================================================================
