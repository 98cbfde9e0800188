--------------------------- MODULE MCRateLimiters ---------------------------
(***************************************************************************)
(* RateLimiters on small instances.  Keys are independent of each other    *)
(* but for the clock and the sweep.                                        *)
(***************************************************************************)
EXTENDS RateLimiters

CONSTANT client

OneKey == {client}
=============================================================================
