---------------------------- MODULE MCRateLimiter ----------------------------
(* RateLimiter for TLC: the .cfg files give every constant its value.       *)
EXTENDS RateLimiter
=============================================================================
