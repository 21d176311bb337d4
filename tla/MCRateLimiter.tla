---------------------------- MODULE MCRateLimiter ----------------------------
(***************************************************************************)
(* RateLimiter with two connections and shorter times: two messages in a   *)
(* burst, then one in two seconds.  No symmetry, as liveness is checked.   *)
(***************************************************************************)
EXTENDS RateLimiter
=============================================================================
