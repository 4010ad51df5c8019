--------------------------- MODULE MCRateLimiter ----------------------------
(* RateLimiter with windows of two ticks that let two requests through.     *)
EXTENDS RateLimiter, TLC

CONSTANTS r1, r2, r3, r4, r5, host

MCRequests == {r1, r2, r3, r4, r5}
MCIps == {host}
MCTwoPorts == {40000, 40001}
\* Requests are only compared.
MCSymmetry == Permutations(MCRequests)
=============================================================================
