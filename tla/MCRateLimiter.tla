--------------------------- MODULE MCRateLimiter ---------------------------
(* TLC instances of RateLimiter, and the limiter as an IdealLimiter: an      *)
(* address without a bucket counts as one with a full bucket.               *)
EXTENDS RateLimiter, TLC

Ideal == INSTANCE IdealLimiter WITH level <- [ip \in IP |-> Level(ip)]

\* The limiter, sweeps included, lets through exactly what a limiter without
\* sweeps would: a refused attempt and a sweep are stutters of the ideal
\* buckets, so neither another address's traffic nor the size of the map
\* changes anybody's budget (allow, sweepLocked).
ImplementsIdeal == Ideal!Spec
=============================================================================
