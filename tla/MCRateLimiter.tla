----------------------------- MODULE MCRateLimiter -----------------------------
(* A second is 2 ticks; Sweep's ttl is the shortest in which a bucket fills.*)
EXTENDS RateLimiter
================================================================================
