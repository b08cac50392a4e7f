----------------------------- MODULE MCRateLimiter -----------------------------
(***************************************************************************)
(* RateLimiter for TLC.  The worker threads are interchangeable.           *)
(***************************************************************************)
EXTENDS RateLimiter, TLC

ThreadSymmetry == Permutations(Threads)
==============================================================================
