---------------------------- MODULE MCRateLimiter -----------------------------
(* A small instance of RateLimiter: principals are interchangeable.         *)
EXTENDS RateLimiter, TLC

Symmetry == Permutations(Principals)
=============================================================================
