---------------------------- MODULE MCRateLimiter ----------------------------
(***************************************************************************)
(* A limit of two and three requests at once.                              *)
(***************************************************************************)
EXTENDS RateLimiter, TLC

RequestSymmetry == Permutations(Request)
=============================================================================
