----------------------------- MODULE MCAccountRow -----------------------------
(***************************************************************************)
(* One account and up to two requests about it at a time.  The requests    *)
(* are alike, and so are the reasons.                                      *)
(***************************************************************************)
EXTENDS AccountRow, TLC

Symmetry == Permutations(Request) \cup Permutations(Reason)
===============================================================================
