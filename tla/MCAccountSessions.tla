--------------------------- MODULE MCAccountSessions ---------------------------
(***************************************************************************)
(* One account, two grants and two requests at a time.                   *)
(***************************************************************************)
EXTENDS AccountSessions, TLC

Symmetry == Permutations(Grant) \cup Permutations(Request) \cup Permutations(Password)
===============================================================================
