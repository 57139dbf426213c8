---------------------------- MODULE MCAccessTokens ----------------------------
(***************************************************************************)
(* Two ticks a second and tokens of two seconds: a token is born, revoked  *)
(* and expires within the second or across it.                             *)
(***************************************************************************)
EXTENDS AccessTokens, TLC

Symmetry == Permutations(Token) \cup Permutations(Revoker)
===============================================================================
