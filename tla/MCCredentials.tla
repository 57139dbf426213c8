---------------------------- MODULE MCCredentials ----------------------------
(***************************************************************************)
(* A few passwords, up to two links and two requests.  Links, requests and  *)
(* the passwords the owner may choose are interchangeable: the module only *)
(* compares them.                                                          *)
(***************************************************************************)
EXTENDS Credentials, TLC

Symmetry == Permutations(Request) \cup Permutations(Link) \cup Permutations(Chosen)
=============================================================================
