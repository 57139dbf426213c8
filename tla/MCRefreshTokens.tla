--------------------------- MODULE MCRefreshTokens ---------------------------
(***************************************************************************)
(* Small instances of RefreshTokens.  The sessions are ana's; bruno has    *)
(* none and only tries to log hers out, or has his own account signed out. *)
(***************************************************************************)
EXTENDS RefreshTokens, TLC

CONSTANTS a1, a2, a3, b1,  \* tokens
          fa, fb,          \* families
          ana, bruno       \* users

\* A session that can be refreshed twice.
OneSession == {a1, a2, a3}
OneFamilyId == (a1 :> fa) @@ (a2 :> fa) @@ (a3 :> fa)
OneUserId == fa :> ana

\* That one, and another that is only opened.
TwoSessions == {a1, a2, a3, b1}
TwoFamilyId == (a1 :> fa) @@ (a2 :> fa) @@ (a3 :> fa) @@ (b1 :> fb)
TwoUserId == (fa :> ana) @@ (fb :> ana)

\* Requests are alike, and so are the tokens of one family.
TwoSymmetry == Permutations(Request) \cup Permutations({a1, a2, a3})
=============================================================================
