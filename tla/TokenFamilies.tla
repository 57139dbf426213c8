---------------------------- MODULE TokenFamilies ----------------------------
(***************************************************************************)
(* What the refresh tokens of users-api promise, without transactions,     *)
(* locks or requests.  A login starts a family; a refresh replaces the     *)
(* open token of a family by the next one; a logout or a sign-out ends the *)
(* open tokens it takes.  A token that was spent or ended is never open    *)
(* again.  RefreshTokens is shown to implement this specification.         *)
(***************************************************************************)
CONSTANTS Token,      \* every refresh token that can be generated
          Family,     \* the chains: one per login
          family_id   \* the chain each token belongs to

VARIABLES open,       \* tokens that still buy a session
          dead        \* tokens that were spent or revoked

vars == <<open, dead>>

InFamily(f) == {t \in Token : family_id[t] = f}

Init == open = {} /\ dead = {}

\* A login: the first token of a family nobody has used.
Start(t) ==
  /\ InFamily(family_id[t]) \cap (open \cup dead) = {}
  /\ open' = open \cup {t}
  /\ UNCHANGED dead

\* A refresh: the open token is spent on the next one of the same family.
Rotate(t, n) ==
  /\ t \in open
  /\ n \notin open \cup dead
  /\ family_id[n] = family_id[t]
  /\ open' = (open \ {t}) \cup {n}
  /\ dead' = dead \cup {t}

\* A logout, or a sign-out of the account: the tokens it takes are over.
Close(S) ==
  /\ S # {}
  /\ open' = open \ S
  /\ dead' = dead \cup S

Next ==
  \/ \E t \in Token : Start(t)
  \/ \E t \in open, n \in Token : Rotate(t, n)
  \/ \E S \in SUBSET open : Close(S)

Spec == Init /\ [][Next]_vars

Over(f) == InFamily(f) \cap dead # {} /\ InFamily(f) \cap open = {}

(***************************************************************************)
(* A family that was logged out, signed out or caught in a reuse stays     *)
(* closed: no later refresh opens it again.                                *)
(***************************************************************************)
OverForGood ==
  [][\A f \in Family : Over(f) => Over(f)']_vars
=============================================================================
