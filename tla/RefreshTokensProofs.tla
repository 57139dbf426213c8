------------------------- MODULE RefreshTokensProofs -------------------------
(***************************************************************************)
(* Proofs about RefreshTokens, for any number of tokens, families, users   *)
(* and concurrent requests.                                                *)
(*                                                                         *)
(* OneTip is not inductive: that a rotation keeps it depends on the row    *)
(* being held by nobody else since it was found usable.  LockDiscipline    *)
(* says that, and Inv is the inductive invariant.                          *)
(***************************************************************************)
EXTENDS RefreshTokens, TLAPS

LockDiscipline ==
  /\ \A r \in Request : pc[r] \notin {"consumed", "locking"} => locked[r] = {}
  /\ \A r, s \in Request : r # s => locked[r] \cap locked[s] = {}
  /\ \A r \in Request : pc[r] = "consumed" => locked[r] = tok[r] /\ tok[r] \subseteq Usable
  /\ \A r \in Request :
       pc[r] \in {"consume", "consumed", "refuse", "logout"} => \E t \in Token : tok[r] = {t}
  /\ \A r \in Request : pc[r] = "locking" => scope[r] \subseteq issued

Inv == TypeOK /\ LockDiscipline /\ OneTip

-----------------------------------------------------------------------------
(* Type correctness.                                                       *)

\* The type invariant is preserved by every step, requests' and clients'.
LEMMA TypeStep == TypeOK /\ LockDiscipline /\ [Next]_vars => TypeOK'
<1> SUFFICES ASSUME TypeOK, LockDiscipline, [Next]_vars PROVE TypeOK'
  OBVIOUS
<1> USE ColumnsAssumption DEF TypeOK, PC, table, request
<1>1. ASSUME NEW t \in Token, Login(t) PROVE TypeOK'
  BY <1>1 DEF Login
<1>2. ASSUME NEW t \in Token, Expire(t) PROVE TypeOK'
  BY <1>2 DEF Expire, Usable
<1>3. ASSUME NEW r \in Request, NEW t \in Token, Refresh(r, t) PROVE TypeOK'
  BY <1>3 DEF Refresh, Begin
<1>4. ASSUME NEW r \in Request, NEW t \in Token, Logout(r, t) PROVE TypeOK'
  BY <1>4 DEF Logout, Begin
<1>5. ASSUME NEW r \in Request, NEW u \in User, SignOut(r, u) PROVE TypeOK'
  BY <1>5 DEF SignOut, Begin, OfUser
<1>6. ASSUME NEW r \in Request, ConsumeHit(r) PROVE TypeOK'
  BY <1>6 DEF ConsumeHit, Goto, Usable
<1>7. ASSUME NEW r \in Request, ConsumeMiss(r) PROVE TypeOK'
  BY <1>7 DEF ConsumeMiss, Goto
<1>8. ASSUME NEW r \in Request, NEW n \in Token, Rotate(r, n) PROVE TypeOK'
  BY <1>8 DEF Rotate, End
<1>9. ASSUME NEW r \in Request, Deny(r) \/ RefuseInvalid(r) \/ Rollback(r) \/ AbortDeadlock(r)
      PROVE  TypeOK'
  BY <1>9 DEF Deny, RefuseInvalid, Rollback, AbortDeadlock, End
<1>10. ASSUME NEW r \in Request, DetectReuse(r) PROVE TypeOK'
  BY <1>10 DEF DetectReuse, Goto, OfUser
<1>11. ASSUME NEW r \in Request, NEW c \in User \cup {Nobody}, FindFamily(r, c) PROVE TypeOK'
  BY <1>11 DEF FindFamily, OfFamily
<1>12. ASSUME NEW r \in Request, NEW c \in User \cup {Nobody}, IgnoreLogout(r, c) PROVE TypeOK'
  BY <1>12 DEF IgnoreLogout, End
<1>13. ASSUME NEW r \in Request, Scan(r) PROVE TypeOK'
  BY <1>13 DEF Scan, Goto
<1>14. ASSUME NEW r \in Request, NEW t \in Token, LockRow(r, t) PROVE TypeOK'
  BY <1>14 DEF LockRow, LockDiscipline
<1>15. ASSUME NEW r \in Request, CommitRevoke(r) PROVE TypeOK'
  BY <1>15 DEF CommitRevoke, End
<1>16. CASE UNCHANGED vars
  BY <1>16 DEF vars
<1> QED
  BY <1>1, <1>2, <1>3, <1>4, <1>5, <1>6, <1>7, <1>8, <1>9, <1>10, <1>11, <1>12,
     <1>13, <1>14, <1>15, <1>16 DEF Next, Arrive, Step

-----------------------------------------------------------------------------
(* The lock discipline.                                                    *)

\* Row locks keep requests apart: a row is held by one of them, and the row
\* a refresh holds stays usable until it commits.
LEMMA LockStep == TypeOK /\ LockDiscipline /\ [Next]_vars => LockDiscipline'
<1> SUFFICES ASSUME TypeOK, LockDiscipline, [Next]_vars PROVE LockDiscipline'
  OBVIOUS
<1> USE DEF TypeOK, LockDiscipline, table, request, Usable
<1>1. ASSUME NEW t \in Token, Login(t) PROVE LockDiscipline'
  BY <1>1 DEF Login
<1>2. ASSUME NEW t \in Token, Expire(t) PROVE LockDiscipline'
  BY <1>2 DEF Expire
<1>3. ASSUME NEW r \in Request, NEW t \in Token, Refresh(r, t) PROVE LockDiscipline'
  BY <1>3 DEF Refresh, Begin
<1>4. ASSUME NEW r \in Request, NEW t \in Token, Logout(r, t) PROVE LockDiscipline'
  BY <1>4 DEF Logout, Begin
<1>5. ASSUME NEW r \in Request, NEW u \in User, SignOut(r, u) PROVE LockDiscipline'
  BY <1>5 DEF SignOut, Begin
<1>6. ASSUME NEW r \in Request, ConsumeHit(r) PROVE LockDiscipline'
  BY <1>6 DEF ConsumeHit, Goto, LockedByOthers
<1>7. ASSUME NEW r \in Request, ConsumeMiss(r) PROVE LockDiscipline'
  BY <1>7 DEF ConsumeMiss, Goto
<1>8. ASSUME NEW r \in Request, NEW n \in Token, Rotate(r, n) PROVE LockDiscipline'
  BY <1>8 DEF Rotate, End
<1>9. ASSUME NEW r \in Request, Deny(r) \/ RefuseInvalid(r) \/ Rollback(r) \/ AbortDeadlock(r)
      PROVE  LockDiscipline'
  BY <1>9 DEF Deny, RefuseInvalid, Rollback, AbortDeadlock, End
<1>10. ASSUME NEW r \in Request, DetectReuse(r) PROVE LockDiscipline'
  BY <1>10 DEF DetectReuse, Goto
<1>11. ASSUME NEW r \in Request, NEW c \in User \cup {Nobody}, FindFamily(r, c)
       PROVE LockDiscipline'
  BY <1>11 DEF FindFamily
<1>12. ASSUME NEW r \in Request, NEW c \in User \cup {Nobody}, IgnoreLogout(r, c)
       PROVE LockDiscipline'
  BY <1>12 DEF IgnoreLogout, End
<1>13. ASSUME NEW r \in Request, Scan(r) PROVE LockDiscipline'
  BY <1>13 DEF Scan, Goto
<1>14. ASSUME NEW r \in Request, NEW t \in Token, LockRow(r, t) PROVE LockDiscipline'
  BY <1>14 DEF LockRow, LockedByOthers
<1>15. ASSUME NEW r \in Request, CommitRevoke(r) PROVE LockDiscipline'
  BY <1>15 DEF CommitRevoke, End
<1>16. CASE UNCHANGED vars
  BY <1>16 DEF vars
<1> QED
  BY <1>1, <1>2, <1>3, <1>4, <1>5, <1>6, <1>7, <1>8, <1>9, <1>10, <1>11, <1>12,
     <1>13, <1>14, <1>15, <1>16 DEF Next, Arrive, Step

-----------------------------------------------------------------------------
(* The tip of a family.                                                    *)

\* What a rotation finds and leaves: the one token it holds is usable, and the
\* next one is new and of the same family.
LEMMA RotateFacts ==
  ASSUME TypeOK, LockDiscipline, NEW r \in Request, NEW n \in Token, Rotate(r, n)
  PROVE  \E t \in Usable :
           /\ n \notin issued
           /\ family_id[n] = family_id[t]
           /\ used' = used \cup {t}
           /\ issued' = issued \cup {n}
           /\ revoked' = revoked
<1>1. PICK t \in Token : tok[r] = {t}
  BY DEF Rotate, LockDiscipline
<1>2. t \in Usable /\ locked[r] = {t}
  BY <1>1 DEF Rotate, LockDiscipline
<1> QED
  BY <1>1, <1>2 DEF Rotate

\* Only a login and a rotation change which tokens are committed and unspent;
\* the other steps leave both columns alone.
LEMMA TipStep == TypeOK /\ LockDiscipline /\ OneTip /\ [Next]_vars => OneTip'
<1> SUFFICES ASSUME TypeOK, LockDiscipline, OneTip, [Next]_vars, NEW f \in Family,
                    (OfFamily(f) \cap issued # {})'
             PROVE  (\E t \in OfFamily(f) \cap issued :
                        OfFamily(f) \cap (issued \ used) = {t})'
  BY DEF OneTip
<1>1. ASSUME NEW t \in Token, Login(t)
      PROVE  \E s \in OfFamily(f) \cap issued' : OfFamily(f) \cap (issued' \ used') = {s}
  <2>1. issued' = issued \cup {t} /\ used' = used /\ used \subseteq issued
    BY <1>1 DEF Login, TypeOK
  <2>2. CASE family_id[t] = f
    <3>1. OfFamily(f) \cap issued = {}
      BY <1>1, <2>2 DEF Login
    <3>2. t \in OfFamily(f) \cap issued'
      BY <2>1, <2>2 DEF OfFamily
    <3>3. OfFamily(f) \cap (issued' \ used') = {t}
      BY <2>1, <3>1, <3>2
    <3> QED
      BY <3>2, <3>3
  <2>3. CASE family_id[t] # f
    <3>1. t \notin OfFamily(f)
      BY <2>3 DEF OfFamily
    <3>2. OfFamily(f) \cap issued' = OfFamily(f) \cap issued
      BY <2>1, <3>1
    <3>3. PICK s \in OfFamily(f) \cap issued : OfFamily(f) \cap (issued \ used) = {s}
      BY <3>2 DEF OneTip, OfFamily
    <3> QED
      BY <2>1, <3>1, <3>2, <3>3
  <2> QED
    BY <2>2, <2>3
<1>2. ASSUME NEW r \in Request, NEW n \in Token, Rotate(r, n)
      PROVE  \E s \in OfFamily(f) \cap issued' : OfFamily(f) \cap (issued' \ used') = {s}
  <2>1. PICK t \in Usable :
           /\ n \notin issued
           /\ family_id[n] = family_id[t]
           /\ used' = used \cup {t}
           /\ issued' = issued \cup {n}
    BY <1>2, RotateFacts
  <2>2. t \in issued \ used /\ t \in Token /\ used \subseteq issued
    BY <2>1 DEF Usable, TypeOK
  <2>3. CASE family_id[n] = f
    <3>1. t \in OfFamily(f) /\ n \in OfFamily(f)
      BY <2>1, <2>2, <2>3 DEF OfFamily
    <3>2. PICK s \in OfFamily(f) \cap issued : OfFamily(f) \cap (issued \ used) = {s}
      BY <2>2, <3>1 DEF OneTip
    <3>3. s = t
      BY <2>2, <3>1, <3>2
    <3>4. OfFamily(f) \cap (issued' \ used') = {n}
      BY <2>1, <2>2, <3>1, <3>2, <3>3
    <3> QED
      BY <2>1, <3>1, <3>4
  <2>4. CASE family_id[n] # f
    <3>1. t \notin OfFamily(f) /\ n \notin OfFamily(f)
      BY <2>1, <2>4 DEF OfFamily
    <3>2. OfFamily(f) \cap issued' = OfFamily(f) \cap issued
      BY <2>1, <3>1
    <3>3. PICK s \in OfFamily(f) \cap issued : OfFamily(f) \cap (issued \ used) = {s}
      BY <3>2 DEF OneTip, OfFamily
    <3> QED
      BY <2>1, <3>1, <3>2, <3>3
  <2> QED
    BY <2>3, <2>4
<1>3. CASE issued' = issued /\ used' = used
  BY <1>3 DEF OneTip, OfFamily
<1>4. \/ \E t \in Token : Login(t)
      \/ \E r \in Request, n \in Token : Rotate(r, n)
      \/ issued' = issued /\ used' = used
  BY DEF Next, Arrive, Step, vars, table, request, Expire, Refresh, Logout, SignOut,
         ConsumeHit, ConsumeMiss, Deny, RefuseInvalid, DetectReuse, FindFamily,
         IgnoreLogout, Scan, LockRow, CommitRevoke, AbortDeadlock, Rollback
<1>5. OfFamily(f)' = OfFamily(f)
  BY DEF OfFamily
<1> QED
  BY <1>1, <1>2, <1>3, <1>4, <1>5

-----------------------------------------------------------------------------
(* The invariants of the specification.                                    *)

\* Inv is inductive.
THEOREM Invariance == Spec => []Inv
<1>1. Init => Inv
  BY DEF Init, Inv, TypeOK, PC, LockDiscipline, OneTip, OfFamily, Usable
<1>2. Inv /\ [Next]_vars => Inv'
  BY TypeStep, LockStep, TipStep DEF Inv
<1> QED
  BY <1>1, <1>2, PTL DEF Spec

\* The chain of every login has exactly one unspent token, for any number of
\* requests that refresh, log out and sign out at the same time.
THEOREM ChainHasOneTip == Spec => []OneTip
<1>1. Inv => OneTip
  BY DEF Inv
<1> QED
  BY <1>1, Invariance, PTL

\* The variables keep their types, and used, revoked and locked rows are always
\* committed ones.
THEOREM TypeCorrect == Spec => []TypeOK
<1>1. Inv => TypeOK
  BY DEF Inv
<1> QED
  BY <1>1, Invariance, PTL

-----------------------------------------------------------------------------
(* The window of a revocation.                                             *)

\* A step that leaves the tip of f, and r's hold of it, as they are.
LEMMA HoldKept ==
  ASSUME NEW r \in Request, NEW f \in Family, HoldsTip(r, f), pc'[r] = pc[r],
         locked[r] \subseteq locked'[r], OfFamily(f) \cap issued' = OfFamily(f) \cap issued,
         used \subseteq used'
  PROVE  HoldsTip(r, f)'
  BY DEF HoldsTip, OfFamily

\* A revoking UPDATE that has reached the tip of a session: a refresh of that
\* session would hold the same row, which the lock discipline excludes.
LEMMA HoldStep ==
  ASSUME Inv, Next, NEW r \in Request, NEW f \in Family, HoldsTip(r, f)
  PROVE  \/ HoldsTip(r, f)'
         \/ pc'[r] = "idle" /\ (OfFamily(f) \cap Usable' = {} \/ UNCHANGED table)
<1>0. TypeOK /\ LockDiscipline /\ pc[r] = "locking"
  BY DEF Inv, HoldsTip
<1>1. ASSUME NEW t \in Token, Login(t) PROVE HoldsTip(r, f)'
  <2>1. t \notin OfFamily(f)
    BY <1>1 DEF Login, HoldsTip, OfFamily
  <2> QED
    BY <1>1, <2>1, HoldKept DEF Login, request
<1>2. ASSUME NEW s \in Request, NEW n \in Token, Rotate(s, n) PROVE HoldsTip(r, f)'
  <2>1. PICK t \in Token : tok[s] = {t}
    BY <1>0, <1>2 DEF Rotate, LockDiscipline
  <2>2. t \in Usable /\ locked[s] = {t} /\ s # r /\ family_id[n] = family_id[t]
    BY <1>0, <1>2, <2>1 DEF Rotate, LockDiscipline
  <2>3. t \notin OfFamily(f)
    BY <1>0, <2>2 DEF HoldsTip, LockDiscipline, Usable
  <2>4. n \notin OfFamily(f)
    BY <2>2, <2>3 DEF OfFamily
  <2>5. pc'[r] = pc[r] /\ locked'[r] = locked[r]
    BY <1>0, <1>2, <2>2 DEF Rotate, End, TypeOK
  <2> QED
    BY <1>2, <2>4, <2>5, HoldKept DEF Rotate
<1>3. ASSUME NEW s \in Request, CommitRevoke(s)
      PROVE  HoldsTip(r, f)' \/ (pc'[r] = "idle" /\ OfFamily(f) \cap Usable' = {})
  <2>1. CASE s = r
    <3>1. OfFamily(f) \cap Usable' = {}
      BY <1>3, <2>1 DEF CommitRevoke, HoldsTip, Usable
    <3> QED
      BY <1>0, <1>3, <2>1, <3>1 DEF CommitRevoke, End, TypeOK
  <2>2. CASE s # r
    <3>1. pc'[r] = pc[r] /\ locked'[r] = locked[r]
      BY <1>0, <1>3, <2>2 DEF CommitRevoke, End, TypeOK
    <3> QED
      BY <1>3, <3>1, HoldKept DEF CommitRevoke
  <2> QED
    BY <2>1, <2>2
<1>4. ASSUME NEW s \in Request, Rollback(s) \/ AbortDeadlock(s)
      PROVE  HoldsTip(r, f)' \/ (pc'[r] = "idle" /\ UNCHANGED table)
  <2>1. CASE s = r
    BY <1>0, <1>4, <2>1 DEF Rollback, AbortDeadlock, End, TypeOK
  <2>2. CASE s # r
    <3>1. pc'[r] = pc[r] /\ locked'[r] = locked[r]
      BY <1>0, <1>4, <2>2 DEF Rollback, AbortDeadlock, End, TypeOK
    <3> QED
      BY <1>4, <3>1, HoldKept DEF Rollback, AbortDeadlock, table
  <2> QED
    BY <2>1, <2>2
<1>5. ASSUME issued' = issued, used' = used, pc'[r] = pc[r], locked[r] \subseteq locked'[r]
      PROVE  HoldsTip(r, f)'
  BY <1>5, HoldKept
<1>6. ASSUME NEW s \in Request, Arrive(s) PROVE HoldsTip(r, f)'
  BY <1>0, <1>5, <1>6 DEF Arrive, Refresh, Logout, SignOut, Begin, table, TypeOK
<1>7. ASSUME NEW s \in Request, NEW t \in Token, LockRow(s, t) PROVE HoldsTip(r, f)'
  BY <1>0, <1>5, <1>7 DEF LockRow, TypeOK
<1>8. ASSUME NEW s \in Request, ConsumeHit(s) \/ ConsumeMiss(s) \/ DetectReuse(s) \/ Scan(s)
      PROVE  HoldsTip(r, f)'
  BY <1>0, <1>5, <1>8 DEF ConsumeHit, ConsumeMiss, DetectReuse, Scan, Goto, TypeOK
<1>9. ASSUME NEW s \in Request, Deny(s) \/ RefuseInvalid(s) PROVE HoldsTip(r, f)'
  BY <1>0, <1>5, <1>9 DEF Deny, RefuseInvalid, End, table, TypeOK
<1>10. ASSUME NEW s \in Request, NEW c \in User \cup {Nobody},
              FindFamily(s, c) \/ IgnoreLogout(s, c)
       PROVE  HoldsTip(r, f)'
  BY <1>0, <1>5, <1>10 DEF FindFamily, IgnoreLogout, End, table, TypeOK
<1>11. ASSUME NEW t \in Token, Expire(t) PROVE HoldsTip(r, f)'
  BY <1>5, <1>11 DEF Expire, request
<1> QED
  BY <1>1, <1>2, <1>3, <1>4, <1>6, <1>7, <1>8, <1>9, <1>10, <1>11 DEF Next, Step

\* Once a revoking UPDATE has reached the last token of a session, the session
\* gets no other one: the statement ends it or fails without a trace.
THEOREM WindowCloses == Spec => ReachedTipEnds
<1> DEFINE A == \A r \in Request, f \in Family : HoldsTip(r, f) =>
                  \/ HoldsTip(r, f)'
                  \/ /\ pc'[r] = "idle"
                     /\ OfFamily(f) \cap Usable' = {} \/ UNCHANGED table
<1>1. Inv /\ [Next]_vars => [A]_vars
  BY HoldStep
<1> QED
  BY <1>1, Invariance, PTL DEF Spec, ReachedTipEnds

-----------------------------------------------------------------------------
(* The abstract chains.                                                    *)

\* Tokens spent or revoked: the `dead` ones of TokenFamilies.
Dead == issued \cap (used \cup revoked)

\* Every step of a request is a step of TokenFamilies, or none.
LEMMA Simulation == Inv /\ [Next]_vars => [Families!Next]_(Families!vars)
<1> SUFFICES ASSUME Inv, [Next]_vars
             PROVE  Families!Next \/ (Usable' = Usable /\ Dead' = Dead)
  BY DEF Families!vars, Dead
<1>0. TypeOK /\ LockDiscipline
  BY DEF Inv
<1>1. ASSUME NEW t \in Token, Login(t) PROVE Families!Next
  <2>1. t \notin issued /\ issued' = issued \cup {t} /\ used' = used /\ revoked' = revoked
    BY <1>1 DEF Login, OfFamily
  <2>2. Usable' = Usable \cup {t} /\ Dead' = Dead
    BY <1>0, <2>1 DEF Usable, Dead, TypeOK
  <2>3. Families!InFamily(family_id[t]) \cap (Usable \cup Dead) = {}
    BY <1>1 DEF Login, OfFamily, Families!InFamily, Usable, Dead
  <2> QED
    BY <2>2, <2>3 DEF Families!Next, Families!Start, Dead
<1>2. ASSUME NEW r \in Request, NEW n \in Token, Rotate(r, n) PROVE Families!Next
  <2>1. PICK t \in Usable :
           /\ n \notin issued
           /\ family_id[n] = family_id[t]
           /\ used' = used \cup {t}
           /\ issued' = issued \cup {n}
           /\ revoked' = revoked
    BY <1>0, <1>2, RotateFacts
  <2>2. t \in issued /\ used \subseteq issued /\ revoked \subseteq issued
    BY <1>0, <2>1 DEF Usable, TypeOK
  <2>3. Usable' = (Usable \ {t}) \cup {n} /\ Dead' = Dead \cup {t}
    BY <2>1, <2>2 DEF Usable, Dead
  <2>4. n \notin Usable \cup Dead
    BY <2>1 DEF Usable, Dead
  <2> QED
    BY <2>1, <2>3, <2>4 DEF Families!Next, Families!Rotate, Dead
<1>3. ASSUME NEW r \in Request, CommitRevoke(r)
      PROVE  Families!Next \/ (Usable' = Usable /\ Dead' = Dead)
  <2> DEFINE S == locked[r] \cap Usable
  <2>1. /\ revoked' = revoked \cup locked[r] /\ issued' = issued /\ used' = used
        /\ locked[r] \subseteq issued
    BY <1>0, <1>3 DEF CommitRevoke, TypeOK
  <2>2. Usable' = Usable \ S /\ Dead' = Dead \cup S
    BY <2>1 DEF Usable, Dead
  <2>3. CASE S = {}
    BY <2>2, <2>3
  <2>4. CASE S # {}
    <3>1. S \in SUBSET Usable
      OBVIOUS
    <3> HIDE DEF S
    <3>2. Families!Close(S)
      BY <2>2, <2>4 DEF Families!Close, Dead
    <3> QED
      BY <3>1, <3>2 DEF Families!Next
  <2> QED
    BY <2>3, <2>4
<1>4. CASE issued' = issued /\ used' = used /\ revoked' = revoked
  BY <1>4 DEF Usable, Dead
<1>5. \/ \E t \in Token : Login(t)
      \/ \E r \in Request, n \in Token : Rotate(r, n)
      \/ \E r \in Request : CommitRevoke(r)
      \/ issued' = issued /\ used' = used /\ revoked' = revoked
  BY DEF Next, Arrive, Step, vars, table, request, Expire, Refresh, Logout, SignOut,
         ConsumeHit, ConsumeMiss, Deny, RefuseInvalid, DetectReuse, FindFamily,
         IgnoreLogout, Scan, LockRow, AbortDeadlock, Rollback
<1> QED
  BY <1>1, <1>2, <1>3, <1>4, <1>5

\* The table with its transactions implements the chains of TokenFamilies.
THEOREM Refinement == Spec => ImplementsFamilies
<1>1. Init => Families!Init
  BY DEF Init, Families!Init, Usable
<1> QED
  BY <1>1, Simulation, Invariance, PTL DEF Spec, ImplementsFamilies, Families!Spec

\* A step of TokenFamilies never opens a family that is over.
LEMMA OverStep ==
  ASSUME TypeOK, NEW f \in Family, [Families!Next]_(Families!vars), Families!Over(f)
  PROVE  Families!Over(f)'
<1> USE DEF Families!Over, Families!InFamily
<1>1. ASSUME NEW t \in Token, Families!Start(t) PROVE Families!Over(f)'
  BY <1>1 DEF Families!Start
<1>2. ASSUME NEW t \in Usable, NEW n \in Token, Families!Rotate(t, n) PROVE Families!Over(f)'
  <2>1. t \in Token
    BY DEF Usable, TypeOK
  <2> QED
    BY <1>2, <2>1 DEF Families!Rotate
<1>3. ASSUME NEW S \in SUBSET Usable, Families!Close(S) PROVE Families!Over(f)'
  BY <1>3 DEF Families!Close
<1>4. CASE UNCHANGED Families!vars
  BY <1>4 DEF Families!vars
<1> QED
  BY <1>1, <1>2, <1>3, <1>4 DEF Families!Next

\* A closed family stays closed, whatever requests are under way.
THEOREM ClosedStaysClosed == Spec => ClosedForGood
<1>1. TypeOK /\ [Families!Next]_(Families!vars) =>
        [\A f \in Family : Families!Over(f) => Families!Over(f)']_(Families!vars)
  BY OverStep
<1> QED
  BY <1>1, Simulation, Invariance, TypeCorrect, PTL DEF Spec, ClosedForGood, Families!OverForGood
=============================================================================
