---------------------------- MODULE RefreshTokens ----------------------------
(***************************************************************************)
(* The refresh_tokens table of users-api and the requests that work on it: *)
(* POST /auth/login, /auth/refresh, /auth/logout and the services that     *)
(* sign a whole account out (block, review, deletion, password change and  *)
(* reset).                                                                 *)
(*                                                                         *)
(* Every request runs in one READ COMMITTED transaction (session_scope).   *)
(* A statement sees what is committed when it starts.  An UPDATE that      *)
(* meets a row locked by another transaction waits for it, and then looks  *)
(* at that row again; rows that others inserted in the meantime stay       *)
(* invisible to it.                                                        *)
(*                                                                         *)
(* The columns written once, at insert, are constants of a token: a raw    *)
(* token is random and never generated twice, so naming all of them        *)
(* beforehand loses nothing.  used_at, revoked_at and expires_at are kept  *)
(* as the sets of committed rows where they are set, or in the past.       *)
(***************************************************************************)
CONSTANTS Token,      \* raw refresh tokens; the finite set is the model's bound
          Family,     \* family_id values, one per login
          User,       \* accounts
          Request,    \* HTTP requests being served at the same time
          Nobody,     \* no user: the caller of a logout whose access token expired
          family_id,  \* column family_id
          user_id     \* column user_id, of the family a token belongs to

ASSUME ColumnsAssumption ==
  /\ family_id \in [Token -> Family]
  /\ user_id \in [Family -> User]
  /\ Nobody \notin User

VARIABLES
  issued,    \* committed rows
  used,      \* committed rows with used_at set
  revoked,   \* committed rows with revoked_at set
  expired,   \* rows with expires_at in the past
  pc,        \* what each request does next
  tok,       \* the tokens the request was given: one, or none
  late,      \* those of tok that had expired at the request's `now`
  scope,     \* rows its revoking UPDATE is about, then those it has still to reach
  locked     \* rows it holds the lock of until its transaction ends

table == <<issued, used, revoked, expired>>
request == <<pc, tok, late, scope, locked>>
vars == <<issued, used, revoked, expired, pc, tok, late, scope, locked>>

PC == {"idle", "consume", "consumed", "refuse", "logout", "revoking", "locking"}

OfFamily(f) == {t \in Token : family_id[t] = f}
OfUser(u) == {t \in Token : user_id[family_id[t]] = u}

\* Committed rows that `consume` would accept, were they not expired.
Usable == issued \ (used \cup revoked)

\* Rows another transaction holds: an UPDATE has to wait for them.
LockedByOthers(r) == UNION {locked[s] : s \in Request \ {r}}

Init ==
  /\ issued = {} /\ used = {} /\ revoked = {} /\ expired = {}
  /\ pc = [r \in Request |-> "idle"]
  /\ tok = [r \in Request |-> {}]
  /\ late = [r \in Request |-> {}]
  /\ scope = [r \in Request |-> {}]
  /\ locked = [r \in Request |-> {}]

-----------------------------------------------------------------------------
(* Beginnings and ends of a request.                                       *)

Begin(r, label, toks, past, rows) ==
  /\ pc[r] = "idle"
  /\ pc' = [pc EXCEPT ![r] = label]
  /\ tok' = [tok EXCEPT ![r] = toks]
  /\ late' = [late EXCEPT ![r] = past]
  /\ scope' = [scope EXCEPT ![r] = rows]
  /\ UNCHANGED locked

\* The transaction is over and its locks are gone.
End(r) ==
  /\ pc' = [pc EXCEPT ![r] = "idle"]
  /\ tok' = [tok EXCEPT ![r] = {}]
  /\ late' = [late EXCEPT ![r] = {}]
  /\ scope' = [scope EXCEPT ![r] = {}]
  /\ locked' = [locked EXCEPT ![r] = {}]

\* Only consume looks at `late`.
Goto(r, label) ==
  /\ pc' = [pc EXCEPT ![r] = label]
  /\ late' = [late EXCEPT ![r] = {}]
  /\ UNCHANGED tok

\* The worker dies, the connection drops, Redis is down: session_scope rolls
\* the transaction back, whatever it had done.
Rollback(r) ==
  /\ pc[r] # "idle"
  /\ End(r)
  /\ UNCHANGED table

-----------------------------------------------------------------------------
(* POST /auth/login: the first token of a new family, seen once committed. *)

Login(t) ==
  /\ OfFamily(family_id[t]) \cap issued = {}
  /\ issued' = issued \cup {t}
  /\ UNCHANGED <<used, revoked, expired, request>>

\* expires_at goes by.  Nobody looks at it on a spent or revoked row.
Expire(t) ==
  /\ t \in Usable
  /\ expired' = expired \cup {t}
  /\ UNCHANGED <<issued, used, revoked, request>>

-----------------------------------------------------------------------------
(* POST /auth/refresh.                                                     *)

\* The body may carry any token: a usable one, a spent one, one that nobody
\* was given, or one whose insert has not been committed yet (the response
\* leaves before the transaction ends).  `now` is read here.
Refresh(r, t) ==
  /\ Begin(r, "consume", {t}, {t} \cap expired, {})
  /\ UNCHANGED table

\* Mutant of ConsumeHit: the conditions checked by an earlier SELECT, so that
\* the UPDATE neither waits for the row nor looks at it again.
BlindConsume(r) ==
  /\ pc[r] = "consume"
  /\ tok[r] \subseteq Usable \ late[r]
  /\ locked' = [locked EXCEPT ![r] = tok[r]]
  /\ Goto(r, "consumed")
  /\ UNCHANGED <<issued, used, revoked, expired, scope>>

\* Mutant of ConsumeHit: an upsert, which also spends what was never issued.
ConsumeAnything(r) ==
  /\ pc[r] = "consume"
  /\ tok[r] \cap LockedByOthers(r) = {}
  /\ locked' = [locked EXCEPT ![r] = tok[r]]
  /\ Goto(r, "consumed")
  /\ UNCHANGED <<issued, used, revoked, expired, scope>>

\* consume matches: the row is locked, its used_at written.
ConsumeHit(r) ==
  /\ pc[r] = "consume"
  /\ tok[r] \subseteq Usable \ late[r]
  /\ tok[r] \cap LockedByOthers(r) = {}
  /\ locked' = [locked EXCEPT ![r] = tok[r]]
  /\ Goto(r, "consumed")
  /\ UNCHANGED <<issued, used, revoked, expired, scope>>

\* consume matches nothing: at once, or after waiting for whoever spent the
\* token first.
ConsumeMiss(r) ==
  /\ pc[r] = "consume"
  /\ ~ tok[r] \subseteq Usable \ late[r]
  /\ Goto(r, "refuse")
  /\ UNCHANGED <<issued, used, revoked, expired, scope, locked>>

\* Mutant of Deny: the handler raises and the connection goes back to the pool
\* with its row locks.
DenyWithoutRollback(r) ==
  /\ pc[r] = "consumed"
  /\ pc' = [pc EXCEPT ![r] = "idle"]
  /\ UNCHANGED <<issued, used, revoked, expired, tok, late, scope, locked>>

\* The account is gone, blocked, or holds an expired temporary password: the
\* exception rolls the consumption back and the token stays usable.
Deny(r) ==
  /\ pc[r] = "consumed"
  /\ End(r)
  /\ UNCHANGED table

\* Mutant of Rotate: the account is refused after the consumption, and the
\* handler answers instead of raising, so that the consumption is committed.
RotateToNothing(r, n) ==
  /\ pc[r] = "consumed"
  /\ n \notin issued
  /\ \A t \in tok[r] : family_id[n] = family_id[t]
  /\ used' = used \cup locked[r]
  /\ End(r)
  /\ UNCHANGED <<issued, revoked, expired>>

\* The account is in order: the next token of the family is added and both
\* writes are committed together.
Rotate(r, n) ==
  /\ pc[r] = "consumed"
  /\ n \notin issued
  /\ \A t \in tok[r] : family_id[n] = family_id[t]
  /\ used' = used \cup locked[r]
  /\ issued' = issued \cup {n}
  /\ End(r)
  /\ UNCHANGED <<revoked, expired>>

\* refuse_refresh_token: not a used token, or one already revoked.
RefuseInvalid(r) ==
  /\ pc[r] = "refuse"
  /\ ~ tok[r] \subseteq used \ revoked
  /\ End(r)
  /\ UNCHANGED table

\* refuse_refresh_token: used and not revoked, so somebody kept a copy and
\* every token of the account is to be revoked.
DetectReuse(r) ==
  /\ pc[r] = "refuse"
  /\ tok[r] \subseteq used \ revoked
  /\ scope' = [scope EXCEPT ![r] = UNION {OfUser(user_id[family_id[t]]) : t \in tok[r]}]
  /\ Goto(r, "revoking")
  /\ UNCHANGED <<issued, used, revoked, expired, locked>>

-----------------------------------------------------------------------------
(* POST /auth/logout and the sign-out of an account.                       *)

\* A logout that carries a refresh token, which may be anybody's.
Logout(r, t) ==
  /\ Begin(r, "logout", {t}, {}, {})
  /\ UNCHANGED table

\* revoke_refresh_family: the token is found and is the caller's, or the
\* access token had expired and holding the refresh token is proof enough.
FindFamily(r, caller) ==
  /\ pc[r] = "logout"
  /\ tok[r] \subseteq issued
  /\ \A t \in tok[r] : caller \in {user_id[family_id[t]], Nobody}
  /\ scope' = [scope EXCEPT ![r] = UNION {OfFamily(family_id[t]) : t \in tok[r]}]
  /\ tok' = [tok EXCEPT ![r] = {}]
  /\ pc' = [pc EXCEPT ![r] = "revoking"]
  /\ UNCHANGED <<issued, used, revoked, expired, late, locked>>

\* revoke_refresh_family: unknown, or somebody else's.  Nothing to refuse.
IgnoreLogout(r, caller) ==
  /\ pc[r] = "logout"
  /\ \/ ~ tok[r] \subseteq issued
     \/ \E t \in tok[r] : caller \notin {user_id[family_id[t]], Nobody}
  /\ End(r)
  /\ UNCHANGED table

\* The services that end every session of an account call revoke_all.
SignOut(r, u) ==
  /\ Begin(r, "revoking", {}, {}, OfUser(u))
  /\ UNCHANGED table

-----------------------------------------------------------------------------
(* The UPDATE of revoke_family and revoke_all, and its commit.             *)

\* The statement starts: its snapshot fixes which rows it will touch.
Scan(r) ==
  /\ pc[r] = "revoking"
  /\ scope' = [scope EXCEPT ![r] = (scope[r] \cap issued) \ revoked]
  /\ Goto(r, "locking")
  /\ UNCHANGED <<issued, used, revoked, expired, locked>>

\* Mutant of LockRow: the row is written without waiting for its lock.
WriteRow(r, t) ==
  /\ pc[r] = "locking"
  /\ t \in scope[r]
  /\ scope' = [scope EXCEPT ![r] = scope[r] \ {t}]
  /\ locked' = [locked EXCEPT ![r] = locked[r] \cup {t}]
  /\ UNCHANGED <<issued, used, revoked, expired, pc, tok, late>>

\* The statement reaches a row, waiting for whoever holds it, and keeps its
\* lock; one that was revoked while it waited is locked and left as it is.
\* Nothing orders the rows: two statements may reach them in opposite orders.
LockRow(r, t) ==
  /\ pc[r] = "locking"
  /\ t \in scope[r]
  /\ t \notin LockedByOthers(r)
  /\ scope' = [scope EXCEPT ![r] = scope[r] \ {t}]
  /\ locked' = [locked EXCEPT ![r] = locked[r] \cup {t}]
  /\ UNCHANGED <<issued, used, revoked, expired, pc, tok, late>>

\* The answer (204, or the 401 of a reuse, which is returned and not raised)
\* and the commit.
CommitRevoke(r) ==
  /\ pc[r] = "locking"
  /\ scope[r] = {}
  /\ revoked' = revoked \cup locked[r]
  /\ End(r)
  /\ UNCHANGED <<issued, used, expired>>

\* r and others each wait for rows that the rest of them hold.  A refresh is
\* never among them: it takes one row and waits for nothing more.
Deadlocked(r) ==
  \E D \in SUBSET Request :
    /\ r \in D
    /\ \A s \in D : /\ pc[s] = "locking" /\ scope[s] # {}
                    /\ scope[s] \subseteq UNION {locked[q] : q \in D \ {s}}

\* PostgreSQL finds the circle and aborts a statement of it; session_scope
\* rolls back, and the request is answered with an error.
AbortDeadlock(r) ==
  /\ Deadlocked(r)
  /\ End(r)
  /\ UNCHANGED table

-----------------------------------------------------------------------------
Step(r) ==
  \/ ConsumeHit(r) \/ ConsumeMiss(r)
  \/ Deny(r) \/ \E n \in Token : Rotate(r, n)
  \/ RefuseInvalid(r) \/ DetectReuse(r)
  \/ \E caller \in User \cup {Nobody} : FindFamily(r, caller) \/ IgnoreLogout(r, caller)
  \/ Scan(r) \/ (\E t \in Token : LockRow(r, t)) \/ CommitRevoke(r)
  \/ AbortDeadlock(r)

Arrive(r) ==
  \/ \E t \in Token : Refresh(r, t) \/ Logout(r, t)
  \/ \E u \in User : SignOut(r, u)

Next ==
  \/ \E t \in Token : Login(t) \/ Expire(t)
  \/ \E r \in Request : Arrive(r) \/ Step(r) \/ Rollback(r)

Spec == Init /\ [][Next]_vars

\* An UPDATE gets the row it was waiting for.
GetRow(r) == ConsumeHit(r) \/ \E t \in Token : LockRow(r, t)

\* A handler that can go on does.  Waiters of a row lock are served in order,
\* so a statement whose row becomes free again and again gets it: strong
\* fairness for the two that wait.
Fairness == \A r \in Request : WF_vars(Step(r)) /\ SF_vars(GetRow(r))

FairSpec == Spec /\ Fairness

-----------------------------------------------------------------------------
(* Properties.                                                             *)

TypeOK ==
  /\ issued \subseteq Token
  /\ used \subseteq issued
  /\ revoked \subseteq issued
  /\ expired \subseteq issued
  /\ pc \in [Request -> PC]
  /\ tok \in [Request -> SUBSET Token]
  /\ late \in [Request -> SUBSET Token]
  /\ scope \in [Request -> SUBSET Token]
  /\ locked \in [Request -> SUBSET issued]

(***************************************************************************)
(* The chain of a login has exactly one token that was not spent, whatever *)
(* the interleaving of refreshes, refusals and crashes: two requests with  *)
(* the same token never both get a successor (refresh_token_repository.py, *)
(* consume), and a refusal after the consumption never costs the owner the *)
(* session (auth.py, refresh: "the token stays usable").                   *)
(***************************************************************************)
OneTip ==
  \A f \in Family :
    OfFamily(f) \cap issued # {} =>
      \E t \in OfFamily(f) \cap issued : OfFamily(f) \cap (issued \ used) = {t}

\* The UPDATE of r holds the one token of f that can still be spent.
HoldsTip(r, f) ==
  /\ pc[r] = "locking"
  /\ OfFamily(f) \cap issued # {}
  /\ OfFamily(f) \cap (issued \ used) \subseteq locked[r]

(***************************************************************************)
(* A refresh escapes a revocation only until the UPDATE of revoke_all or   *)
(* revoke_family reaches the last token of its session.  From then on the  *)
(* session gets no further token, whatever refreshes, logouts and          *)
(* sign-outs do beside it: the statement holds that token until its commit *)
(* leaves the session without one that works, or its transaction fails and *)
(* the table is as before (refresh_token_repository.py; auth.py, refresh). *)
(***************************************************************************)
ReachedTipEnds ==
  [][\A r \in Request, f \in Family : HoldsTip(r, f) =>
       \/ HoldsTip(r, f)'
       \/ /\ pc'[r] = "idle"
          /\ OfFamily(f) \cap Usable' = {} \/ UNCHANGED table]_vars

\* What the table promises, with its transactions taken away.
Families == INSTANCE TokenFamilies
              WITH open <- Usable, dead <- issued \cap (used \cup revoked)

(***************************************************************************)
(* The requests, with their locks, waits and rollbacks, implement the      *)
(* abstract chains: every commit is a login, a rotation or a closing.      *)
(***************************************************************************)
ImplementsFamilies == Families!Spec

(***************************************************************************)
(* A family closed by a logout, a sign-out or a detected reuse is never    *)
(* opened again by a refresh that was under way (auth.py, refresh and      *)
(* revoke_refresh_family).                                                 *)
(***************************************************************************)
ClosedForGood == Families!OverForGood

(***************************************************************************)
(* Every request ends: no wait for a row lock lasts for ever, although a   *)
(* revocation waits for the refreshes of the account and they for it, and  *)
(* two revocations that take the same rows in opposite orders for each     *)
(* other, until the database aborts one of them.                           *)
(***************************************************************************)
EveryRequestEnds ==
  \A r \in Request : pc[r] # "idle" ~> pc[r] = "idle"

\* A request that is ending sessions because its token was used before.
ReuseDetected(r) == pc[r] = "locking" /\ scope[r] = {} /\ tok[r] # {}

(***************************************************************************)
(* What auth.py says of a token presented again: "the whole account is     *)
(* signed out and has to log in again".  When revoke_all returns, no       *)
(* session it took a token of is left with a token that works.  It fails:  *)
(* a refresh that held a row while the statement waited for it inserted    *)
(* the next token of that session, which the statement's snapshot lacks.   *)
(* A logout and a sign-out run the same UPDATE and lose the same race.     *)
(***************************************************************************)
ReuseEndsSessions ==
  \A r \in Request : ReuseDetected(r) =>
    \A t \in locked[r] : OfFamily(family_id[t]) \cap Usable \subseteq locked[r]
=============================================================================
