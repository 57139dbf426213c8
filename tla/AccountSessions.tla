--------------------------- MODULE AccountSessions ---------------------------
(***************************************************************************)
(* The sessions of one account while its status and its password change:   *)
(* the row of users, the refresh_tokens rows and the cutoff on Redis seen  *)
(* together.  RefreshTokens, AccessTokens and AccountRow look at each one  *)
(* alone and in more detail.                                               *)
(*                                                                         *)
(* A login or a refresh reads the row, hands out an access token and adds  *)
(* a refresh token; block, put_under_review, change_password and           *)
(* reset_password sign the account out: they replace the cutoff and revoke *)
(* the rows their UPDATE sees, each in an order of its own.  Nothing locks *)
(* the account before the first UPDATE: a session may be handed out on the *)
(* strength of a row that is being changed.  delete_account takes the      *)
(* steps of put_under_review, and a detected reuse is in RefreshTokens.    *)
(***************************************************************************)
EXTENDS Naturals

CONSTANTS Grant,     \* pairs of access and refresh token; the model's bound
          Request,   \* requests being served at a time
          Password   \* passwords the account may have

VARIABLES
  row,       \* the committed row: status and password
  access,    \* grants whose access token was handed out
  granted,   \* grants whose refresh row is committed
  open,      \* those neither used nor revoked
  basis,     \* the password the session of a grant was opened with
  cut,       \* access tokens issued up to the cutoff
  ended,     \* grants complete when a sign-out that committed arrived
  crossing,  \* grants of a request that overlapped one that saves the row
  movedBack, \* whether a cutoff has been replaced by an older one
  req        \* the requests

store == <<row, access, granted, open, basis, cut, ended, crossing, movedBack>>
vars == <<row, access, granted, open, basis, cut, ended, crossing, movedBack, req>>

\* Mutant of Path: put_under_review leaves the refresh tokens alone, since the
\* account may not be used anyway.
PathTrustingTheStatus ==
  [login  |-> <<"issue", "commit">>,
   refresh |-> <<"issue", "commit">>,
   block  |-> <<"reread", "flush", "scan", "lock", "cutoff", "commit">>,
   review |-> <<"reread", "cutoff", "flush", "commit">>,
   change |-> <<"reread", "cutoff", "flush", "scan", "lock", "commit">>,
   reset  |-> <<"load", "reread", "flush", "cutoff", "scan", "lock", "commit">>,
   lift   |-> <<"reread", "flush", "commit">>,
   none   |-> <<>>]

\* What each request still does after its first reading.  users.update only
\* assigns: the UPDATE of users is flushed before the next statement of the
\* session, which is the one on audit_log or refresh_tokens, the one on
\* password_reset_tokens, or the commit.
Path ==
  [login  |-> <<"issue", "commit">>,
   refresh |-> <<"issue", "commit">>,
   block  |-> <<"reread", "flush", "scan", "lock", "cutoff", "commit">>,
   review |-> <<"reread", "cutoff", "flush", "scan", "lock", "commit">>,
   change |-> <<"reread", "cutoff", "flush", "scan", "lock", "commit">>,
   reset  |-> <<"load", "reread", "flush", "cutoff", "scan", "lock", "commit">>,
   lift   |-> <<"reread", "flush", "commit">>,
   none   |-> <<>>]

SignOut == {"block", "review", "change", "reset"}
Saver == SignOut \cup {"lift"}

\* at: how far along its path it is; user, base: the User and update's reading;
\* complete: the grants complete when it arrived; before: the access tokens
\* issued before its `now`; targets: the rows its revoking UPDATE saw; uses,
\* gives: the refresh token it consumes and the grant it hands out.
NoUser == [status |-> "none", password |-> "none"]
Idle ==
  [op |-> "none", at |-> 1, user |-> NoUser, base |-> NoUser, complete |-> {},
   before |-> {}, targets |-> {}, uses |-> {}, gives |-> {}, crossed |-> FALSE]

Init ==
  /\ row \in [status: {"active"}, password: Password]
  /\ access = {} /\ granted = {} /\ open = {} /\ cut = {} /\ ended = {} /\ crossing = {}
  /\ basis = [g \in Grant |-> {}]
  /\ movedBack = FALSE
  /\ req = [r \in Request |-> Idle]

At(r, step) ==
  req[r].at \in DOMAIN Path[req[r].op] /\ Path[req[r].op][req[r].at] = step
Ahead(r, step) ==
  \E i \in DOMAIN Path[req[r].op] : i >= req[r].at /\ Path[req[r].op][i] = step
Saves(r) == req[r].op \in Saver

\* The columns that users.update assigns another value.
Written(r) == {c \in {"status", "password"} : Saves(r) /\ req[r].user[c] # req[r].base[c]}

\* The UPDATE of users has run, and the transaction is open.
HoldsRow(r) == Saves(r) /\ ~Ahead(r, "flush") /\ Written(r) # {}

\* The refresh rows it has updated.
Holds(r) == req[r].uses \cup (IF Ahead(r, "lock") THEN {} ELSE req[r].targets)
HeldByOthers(r) == UNION {Holds(s) : s \in Request \ {r}}

-----------------------------------------------------------------------------
(* Arrivals.  The guards are the refusals that change nothing.             *)

\* A request that hands out a session is under way together with one that
\* saves the account.
Crosses(op, other) == op \in {"login", "refresh"} /\ other \in Saver

Begin(r, start) ==
  /\ req[r].op = "none"
  /\ req' = [s \in Request |->
       IF s = r THEN [start EXCEPT !.crossed = \E q \in Request : Crosses(start.op, req[q].op)]
       ELSE [req[s] EXCEPT !.crossed = @ \/ Crosses(req[s].op, start.op)]]
  /\ UNCHANGED store

\* login has found the account, which may be used; the password is right.
Login(r) ==
  /\ row.status = "active"
  /\ Begin(r, [Idle EXCEPT !.op = "login", !.user = row])

\* Mutant of Refresh: consume asks whether the token exists.
RefreshRevoked(r, g) ==
  /\ g \in granted \ HeldByOthers(r)
  /\ Begin(r, [Idle EXCEPT !.op = "refresh", !.uses = {g}])

\* consume: the row is open, and nobody else is changing it.
Refresh(r, g) ==
  /\ g \in open \ HeldByOthers(r)
  /\ Begin(r, [Idle EXCEPT !.op = "refresh", !.uses = {g}])

\* A request that has read the account, and then its `now`.
Save(r, op, u) ==
  Begin(r, [Idle EXCEPT !.op = op, !.user = u, !.complete = granted, !.before = access])

Block(r) ==
  row.status # "suspended" /\ Save(r, "block", [row EXCEPT !.status = "suspended"])
PutUnderReview(r) ==
  row.status = "active" /\ Save(r, "review", [row EXCEPT !.status = "under_review"])
LiftReview(r) ==
  row.status = "under_review" /\ Save(r, "lift", [row EXCEPT !.status = "active"])
ChangePassword(r, p) ==
  row.status = "active" /\ p # row.password /\ Save(r, "change", [row EXCEPT !.password = p])

\* reset_password reads its `now` before the link and the account, and does
\* not ask for the status.
PresentLink(r) == Save(r, "reset", NoUser)
ResetPassword(r, p) ==
  /\ At(r, "load")
  /\ p # row.password
  /\ req' = [req EXCEPT ![r].at = @ + 1, ![r].user = [row EXCEPT !.password = p]]
  /\ UNCHANGED store

-----------------------------------------------------------------------------
(* Steps.                                                                  *)

\* issue_session and issue_refresh_token.  refresh has just read the account,
\* which may be used; login read it when it arrived.
Issue(r, g) ==
  /\ At(r, "issue")
  /\ req[r].op = "refresh" => row.status = "active"
  /\ g \notin access
  /\ access' = access \cup {g}
  /\ basis' = [basis EXCEPT ![g] = IF req[r].op = "login" THEN {req[r].user.password}
                                   ELSE UNION {basis[h] : h \in req[r].uses}]
  /\ req' = [req EXCEPT ![r].at = @ + 1, ![r].gives = {g}]
  /\ UNCHANGED <<row, granted, open, cut, ended, crossing, movedBack>>

\* The session.get of users.update.
Reread(r) ==
  /\ At(r, "reread")
  /\ req' = [req EXCEPT ![r].at = @ + 1, ![r].base = row]
  /\ UNCHANGED store

\* The UPDATE of users, which waits for the transaction of another one.
Flush(r) ==
  /\ At(r, "flush")
  /\ Written(r) # {} => \A s \in Request \ {r} : ~HoldsRow(s)
  /\ req' = [req EXCEPT ![r].at = @ + 1]
  /\ UNCHANGED store

\* sessions.revoke_all: Redis, outside of the transaction.  change_password
\* reads its `now` here.
Cutoff(r) ==
  LET upTo == IF req[r].op = "change" THEN access ELSE req[r].before
  IN  /\ At(r, "cutoff")
      /\ cut' = upTo
      /\ movedBack' = (movedBack \/ ~ cut \subseteq upTo)
      /\ req' = [req EXCEPT ![r].at = @ + 1, ![r].before = {}]
      /\ UNCHANGED <<row, access, granted, open, basis, ended, crossing>>

\* refresh_tokens.revoke_all: the rows its snapshot shows, once no other
\* transaction holds them.
Scan(r) ==
  /\ At(r, "scan")
  /\ req' = [req EXCEPT ![r].at = @ + 1, ![r].targets = open]
  /\ UNCHANGED store

LockRows(r) ==
  /\ At(r, "lock")
  /\ req[r].targets \cap HeldByOthers(r) = {}
  /\ req' = [req EXCEPT ![r].at = @ + 1]
  /\ UNCHANGED store

Commit(r) ==
  /\ At(r, "commit")
  /\ row' = [c \in {"status", "password"} |->
               IF c \in Written(r) THEN req[r].user[c] ELSE row[c]]
  /\ granted' = granted \cup req[r].gives
  /\ open' = (open \ Holds(r)) \cup req[r].gives
  /\ ended' = ended \cup (IF req[r].op \in SignOut THEN req[r].complete ELSE {})
  /\ crossing' = crossing \cup (IF req[r].crossed \/ req[r].uses \cap crossing # {}
                                THEN req[r].gives ELSE {})
  /\ req' = [req EXCEPT ![r] = Idle]
  /\ UNCHANGED <<access, basis, cut, movedBack>>

\* An account that may not be used, a link that is refused, an exception or a
\* crash.  What Redis was told stays, and so does an access token whose answer
\* is on its way.
Rollback(r) ==
  /\ req[r].op # "none"
  /\ req' = [req EXCEPT ![r] = Idle]
  /\ UNCHANGED store

-----------------------------------------------------------------------------
Arrive(r) ==
  \/ Login(r) \/ \E g \in Grant : Refresh(r, g)
  \/ Block(r) \/ PutUnderReview(r) \/ LiftReview(r) \/ PresentLink(r)
  \/ \E p \in Password : ChangePassword(r, p)

Step(r) ==
  \/ \E g \in Grant : Issue(r, g)
  \/ \E p \in Password : ResetPassword(r, p)
  \/ Reread(r) \/ Flush(r) \/ Cutoff(r) \/ Scan(r) \/ LockRows(r) \/ Commit(r)

Next == \E r \in Request : Arrive(r) \/ Step(r) \/ Rollback(r)

Spec == Init /\ [][Next]_vars

-----------------------------------------------------------------------------
(* Properties.                                                             *)

(***************************************************************************)
(* A sign-out that was committed ended both tokens of every session that   *)
(* was complete when it arrived, and for good: also for the time after     *)
(* lift_review ("The sessions it lost do not come back", account_review.py)*)
(* and whatever failed on the way ("the account is never left blocked with *)
(* its tokens still working", account_block.py).  The one exception is a   *)
(* request that read its `now` earlier and moves the cutoff back, and then *)
(* only for a session that was opened while another request saved the      *)
(* account.                                                                *)
(***************************************************************************)
SignOutEnds ==
  /\ ended \cap open = {}
  /\ movedBack \/ ended \subseteq cut
  /\ ended \ crossing \subseteq cut

\* get_current_user or refresh would let the holder of g in.
Works(g) == row.status = "active" /\ (g \in access \ cut \/ g \in open)

(***************************************************************************)
(* A session that works was opened with the password the account has: one  *)
(* opened with an earlier password is over, unless the login, or a refresh *)
(* on its way here, overlapped a request that saves the account.           *)
(***************************************************************************)
UsableIsCurrent ==
  \A g \in granted \ crossing : Works(g) => row.password \in basis[g]
=============================================================================
