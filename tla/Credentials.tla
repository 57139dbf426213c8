----------------------------- MODULE Credentials -----------------------------
(***************************************************************************)
(* The password of one administrator's account: created with a temporary   *)
(* password (create_administrator), given another one while the owner owes *)
(* a choice (reset_temporary_password), replaced by the owner              *)
(* (change_password) or through a recovery link (reset_password).          *)
(*                                                                         *)
(* Transactions are those of AccountRow: a handler decides on a User it    *)
(* loaded, and SqlAlchemyUserRepository.update writes every column where   *)
(* that User differs from the row it reads again.  The sign-out that       *)
(* change_password and reset_password end with is SignOut of RefreshTokens *)
(* and RevokeAll of AccessTokens.                                          *)
(*                                                                         *)
(* A deadline is named after the temporary password it was given to; when  *)
(* it passes, login and refresh refuse the account for as long as the flag *)
(* is up (temporary_password_expired).                                     *)
(***************************************************************************)
CONSTANTS Temporary,   \* passwords generated for the owner
          Chosen,      \* passwords the owner may choose
          First,       \* the temporary password the account is created with
          Link,        \* recovery links that may be asked for
          Request,     \* requests about the account being served at a time
          NoDeadline   \* temporary_password_expires_at is NULL

ASSUME CredentialsAssumption ==
  /\ First \in Temporary
  /\ Temporary \cap Chosen = {}
  /\ NoDeadline \notin Temporary

VARIABLES
  row,      \* the committed columns
  sent,     \* recovery links committed
  used,     \* those with used_at set
  expired,  \* those past their expires_at
  spent,    \* links that have changed the password
  again,    \* those that have done so more than once
  lost,     \* whether a stale request has committed
  req       \* the requests

vars == <<row, sent, used, expired, spent, again, lost, req>>
links == <<sent, used, expired, spent, again>>

Row == [password: Temporary \cup Chosen, mustChange: BOOLEAN,
        deadline: Temporary \cup {NoDeadline}]
Column == {"password", "mustChange", "deadline"}

\* What create_administrator adds.
Created == [password |-> First, mustChange |-> TRUE, deadline |-> First]

\* stale: the row or its links have been changed since the request loaded them;
\* link: the links the request was given, one or none; seen: those open when it
\* looked its own up; dying: those it has marked used and not committed.
Idle == [pc |-> "idle", op |-> "other", stale |-> FALSE, user |-> Created, base |-> Created,
         link |-> {}, seen |-> {}, dying |-> {}]

Init ==
  /\ row = Created
  /\ sent = {} /\ used = {} /\ expired = {} /\ spent = {} /\ again = {} /\ lost = FALSE
  /\ req = [r \in Request |-> Idle]

-----------------------------------------------------------------------------
(* Recovery links.                                                         *)

Open == sent \ used

\* forgot_password: an administrator may ask too.
ForgotPassword(l) ==
  /\ l \notin sent
  /\ sent' = sent \cup {l}
  /\ UNCHANGED <<row, used, expired, spent, again, lost, req>>

LinkExpires(l) ==
  /\ l \in Open \ expired
  /\ expired' = expired \cup {l}
  /\ UNCHANGED <<row, sent, used, spent, again, lost, req>>

-----------------------------------------------------------------------------
(* The handlers up to users.update.                                        *)

Handle(r, op, u) ==
  /\ req[r].pc = "idle"
  /\ req' = [req EXCEPT ![r] = [Idle EXCEPT !.pc = "update", !.op = op, !.user = u]]
  /\ UNCHANGED <<row, links, lost>>

\* Mutant of ChangePassword: the date is left behind.
ChangePasswordOnly(r, p) ==
  /\ p # row.password
  /\ Handle(r, "change", [row EXCEPT !.password = p, !.mustChange = FALSE])

\* The caller has a session and typed the current password.  The session may
\* have been opened before the temporary password expired.
ChangePassword(r, p) ==
  /\ p # row.password
  /\ Handle(r, "change",
            [row EXCEPT !.password = p, !.mustChange = FALSE, !.deadline = NoDeadline])

\* r has looked a recovery link up, and has still to load the account.
Hold(r, l) ==
  /\ req[r].pc = "idle"
  /\ req' = [req EXCEPT ![r] = [Idle EXCEPT !.pc = "load", !.op = "reset",
                                           !.link = {l}, !.seen = Open]]
  /\ UNCHANGED <<row, links, lost>>

\* Mutant of FindLink: any link that did not expire is good.
FindSentLink(r, l) == l \in sent \ expired /\ Hold(r, l)

\* reset_password: the link is usable.
FindLink(r, l) == l \in Open \ expired /\ Hold(r, l)

\* reset_password loads the account, and replaces only its password.  Its link
\* may have died since it was looked up.
ResetPassword(r, p) ==
  /\ req[r].pc = "load"
  /\ p # row.password
  /\ req' = [req EXCEPT ![r].pc = "update", ![r].user = [row EXCEPT !.password = p],
                        ![r].stale = (req[r].link \cap req[r].seen \cap used # {})]
  /\ UNCHANGED <<row, links, lost>>

\* Mutant of ResetTemporaryPassword: also for whoever has chosen one.
ResetAnyPassword(r, p) ==
  /\ p # row.password
  /\ Handle(r, "temporary", [row EXCEPT !.password = p, !.deadline = p])

\* A superadmin asks, and the owner still owes a password.
ResetTemporaryPassword(r, p) ==
  /\ row.mustChange
  /\ p # row.password
  /\ Handle(r, "temporary", [row EXCEPT !.password = p, !.deadline = p])

\* Any other handler that updates the account: a profile or preferences edit,
\* which a pending change refuses.
UpdateProfile(r) ==
  /\ ~row.mustChange
  /\ Handle(r, "other", row)

-----------------------------------------------------------------------------
(* users.update, the flush, and the end of the transaction.                *)

Reread(r) ==
  /\ req[r].pc = "update"
  /\ req' = [req EXCEPT ![r].pc = "flush", ![r].base = row]
  /\ UNCHANGED <<row, links, lost>>

\* Mutant of MarkedUsed: only the link that was presented dies.
MarkedUsedAlone(r) == req[r].link

\* Mutant of MarkedUsed: nothing is marked.
MarkedUsedNone(r) == {}

\* mark_all_used, which only reset_password calls, after the row: those open
\* when its UPDATE begins.
MarkedUsed(r) == IF req[r].op = "reset" THEN Open ELSE {}

Flush(r) ==
  /\ req[r].pc = "flush"
  /\ \A s \in Request : req[s].pc # "flushed"
  /\ req' = [req EXCEPT ![r].pc = "flushed", ![r].dying = MarkedUsed(r)]
  /\ UNCHANGED <<row, links, lost>>

Written(r) == {c \in Column : req[r].user[c] # req[r].base[c]}

\* A request under way after another one's commit.
Outdated(q, changed) == [q EXCEPT !.stale = q.pc # "idle" /\ (@ \/ changed)]

Commit(r) ==
  /\ req[r].pc = "flushed"
  /\ row' = [c \in Column |-> IF c \in Written(r) THEN req[r].user[c] ELSE row[c]]
  /\ used' = used \cup req[r].dying
  /\ again' = again \cup (req[r].link \cap spent)
  /\ spent' = spent \cup req[r].link
  /\ lost' = (lost \/ req[r].stale)
  /\ req' = [s \in Request |-> IF s = r THEN Idle ELSE
                               Outdated(req[s], <<row, used>>' # <<row, used>>)]
  /\ UNCHANGED <<sent, expired>>

Rollback(r) ==
  /\ req[r].pc # "idle"
  /\ req' = [req EXCEPT ![r] = Idle]
  /\ UNCHANGED <<row, links, lost>>

-----------------------------------------------------------------------------
Arrive(r) ==
  \/ \E p \in Chosen : ChangePassword(r, p)
  \/ \E l \in Link : FindLink(r, l)
  \/ \E p \in Temporary : ResetTemporaryPassword(r, p)
  \/ UpdateProfile(r)

Next ==
  \/ \E l \in Link : ForgotPassword(l) \/ LinkExpires(l)
  \/ \E r \in Request :
       \/ Arrive(r) \/ \E p \in Chosen : ResetPassword(r, p)
       \/ Reread(r) \/ Flush(r) \/ Commit(r) \/ Rollback(r)

Spec == Init /\ [][Next]_vars

-----------------------------------------------------------------------------
(* Properties.                                                             *)

TypeOK ==
  /\ row \in Row
  /\ sent \subseteq Link /\ used \subseteq sent /\ expired \subseteq sent
  /\ spent \subseteq used /\ again \subseteq spent /\ lost \in BOOLEAN
  /\ req \in [Request -> [pc: {"idle", "load", "update", "flush", "flushed"},
                          op: {"change", "reset", "temporary", "other"},
                          stale: BOOLEAN, user: Row, base: Row,
                          link: SUBSET sent, seen: SUBSET sent, dying: SUBSET sent]]

(***************************************************************************)
(* must_change_password is "Raised when the password was not chosen by the *)
(* owner [...] It stays raised until the owner replaces it", and the       *)
(* deadline is "Only set while the flag above is up" (user.py).  So a      *)
(* password of the owner never falls under a deadline.  A recovery link    *)
(* breaks this, with one request at a time: reset_password leaves the flag *)
(* and the date of the temporary password it replaces.                     *)
(***************************************************************************)
OwesItsChoice ==
  /\ row.mustChange <=> row.password \in Temporary
  /\ row.deadline = IF row.mustChange THEN row.password ELSE NoDeadline

(***************************************************************************)
(* Flag, deadline and password agree for as long as no recovery link was   *)
(* used and no update was lost (change_password, reset_temporary_password, *)
(* create_administrator).                                                  *)
(***************************************************************************)
FlagFollowsPassword == spent = {} /\ ~lost => OwesItsChoice

\* A password its owner chose, with nothing owed and no date to meet.
Owned(u) == u.password \in Chosen /\ ~u.mustChange /\ u.deadline = NoDeadline

\* So on the row, and on every account a request has in hand.
AllOwned ==
  /\ Owned(row)
  /\ \A r \in Request : req[r].pc \notin {"idle", "load"} => Owned(req[r].user)

(***************************************************************************)
(* "An account whose owner already chose a password is refused: replacing  *)
(* it would be taking the account away from them" (admins.py,              *)
(* reset_temporary_password).  A request that read the flag before the     *)
(* owner's choice replaces the password all the same, or brings the flag   *)
(* and the date back.  Only such a one: once every request under way has   *)
(* the choice in hand, no reset, recovery link or edit that arrives from   *)
(* then on takes the account away or puts its password under a date again. *)
(***************************************************************************)
OwnerKeepsPassword == [][AllOwned => AllOwned']_vars

\* The requests whose commit this step is, if it changes anything.
Ending == {r \in Request : /\ req[r].pc = "flushed" /\ req'[r].pc = "idle"
                           /\ <<row, links>>' # <<row, links>>}

(***************************************************************************)
(* The emailed tokens "are usable once" (tokens.py): a link changes the    *)
(* password twice only when two requests looked it up before either        *)
(* committed, so that the second commits on a stale account.               *)
(***************************************************************************)
LinkWorksOnce == lost \/ again = {}

(***************************************************************************)
(* Once a reset commits, no link that was open when it began is a way in,  *)
(* however it overlaps with other resets and with links being asked for    *)
(* (password_reset.py: "The consumed link dies, and so does every other    *)
(* open link of this account").                                            *)
(***************************************************************************)
LinksDieTogether ==
  [][\A r \in Ending : req[r].op = "reset" => req[r].seen \subseteq used']_vars
=============================================================================
