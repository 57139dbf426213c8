------------------------------ MODULE AccountRow ------------------------------
(***************************************************************************)
(* One row of the users table, of an app account, and the requests that    *)
(* change it: block, put_under_review, lift_review, delete_account,        *)
(* verify_email, update_profile and update_preferences.                    *)
(*                                                                         *)
(* A handler loads the row into a User, decides on it and changes it, and  *)
(* hands it to SqlAlchemyUserRepository.update.  `update` reads the row    *)
(* again (nothing keeps the first one alive in the session), assigns every *)
(* column, and the flush writes the columns where the User differs from    *)
(* what was just read.  There is no version column and no FOR UPDATE:      *)
(* whatever another request committed after the load is overwritten.       *)
(*                                                                         *)
(* The refresh tokens and the cutoff that block, put_under_review and      *)
(* delete_account also write are the SignOut of RefreshTokens.             *)
(***************************************************************************)
CONSTANTS Request,    \* requests about the account being served at a time
          Reason,     \* reasons an administrator may give
          Language,   \* feed languages
          NoReason,   \* status_reason is NULL
          AllLanguages  \* FeedLanguage.ALL, the default

ASSUME AccountAssumption ==
  /\ NoReason \notin Reason
  /\ AllLanguages \in Language

VARIABLES
  row,       \* the committed row
  req,       \* the requests: what they do, their User, and update's reading
  emitted,   \* audit entries and user events committed so far, by kind
  lost       \* whether a stale request has committed

vars == <<row, req, emitted, lost>>

Status == {"active", "suspended", "under_review"}
Column == {"status", "reason", "deleted", "verified", "language"}

Row == [status: Status, reason: Reason \cup {NoReason}, deleted: BOOLEAN,
        verified: BOOLEAN, language: Language]

\* What `register` inserts.
Registered == [status |-> "active", reason |-> NoReason, deleted |-> FALSE,
               verified |-> FALSE, language |-> AllLanguages]

Op == {"block", "review", "lift", "delete", "verify", "profile", "language"}

\* stale: the row has been changed since the request loaded it.
Idle == [pc |-> "idle", op |-> "profile", stale |-> FALSE, user |-> Registered,
         base |-> Registered]

Init ==
  /\ row = Registered
  /\ req = [r \in Request |-> Idle]
  /\ emitted = {}
  /\ lost = FALSE

-----------------------------------------------------------------------------
(* The domain object.                                                      *)

CanLogIn(u) == u.status = "active" /\ ~u.deleted

\* Mutant of ChangeStatus: the two columns swapped.
SwapColumns(u, status, reason) == [u EXCEPT !.status = reason, !.reason = status]

\* Mutant of ChangeStatus: the reason of an earlier status is kept.
KeepReason(u, status, reason) == [u EXCEPT !.status = status]

ChangeStatus(u, status, reason) == [u EXCEPT !.status = status, !.reason = reason]

\* get_current_user: the routes under /me.  The session it also asks for is
\* that of AccountSessions; here the owner always has one.
OwnerMayAct(u) == CanLogIn(u)

-----------------------------------------------------------------------------
(* The handlers up to users.update: load, early returns, change.  A handler *)
(* that returns early, or refuses, leaves everything as it was.             *)

\* r has loaded the row, and its User is now u.
Handle(r, op, u) ==
  /\ req[r].pc = "idle"
  /\ req' = [req EXCEPT ![r] = [Idle EXCEPT !.pc = "update", !.op = op, !.user = u]]
  /\ UNCHANGED <<row, emitted, lost>>

\* Mutant of Block: a second administrator replaces the reason of the first.
BlockAgain(r, reason) ==
  /\ ~row.deleted
  /\ Handle(r, "block", ChangeStatus(row, "suspended", reason))

\* An account under review is blocked too; one already blocked is left alone.
Block(r, reason) ==
  /\ ~row.deleted
  /\ row.status # "suspended"
  /\ Handle(r, "block", ChangeStatus(row, "suspended", reason))

PutUnderReview(r) ==
  /\ row.status = "active"
  /\ Handle(r, "review", ChangeStatus(row, "under_review", NoReason))

LiftReview(r) ==
  /\ row.status = "under_review"
  /\ Handle(r, "lift", ChangeStatus(row, "active", NoReason))

\* The current password was right.
DeleteAccount(r) ==
  /\ OwnerMayAct(row)
  /\ Handle(r, "delete", [row EXCEPT !.deleted = TRUE])

\* The link is usable, whatever became of the account since it was sent.
VerifyEmail(r) ==
  Handle(r, "verify", [row EXCEPT !.verified = TRUE])

\* display_name and bio are abstracted: no other column changes.
UpdateProfile(r) ==
  /\ OwnerMayAct(row)
  /\ Handle(r, "profile", row)

\* A feed_language that really changes; otherwise the request is like
\* UpdateProfile.
UpdatePreferences(r, l) ==
  /\ OwnerMayAct(row)
  /\ l # row.language
  /\ Handle(r, "language", [row EXCEPT !.language = l])

-----------------------------------------------------------------------------
(* users.update, the flush and the end of the transaction.                 *)

\* `update` reads the row again.
Reread(r) ==
  /\ req[r].pc = "update"
  /\ req' = [req EXCEPT ![r].pc = "flush", ![r].base = row]
  /\ UNCHANGED <<row, emitted, lost>>

\* The UPDATE takes the row lock, waiting for whoever holds it.
Flush(r) ==
  /\ req[r].pc = "flush"
  /\ \A s \in Request : req[s].pc # "flushed"
  /\ req' = [req EXCEPT ![r].pc = "flushed"]
  /\ UNCHANGED <<row, emitted, lost>>

\* The columns the flush writes: those assigned a value other than the one
\* that was read.
Written(r) == {c \in Column : req[r].user[c] # req[r].base[c]}

\* What the operation adds to the transaction besides the row.
Emits(op) ==
  CASE op = "block"    -> {"user.blocked"}
    [] op = "delete"   -> {"user.deleted"}
    [] op = "language" -> {"preferences.changed"}
    [] OTHER           -> {}

\* A request under way after another one's commit.
Outdated(q, changed) == [q EXCEPT !.stale = q.pc # "idle" /\ (@ \/ changed)]

\* Mutant of Commit: the event and the audit entry wait for a transaction of
\* their own, which a crash may prevent.
CommitRowOnly(r) ==
  /\ req[r].pc = "flushed"
  /\ row' = [c \in Column |-> IF c \in Written(r) THEN req[r].user[c] ELSE row[c]]
  /\ lost' = (lost \/ req[r].stale)
  /\ req' = [s \in Request |-> IF s = r THEN Idle ELSE Outdated(req[s], row' # row)]
  /\ UNCHANGED emitted

Commit(r) ==
  /\ req[r].pc = "flushed"
  /\ row' = [c \in Column |-> IF c \in Written(r) THEN req[r].user[c] ELSE row[c]]
  /\ emitted' = emitted \cup Emits(req[r].op)
  /\ lost' = (lost \/ req[r].stale)
  /\ req' = [s \in Request |-> IF s = r THEN Idle ELSE Outdated(req[s], row' # row)]

\* An exception after the load (Redis cannot take the cutoff, for one), or a
\* crash.
Rollback(r) ==
  /\ req[r].pc # "idle"
  /\ req' = [req EXCEPT ![r] = Idle]
  /\ UNCHANGED <<row, emitted, lost>>

-----------------------------------------------------------------------------
Arrive(r) ==
  \/ \E reason \in Reason : Block(r, reason)
  \/ PutUnderReview(r) \/ LiftReview(r)
  \/ DeleteAccount(r) \/ VerifyEmail(r) \/ UpdateProfile(r)
  \/ \E l \in Language : UpdatePreferences(r, l)

Step(r) == Reread(r) \/ Flush(r) \/ Commit(r)

Next == \E r \in Request : Arrive(r) \/ Step(r) \/ Rollback(r)

Spec == Init /\ [][Next]_vars

-----------------------------------------------------------------------------
(* Properties.                                                             *)

TypeOK ==
  /\ row \in Row
  /\ req \in [Request -> [pc: {"idle", "update", "flush", "flushed"}, op: Op,
                          stale: BOOLEAN, user: Row, base: Row]]
  /\ emitted \subseteq {"user.blocked", "user.deleted", "preferences.changed"}
  /\ lost \in BOOLEAN

(***************************************************************************)
(* A suspended account has the administrator's entry in the audit log, a   *)
(* closed one its user.deleted event and a language other than the default *)
(* its preferences.changed, however the requests overlap and wherever they *)
(* fail: each is written in the transaction of the change                  *)
(* (account_block.py, preferences.py, account_deletion.py: "the account is *)
(* never closed without its event").                                       *)
(***************************************************************************)
NothingSilent ==
  /\ row.status = "suspended" => "user.blocked" \in emitted
  /\ row.deleted => "user.deleted" \in emitted
  /\ row.language # AllLanguages => "preferences.changed" \in emitted

\* The row, and every account a request has in hand, is suspended for `reason`.
AllSuspended(reason) ==
  /\ row.status = "suspended" /\ row.reason = reason
  /\ \A r \in Request : req[r].pc # "idle" =>
       req[r].user.status = "suspended" /\ req[r].user.reason = reason

\* The row, and every account a request has in hand, is closed.
AllClosed ==
  /\ row.deleted
  /\ \A r \in Request : req[r].pc # "idle" => req[r].user.deleted

(***************************************************************************)
(* "a suspended one keeps what an administrator decided for it"            *)
(* (account_review.py, lift_review), with the reason it was blocked for    *)
(* ("a second administrator does not replace the reason", account_block.py)*)
(* and a closing is final (account_deletion.py).  A request that loaded    *)
(* the account before the decision may write its old columns over it       *)
(* (user_repository.py, update).  Only such a one: once the requests under *)
(* way all have the decision in hand, no block, review, lift, closing,     *)
(* verification or edit that arrives from then on, overlapping as they     *)
(* may, takes it back, also where an update was lost before.               *)
(***************************************************************************)
DecisionsStand ==
  [][/\ \A reason \in Reason : AllSuspended(reason) => AllSuspended(reason)'
     /\ AllClosed => AllClosed']_vars

(***************************************************************************)
(* "a reason never outlives the status it explains" (user.py,              *)
(* change_status), and a suspension never lacks one, until an update is    *)
(* lost: the flush of a stale request may write the status alone over      *)
(* another's status and reason.                                            *)
(***************************************************************************)
ReasonExplains == lost \/ (row.reason # NoReason <=> row.status = "suspended")
=============================================================================
