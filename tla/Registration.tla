----------------------------- MODULE Registration -----------------------------
(***************************************************************************)
(* How accounts come to exist and get verified.                            *)
(*                                                                         *)
(* Three doors add a row to users: register, create_administrator and the  *)
(* superadmin seed that runs on every deploy.  Each one looks for the      *)
(* email (and, but for the seed, the handle) and then inserts; nothing is  *)
(* locked in between, so the two unique indexes decide.  An INSERT that    *)
(* meets the entry of a transaction still open waits for its end; one that *)
(* meets a committed entry raises IntegrityError, which no handler expects.*)
(*                                                                         *)
(* A registered account is verified by opening an emailed link.  Links are *)
(* told apart only by their state: links[a] is the set of states that some *)
(* link of the account is in.  What other requests write to the row is in  *)
(* AccountRow; here they suspend, release, and write back what they had    *)
(* loaded before a link was opened.                                        *)
(***************************************************************************)
CONSTANTS Attempt,       \* attempts to create an account; their rows' ids
          Email,         \* emails as typed
          Handle,        \* handles as typed
          Lower,         \* strip and lower, of what was typed
          Institution,   \* emails of administrator_email_domain
          SeedEmail,     \* SUPERADMIN_EMAIL
          SeedHandle,    \* SUPERADMIN_HANDLE
          Followed       \* bound: the accounts whose verification is followed

ASSUME RegistrationAssumption ==
  /\ Lower \in [Email \cup Handle -> Email \cup Handle]
  /\ \A x \in Email : Lower[x] \in Email /\ Lower[Lower[x]] = Lower[x]
  /\ \A x \in Handle : Lower[x] \in Handle /\ Lower[Lower[x]] = Lower[x]
  /\ SeedEmail \in Email /\ SeedHandle \in Handle
  /\ Followed \subseteq Attempt

VARIABLES
  attempt,    \* where each attempt is, and the row it inserts
  row,        \* the columns of the account that change afterwards
  links,      \* the states its verification links are in
  announced,  \* the outbox events and audit entries about it
  asking,     \* accounts a resend_verification has found unverified
  opening     \* accounts a verify_email has found a usable link of

vars == <<attempt, row, links, announced, asking, opening>>

Door == {"register", "admin", "seed"}

\* new: nothing yet (or an answer was given and nothing was left behind);
\* email, handle: the index entry that is inserted next; inserted: flushed;
\* conflict: IntegrityError; done: committed.  overlapped: an attempt with
\* the same email or handle has committed since this one looked.
Blank == [pc |-> "new", door |-> "register", email |-> Lower[SeedEmail],
          handle |-> Lower[SeedHandle], overlapped |-> FALSE]

\* canLogIn: status is active.
Row == [verified: BOOLEAN, canLogIn: BOOLEAN]
Unverified == [verified |-> FALSE, canLogIn |-> TRUE]

Init ==
  /\ attempt = [a \in Attempt |-> Blank]
  /\ row = [a \in Attempt |-> Unverified]
  /\ links = [a \in Attempt |-> {}]
  /\ announced = [a \in Attempt |-> {}]
  /\ asking = {}
  /\ opening = {}

Exists(a) == attempt[a].pc = "done"

-----------------------------------------------------------------------------
(* The three doors.                                                        *)

\* Mutant of Normalised: what was typed is stored as it is.
AsTyped(x) == x

Normalised(x) == Lower[x]

\* Mutant of Taken: only the email is looked for.
EmailTaken(email, handle) == \E b \in Attempt : Exists(b) /\ attempt[b].email = email

\* exists_with_email_or_handle.
Taken(email, handle) ==
  \E b \in Attempt : Exists(b) /\ (attempt[b].email = email \/ attempt[b].handle = handle)

\* The look-up found nothing (otherwise the answer is a 409, or the seed has
\* nothing to do): the row is about to be inserted.
Proceed(a, door, email, handle) ==
  /\ attempt[a].pc = "new"
  /\ attempt' = [attempt EXCEPT ![a] = [pc |-> "email", door |-> door, email |-> email,
                                        handle |-> handle, overlapped |-> FALSE]]
  /\ UNCHANGED <<row, links, announced, asking, opening>>

Register(a, email, handle) ==
  /\ ~Taken(Normalised(email), Normalised(handle))
  /\ Proceed(a, "register", Normalised(email), Normalised(handle))

CreateAdministrator(a, email, handle) ==
  /\ Normalised(email) \in Institution
  /\ ~Taken(Normalised(email), Normalised(handle))
  /\ Proceed(a, "admin", Normalised(email), Normalised(handle))

\* ensure_superadmin looks for the address alone.
Seed(a) ==
  /\ \A b \in Attempt : Exists(b) => attempt[b].email # Normalised(SeedEmail)
  /\ Proceed(a, "seed", Normalised(SeedEmail), Normalised(SeedHandle))

\* The entries of a transaction that is open, or committed.
HoldsEmail(b) == attempt[b].pc \in {"handle", "inserted", "done"}
HoldsHandle(b) == attempt[b].pc \in {"inserted", "done"}

\* The entry in ix_users_email: waits for an open transaction with the same
\* email, fails on a committed one.
InsertEmail(a) ==
  LET Same == {b \in Attempt \ {a} : HoldsEmail(b) /\ attempt[b].email = attempt[a].email}
  IN  /\ attempt[a].pc = "email"
      /\ \A b \in Same : Exists(b)
      /\ attempt' = [attempt EXCEPT ![a].pc = IF Same = {} THEN "handle" ELSE "conflict"]
      /\ UNCHANGED <<row, links, announced, asking, opening>>

\* The entry in ix_users_handle, created after the other.
InsertHandle(a) ==
  LET Same == {b \in Attempt \ {a} : HoldsHandle(b) /\ attempt[b].handle = attempt[a].handle}
  IN  /\ attempt[a].pc = "handle"
      /\ \A b \in Same : Exists(b)
      /\ attempt' = [attempt EXCEPT ![a].pc = IF Same = {} THEN "inserted" ELSE "conflict"]
      /\ UNCHANGED <<row, links, announced, asking, opening>>

\* What the door adds to the transaction of the row.
Announces(door) ==
  CASE door = "register" -> {"user.registered"}
    [] door = "admin"    -> {"admin.created"}
    [] OTHER             -> {}

\* Only who registers has to open a link.
NewRow(door) == [verified |-> door # "register", canLogIn |-> TRUE]

\* The attempts after the commit of a.
AfterCommit(a) ==
  LET Rival(b) == \/ attempt[b].email = attempt[a].email
                  \/ attempt[b].handle = attempt[a].handle
  IN  [b \in Attempt |->
         IF b = a THEN [attempt[a] EXCEPT !.pc = "done", !.overlapped = FALSE]
         ELSE [attempt[b] EXCEPT !.overlapped =
                 @ \/ (attempt[b].pc \in {"email", "handle"} /\ Rival(b))]]

\* Mutant of Create: the repository commits the account on its own, and the
\* link and the event are written afterwards or never.
CreateRowOnly(a) ==
  /\ attempt[a].pc = "inserted"
  /\ attempt' = AfterCommit(a)
  /\ row' = [row EXCEPT ![a] = NewRow(attempt[a].door)]
  /\ UNCHANGED <<links, announced, asking, opening>>

\* The commit: the account with its link, its event or its audit entry.
Create(a) ==
  /\ attempt[a].pc = "inserted"
  /\ attempt' = AfterCommit(a)
  /\ row' = [row EXCEPT ![a] = NewRow(attempt[a].door)]
  /\ links' = [links EXCEPT ![a] = IF attempt[a].door = "register" THEN {"fresh"} ELSE {}]
  /\ announced' = [announced EXCEPT ![a] = Announces(attempt[a].door)]
  /\ UNCHANGED <<asking, opening>>

\* A conflict is answered with a 500; a crash or any other exception before
\* the commit leaves nothing either.
Abandon(a) ==
  /\ attempt[a].pc \in {"email", "handle", "inserted", "conflict"}
  /\ attempt' = [attempt EXCEPT ![a] = Blank]
  /\ UNCHANGED <<row, links, announced, asking, opening>>

-----------------------------------------------------------------------------
(* Verification.                                                           *)

\* verify_email with a link that was not used and has not expired.  A link
\* already used is answered as it was the first time, or refused when the
\* account is not verified; an expired one is refused.
OpenLink(a) ==
  /\ "fresh" \in links[a]
  /\ opening' = opening \cup {a}
  /\ UNCHANGED <<attempt, row, links, announced, asking>>

\* Its commit, whether or not the link has expired or been used meanwhile: it
\* is used up, and other links of the account may still be fresh.
VerifyEmail(a) ==
  /\ a \in opening
  /\ row' = [row EXCEPT ![a].verified = TRUE]
  /\ links' \in {[links EXCEPT ![a] = S] : S \in {links[a] \cup {"used"},
                                                (links[a] \ {"fresh"}) \cup {"used"}}}
  /\ opening' = opening \ {a}
  /\ UNCHANGED <<attempt, announced, asking>>

\* Mutant of AskForLink: one link per account is thought enough.
AskIfNone(a) ==
  /\ Exists(a)
  /\ ~row[a].verified /\ row[a].canLogIn /\ links[a] \cap {"fresh", "expired"} = {}
  /\ asking' = asking \cup {a}
  /\ UNCHANGED <<attempt, row, links, announced, opening>>

\* Mutant of AskForLink: the address is not looked up.
AskForAnyone(a) ==
  /\ ~row[a].verified /\ row[a].canLogIn
  /\ asking' = asking \cup {a}
  /\ UNCHANGED <<attempt, row, links, announced, opening>>

\* resend_verification does nothing for an account that is verified or may
\* not be used.
AskForLink(a) ==
  /\ Exists(a)
  /\ ~row[a].verified /\ row[a].canLogIn
  /\ asking' = asking \cup {a}
  /\ UNCHANGED <<attempt, row, links, announced, opening>>

\* Its commit: the link, in an email_verification.requested.
ResendVerification(a) ==
  /\ a \in asking
  /\ links' = [links EXCEPT ![a] = @ \cup {"fresh"}]
  /\ asking' = asking \ {a}
  /\ UNCHANGED <<attempt, row, announced, opening>>

\* Either of them fails before its commit.
Fail(a) ==
  /\ a \in asking \cup opening
  /\ \/ asking' = asking \ {a} /\ UNCHANGED opening
     \/ opening' = opening \ {a} /\ UNCHANGED asking
  /\ UNCHANGED <<attempt, row, links, announced>>

\* A fresh link passes its expires_at; others of the account may be fresh.
Expire(a) ==
  /\ "fresh" \in links[a]
  /\ links' \in {[links EXCEPT ![a] = S] : S \in {links[a] \cup {"expired"},
                                                (links[a] \ {"fresh"}) \cup {"expired"}}}
  /\ UNCHANGED <<attempt, row, announced, asking, opening>>

\* block, put_under_review and lift_review; block alone asks for the role.
ChangeStatus(a) ==
  /\ Exists(a)
  /\ row' = [row EXCEPT ![a].canLogIn = ~@]
  /\ UNCHANGED <<attempt, links, announced, asking, opening>>

\* A request that loaded the account before it was verified saves it whole.
SaveUnverified(a) ==
  /\ Exists(a) /\ attempt[a].door = "register"
  /\ row' = [row EXCEPT ![a].verified = FALSE]
  /\ UNCHANGED <<attempt, links, announced, asking, opening>>

-----------------------------------------------------------------------------
Enter(a) ==
  \/ \E email \in Email, handle \in Handle :
       Register(a, email, handle) \/ CreateAdministrator(a, email, handle)
  \/ Seed(a)

Insert(a) == InsertEmail(a) \/ InsertHandle(a) \/ Create(a)

Verify(a) == OpenLink(a) \/ VerifyEmail(a) \/ AskForLink(a) \/ ResendVerification(a)

Next ==
  \/ \E a \in Attempt : Enter(a) \/ Insert(a) \/ Abandon(a)
  \/ \E a \in Followed : \/ Verify(a) \/ Fail(a) \/ Expire(a)
                         \/ ChangeStatus(a) \/ SaveUnverified(a)

\* The owner of an account insists: asks for a link again and again, opens
\* those that come, and not every such request fails.
Insists(a) == /\ SF_vars(AskForLink(a)) /\ SF_vars(ResendVerification(a))
              /\ SF_vars(OpenLink(a)) /\ SF_vars(VerifyEmail(a))

Spec == Init /\ [][Next]_vars /\ \A a \in Followed : Insists(a)

-----------------------------------------------------------------------------
(* Properties.                                                             *)

TypeOK ==
  /\ attempt \in [Attempt -> [pc: {"new", "email", "handle", "inserted", "conflict", "done"},
                              door: Door, email: Email, handle: Handle, overlapped: BOOLEAN]]
  /\ row \in [Attempt -> Row]
  /\ links \in [Attempt -> SUBSET {"fresh", "used", "expired"}]
  /\ announced \in [Attempt -> SUBSET {"user.registered", "admin.created"}]
  /\ asking \cup opening \subseteq {a \in Attempt : Exists(a)}

(***************************************************************************)
(* "Uniqueness is case-insensitive" (0001_esquema_actual.py, models.py):   *)
(* whichever doors two accounts came through, at the same time or not, no  *)
(* two share an email or a handle up to case.                              *)
(***************************************************************************)
UniqueKeys ==
  \A a, b \in Attempt : a # b /\ Exists(a) /\ Exists(b) =>
    /\ Lower[attempt[a].email] # Lower[attempt[b].email]
    /\ Lower[attempt[a].handle] # Lower[attempt[b].handle]

(***************************************************************************)
(* "the account and its verification link have to land together or not at  *)
(* all" (user_repository.py), and with them the event, or the audit entry  *)
(* of an administrator; an attempt that failed left no event and no link.  *)
(***************************************************************************)
BornWhole ==
  \A a \in Attempt :
    /\ "user.registered" \in announced[a] <=> Exists(a) /\ attempt[a].door = "register"
    /\ "admin.created" \in announced[a] <=> Exists(a) /\ attempt[a].door = "admin"
    /\ links[a] # {} <=> Exists(a) /\ attempt[a].door = "register"

(***************************************************************************)
(* The answer to a taken email or handle is the 409 of the look-up.  The   *)
(* IntegrityError of the indexes, which nothing handles, needs a rival     *)
(* that committed since the look-up, or the seed with the handle of an     *)
(* account that has another address.                                       *)
(***************************************************************************)
ConflictNeedsOverlap ==
  \A a \in Attempt : attempt[a].pc = "conflict" =>
    \/ attempt[a].overlapped
    \/ /\ attempt[a].door = "seed"
       /\ \E b \in Attempt : /\ Exists(b) /\ attempt[b].handle = attempt[a].handle
                             /\ attempt[b].email # attempt[a].email

(***************************************************************************)
(* An account that is not verified, whatever became of its links (never    *)
(* opened, expired, or used and the verification overwritten), is verified *)
(* in the end if its owner insists, unless it is suspended or put under    *)
(* review.                                                                 *)
(***************************************************************************)
WayIn ==
  \A a \in Followed :
    Exists(a) /\ ~row[a].verified /\ row[a].canLogIn ~> row[a].verified \/ ~row[a].canLogIn
=============================================================================
