-------------------------- MODULE AccountRowProofs --------------------------
(***************************************************************************)
(* Proofs about AccountRow, for any number of requests, reasons and        *)
(* languages.                                                              *)
(*                                                                         *)
(* That nothing is silent does not follow from the row and the log alone:  *)
(* a request that is no block may carry a suspended User for as long as it *)
(* takes.  Accounted says that whatever a request carries was announced    *)
(* when it loaded it, or is announced by its own commit.                   *)
(*                                                                         *)
(* A reason explains its status because a request whose row nobody changed *)
(* since it was loaded still carries that row but for its own columns      *)
(* (Fresh): its flush then replaces the row by its User.  That a decision  *)
(* stands needs neither: a flush leaves each column as it was or as the    *)
(* User has it, and every handler refuses what a decision excludes.        *)
(***************************************************************************)
EXTENDS AccountRow, TLAPS

Accounted ==
  \A r \in Request : req[r].pc # "idle" =>
    /\ req[r].user["status"] = "suspended" => req[r].op = "block" \/ "user.blocked" \in emitted
    /\ req[r].user["deleted"] = TRUE => req[r].op = "delete" \/ "user.deleted" \in emitted
    /\ req[r].user["language"] # AllLanguages =>
         req[r].op = "language" \/ "preferences.changed" \in emitted

Inv == TypeOK /\ Accounted /\ NothingSilent

\* A record of the five columns is a row.
LEMMA RowOfColumns ==
  ASSUME NEW u, u = [c \in Column |-> u[c]], u["status"] \in Status,
         u["reason"] \in Reason \cup {NoReason}, u["deleted"] \in BOOLEAN,
         u["verified"] \in BOOLEAN, u["language"] \in Language
  PROVE  u \in Row
  BY DEF Row, Column

\* The types of what a request carries.
Req == [pc: {"idle", "update", "flush", "flushed"}, op: Op, stale: BOOLEAN, user: Row, base: Row]

\* The row `register` inserts, and an idle request.
LEMMA InitialTypes == Registered \in Row /\ Idle \in Req
<1>1. Registered \in Row
  BY AccountAssumption DEF Registered, Row, Status
<1> QED
  BY <1>1 DEF Idle, Req, Op

\* A handler loads an account and changes it: what it carries is as on the row,
\* or its own doing.
LEMMA HandleKeeps ==
  ASSUME Inv, NEW r \in Request, NEW op \in Op, NEW u \in Row, Handle(r, op, u),
         u.status = "suspended" => op = "block" \/ row.status = "suspended",
         u.deleted => op = "delete" \/ row.deleted,
         u.language # AllLanguages => op = "language" \/ row.language # AllLanguages
  PROVE  Inv'
<1> DEFINE q == [Idle EXCEPT !.pc = "update", !.op = op, !.user = u]
<1>1. req' = [req EXCEPT ![r] = q] /\ UNCHANGED <<row, emitted, lost>>
  BY DEF Handle
<1>2. q \in Req
  BY InitialTypes DEF Req
<1>3. q.user = u /\ q.op = op
  BY DEF Idle
<1> HIDE DEF q
<1>4. req \in [Request -> Req]
  BY DEF Inv, TypeOK, Req
<1>5. TypeOK'
  <2>1. req' \in [Request -> Req]
    BY <1>1, <1>2, <1>4
  <2> QED
    BY <1>1, <2>1 DEF Inv, TypeOK, Req
<1>6. NothingSilent'
  BY <1>1 DEF Inv, NothingSilent
<1>7. Accounted'
  <2> SUFFICES ASSUME NEW s \in Request, req'[s].pc # "idle"
               PROVE  /\ req'[s].user["status"] = "suspended" =>
                           req'[s].op = "block" \/ "user.blocked" \in emitted'
                      /\ req'[s].user["deleted"] = TRUE =>
                           req'[s].op = "delete" \/ "user.deleted" \in emitted'
                      /\ req'[s].user["language"] # AllLanguages =>
                           req'[s].op = "language" \/ "preferences.changed" \in emitted'
    BY DEF Accounted
  <2>1. CASE s = r
    BY <1>1, <1>3, <1>4, <2>1 DEF Inv, NothingSilent
  <2>2. CASE s # r
    BY <1>1, <1>4, <2>2 DEF Inv, Accounted
  <2> QED
    BY <2>1, <2>2
<1> QED
  BY <1>5, <1>6, <1>7 DEF Inv

\* The arrivals: each handler carries an account it may carry.
LEMMA ArriveKeeps == ASSUME Inv, NEW r \in Request, Arrive(r) PROVE Inv'
<1>0. row \in Row
  BY DEF Inv, TypeOK
<1> DEFINE Carries(op, u) == /\ op \in Op /\ u \in Row /\ Handle(r, op, u)
                             /\ u.status = "suspended" => op = "block" \/ row.status = "suspended"
                             /\ u.deleted => op = "delete" \/ row.deleted
                             /\ u.language # AllLanguages =>
                                  op = "language" \/ row.language # AllLanguages
<1>1. ASSUME NEW op, NEW u, Carries(op, u) PROVE Inv'
  BY <1>1, HandleKeeps
<1>2. ASSUME NEW reason \in Reason, Block(r, reason) PROVE Inv'
  <2>1. Carries("block", ChangeStatus(row, "suspended", reason))
    BY <1>0, <1>2 DEF Block, ChangeStatus, Row, Status, Op
  <2> QED
    BY <1>1, <2>1
<1>3. ASSUME PutUnderReview(r) PROVE Inv'
  <2>1. Carries("review", ChangeStatus(row, "under_review", NoReason))
    BY <1>0, <1>3 DEF PutUnderReview, ChangeStatus, Row, Status, Op
  <2> QED
    BY <1>1, <2>1
<1>4. ASSUME LiftReview(r) PROVE Inv'
  <2>1. Carries("lift", ChangeStatus(row, "active", NoReason))
    BY <1>0, <1>4 DEF LiftReview, ChangeStatus, Row, Status, Op
  <2> QED
    BY <1>1, <2>1
<1>5. ASSUME DeleteAccount(r) PROVE Inv'
  <2>1. Carries("delete", [row EXCEPT !.deleted = TRUE])
    BY <1>0, <1>5 DEF DeleteAccount, Row, Op
  <2> QED
    BY <1>1, <2>1
<1>6. ASSUME VerifyEmail(r) PROVE Inv'
  <2>1. Carries("verify", [row EXCEPT !.verified = TRUE])
    BY <1>0, <1>6 DEF VerifyEmail, Row, Op
  <2> QED
    BY <1>1, <2>1
<1>7. ASSUME UpdateProfile(r) PROVE Inv'
  <2>1. Carries("profile", row)
    BY <1>0, <1>7 DEF UpdateProfile, Op
  <2> QED
    BY <1>1, <2>1
<1>8. ASSUME NEW l \in Language, UpdatePreferences(r, l) PROVE Inv'
  <2>1. Carries("language", [row EXCEPT !.language = l])
    BY <1>0, <1>8 DEF UpdatePreferences, Row, Op
  <2> QED
    BY <1>1, <2>1
<1> QED
  BY <1>2, <1>3, <1>4, <1>5, <1>6, <1>7, <1>8 DEF Arrive

\* update's second reading and the wait for the row lock.
LEMMA WaitKeeps == ASSUME Inv, NEW r \in Request, Reread(r) \/ Flush(r) PROVE Inv'
<1>0. req \in [Request -> Req] /\ row \in Row
  BY DEF Inv, TypeOK, Req
<1>1. /\ UNCHANGED <<row, emitted, lost>>
      /\ req[r].pc \in {"update", "flush"}
      /\ \E q \in Req : /\ req' = [req EXCEPT ![r] = q]
                        /\ q.user = req[r].user /\ q.op = req[r].op
  <2>1. CASE Reread(r)
    <3> DEFINE q == [req[r] EXCEPT !.pc = "flush", !.base = row]
    <3>1. req' = [req EXCEPT ![r] = q]
      BY <1>0, <2>1 DEF Reread
    <3>2. q \in Req /\ q.user = req[r].user /\ q.op = req[r].op
      BY <1>0 DEF Req
    <3> HIDE DEF q
    <3> QED
      BY <2>1, <3>1, <3>2 DEF Reread
  <2>2. CASE Flush(r)
    <3> DEFINE q == [req[r] EXCEPT !.pc = "flushed"]
    <3>1. req' = [req EXCEPT ![r] = q]
      BY <1>0, <2>2 DEF Flush
    <3>2. q \in Req /\ q.user = req[r].user /\ q.op = req[r].op
      BY <1>0 DEF Req
    <3> HIDE DEF q
    <3> QED
      BY <2>2, <3>1, <3>2 DEF Flush
  <2> QED
    BY <2>1, <2>2
<1>2. req' \in [Request -> Req]
  BY <1>0, <1>1
<1>3. \A s \in Request : /\ req'[s].user = req[s].user /\ req'[s].op = req[s].op
                         /\ req'[s].pc # "idle" => req[s].pc # "idle"
  BY <1>0, <1>1
<1>4. TypeOK'
  BY <1>1, <1>2 DEF Inv, TypeOK, Req
<1>5. Accounted' /\ NothingSilent'
  BY <1>1, <1>3 DEF Inv, Accounted, NothingSilent
<1> QED
  BY <1>4, <1>5 DEF Inv

\* A request fails: what it carried is forgotten.
LEMMA RollbackKeeps == ASSUME Inv, NEW r \in Request, Rollback(r) PROVE Inv'
<1>0. req \in [Request -> Req]
  BY DEF Inv, TypeOK, Req
<1>1. req' = [req EXCEPT ![r] = Idle] /\ UNCHANGED <<row, emitted, lost>>
  BY DEF Rollback
<1>2. \A s \in Request \ {r} : req'[s] = req[s]
  BY <1>0, <1>1
<1>3. TypeOK'
  <2>1. req' \in [Request -> Req]
    BY <1>0, <1>1, InitialTypes
  <2> QED
    BY <1>1, <2>1 DEF Inv, TypeOK, Req
<1>4. Accounted' /\ NothingSilent'
  BY <1>0, <1>1, <1>2 DEF Inv, Accounted, NothingSilent, Idle
<1> QED
  BY <1>3, <1>4 DEF Inv

\* The commit writes columns of the User over the row, and announces with it.
LEMMA CommitKeeps == ASSUME Inv, NEW r \in Request, Commit(r) PROVE Inv'
<1>0. req \in [Request -> Req] /\ row \in Row /\ req[r].user \in Row /\ req[r].pc # "idle"
  BY DEF Inv, TypeOK, Req, Commit
<1>1. /\ row' = [c \in Column |-> IF c \in Written(r) THEN req[r].user[c] ELSE row[c]]
      /\ emitted' = emitted \cup Emits(req[r].op)
      /\ lost' = (lost \/ req[r].stale)
      /\ req' = [s \in Request |-> IF s = r THEN Idle ELSE Outdated(req[s], row' # row)]
  BY DEF Commit
<1>2. \A c \in Column : row'[c] = req[r].user[c] \/ row'[c] = row[c]
  BY <1>1
<1>3. row' \in Row
  <2>1. row' = [c \in Column |-> row'[c]]
    BY <1>1
  <2>2. /\ row'["status"] \in Status /\ row'["reason"] \in Reason \cup {NoReason}
        /\ row'["language"] \in Language
    BY <1>0, <1>2 DEF Row, Column
  <2>3. row'["deleted"] \in BOOLEAN /\ row'["verified"] \in BOOLEAN
    BY <1>0, <1>2 DEF Row, Column
  <2> QED
    BY <2>1, <2>2, <2>3, RowOfColumns
<1>4. \A s \in Request \ {r} : /\ req'[s] \in Req /\ req'[s].pc = req[s].pc
                               /\ req'[s].op = req[s].op /\ req'[s].user = req[s].user
  <2> TAKE s \in Request \ {r}
  <2> DEFINE stale == req[s].pc # "idle" /\ (req[s].stale \/ row' # row)
  <2>1. req'[s] = [req[s] EXCEPT !.stale = stale]
    BY <1>1 DEF Outdated
  <2>2. req[s] \in Req /\ stale \in BOOLEAN
    BY <1>0 DEF Req
  <2> HIDE DEF stale
  <2> QED
    BY <2>1, <2>2 DEF Req
<1>5. req'[r] = Idle
  BY <1>1
<1>6. req' \in [Request -> Req]
  BY <1>1, <1>4, <1>5, InitialTypes
<1>7. TypeOK'
  <2>1. emitted' \subseteq {"user.blocked", "user.deleted", "preferences.changed"}
    BY <1>1 DEF Emits, Inv, TypeOK
  <2>2. lost' \in BOOLEAN
    BY <1>1
  <2> QED
    BY <1>3, <1>6, <2>1, <2>2 DEF TypeOK, Req
<1>8. Accounted'
  BY <1>1, <1>4, <1>5 DEF Inv, Accounted, Idle
<1>9. NothingSilent'
  <2>1. /\ req[r].op = "block" => "user.blocked" \in emitted'
        /\ req[r].op = "delete" => "user.deleted" \in emitted'
        /\ req[r].op = "language" => "preferences.changed" \in emitted'
    BY <1>1 DEF Emits
  <2>2. row'["status"] = "suspended" => "user.blocked" \in emitted'
    BY <1>0, <1>1, <1>2, <2>1 DEF Column, Inv, Accounted, NothingSilent
  <2>3. row'["deleted"] = TRUE => "user.deleted" \in emitted'
    BY <1>0, <1>1, <1>2, <2>1 DEF Column, Inv, Accounted, NothingSilent, Row
  <2>4. row'["language"] # AllLanguages => "preferences.changed" \in emitted'
    BY <1>0, <1>1, <1>2, <2>1 DEF Column, Inv, Accounted, NothingSilent
  <2> QED
    BY <1>3, <2>2, <2>3, <2>4 DEF NothingSilent, Row
<1> QED
  BY <1>7, <1>8, <1>9 DEF Inv

-----------------------------------------------------------------------------
\* A new account and no requests.
LEMMA InitInv == Init => Inv
<1> SUFFICES ASSUME Init PROVE Inv
  OBVIOUS
<1>1. req \in [Request -> Req] /\ \A r \in Request : req[r].pc = "idle"
  BY InitialTypes DEF Init, Idle
<1>2. TypeOK
  BY <1>1, InitialTypes, AccountAssumption DEF Init, TypeOK, Req
<1>3. Accounted /\ NothingSilent
  BY <1>1 DEF Init, Accounted, NothingSilent, Registered
<1> QED
  BY <1>2, <1>3 DEF Inv

\* The invariant holds throughout: every step of a request keeps it.
LEMMA AlwaysInv == Spec => []Inv
<1>1. Inv /\ [Next]_vars => Inv'
  <2> SUFFICES ASSUME Inv, [Next]_vars PROVE Inv'
    OBVIOUS
  <2>1. CASE UNCHANGED vars
    BY <2>1 DEF vars, Inv, TypeOK, Accounted, NothingSilent
  <2> QED
    BY <2>1, ArriveKeeps, WaitKeeps, CommitKeeps, RollbackKeeps DEF Next, Step
<1> QED
  BY <1>1, InitInv, PTL DEF Spec

\* Whatever the requests and their order, the row and what they carry keep
\* their types: a flush that writes some columns of a stale User still leaves
\* a row of the table.
THEOREM TypeCorrect == Spec => []TypeOK
<1>1. Inv => TypeOK
  BY DEF Inv
<1> QED
  BY <1>1, AlwaysInv, PTL

\* No suspension without its audit entry and no closing without its event,
\* however the requests overlap and wherever they fail.
THEOREM Announced == Spec => []NothingSilent
<1>1. Inv => NothingSilent
  BY DEF Inv
<1> QED
  BY <1>1, AlwaysInv, PTL

-----------------------------------------------------------------------------
(* Reasons and the statuses they explain.                                  *)

\* A reason, and a status it explains.
Explained(u) == u["reason"] # NoReason <=> u["status"] = "suspended"

\* The row of q has not been changed since it was loaded.
Fresh(q) ==
  /\ q.pc \in {"flush", "flushed"} => q.base = row
  /\ q.op \notin {"block", "review", "lift"} =>
       q.user["status"] = row["status"] /\ q.user["reason"] = row["reason"]

Sound(q) ==
  q.pc # "idle" =>
    /\ q.op \in {"block", "review", "lift"} => Explained(q.user)
    /\ q.stale = FALSE => Fresh(q)

Decided ==
  /\ Inv
  /\ \A r \in Request : Sound(req[r])
  /\ ReasonExplains

\* A step that commits nothing.
LEMMA UncommittedKeeps ==
  ASSUME Decided, Inv', UNCHANGED <<row, emitted, lost>>,
         \A s \in Request : Sound(req'[s])
  PROVE  Decided'
<1>1. ASSUME NEW s \in Request PROVE Sound(req[s])'
  <2>1. Sound(req'[s])
    OBVIOUS
  <2> QED
    BY <2>1 DEF Sound, Fresh, Explained
<1>2. ReasonExplains'
  BY DEF Decided, ReasonExplains
<1> QED
  BY <1>1, <1>2 DEF Decided

\* The handlers: each has refused what it may not change.
LEMMA HandleDecides ==
  ASSUME Decided, Inv', NEW r \in Request, NEW op, NEW u \in Row, Handle(r, op, u),
         op \in {"block", "review", "lift"} => Explained(u),
         op \notin {"block", "review", "lift"} =>
           u["status"] = row["status"] /\ u["reason"] = row["reason"]
  PROVE  Decided'
<1> DEFINE q == [Idle EXCEPT !.pc = "update", !.op = op, !.user = u]
<1>1. req' = [req EXCEPT ![r] = q] /\ UNCHANGED <<row, emitted, lost>>
  BY DEF Handle
<1>2. q.user = u /\ q.op = op /\ q.pc = "update"
  BY DEF Idle
<1> HIDE DEF q
<1>3. Sound(q)
  BY <1>2 DEF Sound, Fresh
<1>4. \A s \in Request : Sound(req'[s])
  BY <1>1, <1>3 DEF Decided, Inv, TypeOK
<1> QED
  BY <1>1, <1>4, UncommittedKeeps

LEMMA ArriveDecides == ASSUME Decided, NEW r \in Request, Arrive(r) PROVE Decided'
<1>0. row \in Row /\ Inv'
  BY ArriveKeeps DEF Decided, Inv, TypeOK
<1>1. ASSUME NEW reason \in Reason, Block(r, reason) PROVE Decided'
  <2> DEFINE u == ChangeStatus(row, "suspended", reason)
  <2>1. u \in Row /\ u["status"] = "suspended" /\ u["reason"] = reason
    BY <1>0 DEF ChangeStatus, Row, Status
  <2>2. Handle(r, "block", u)
    BY <1>1 DEF Block
  <2> HIDE DEF u
  <2>3. Explained(u)
    BY <2>1, AccountAssumption DEF Explained
  <2> QED
    BY <1>0, <2>1, <2>2, <2>3, HandleDecides
<1>2. ASSUME PutUnderReview(r) PROVE Decided'
  <2> DEFINE u == ChangeStatus(row, "under_review", NoReason)
  <2>1. u \in Row /\ u["status"] = "under_review" /\ u["reason"] = NoReason
    BY <1>0 DEF ChangeStatus, Row, Status
  <2>2. Handle(r, "review", u)
    BY <1>2 DEF PutUnderReview
  <2> HIDE DEF u
  <2>3. Explained(u)
    BY <2>1 DEF Explained
  <2> QED
    BY <1>0, <2>1, <2>2, <2>3, HandleDecides
<1>3. ASSUME LiftReview(r) PROVE Decided'
  <2> DEFINE u == ChangeStatus(row, "active", NoReason)
  <2>1. u \in Row /\ u["status"] = "active" /\ u["reason"] = NoReason
    BY <1>0 DEF ChangeStatus, Row, Status
  <2>2. Handle(r, "lift", u)
    BY <1>3 DEF LiftReview
  <2> HIDE DEF u
  <2>3. Explained(u)
    BY <2>1 DEF Explained
  <2> QED
    BY <1>0, <2>1, <2>2, <2>3, HandleDecides
<1>4. ASSUME DeleteAccount(r) PROVE Decided'
  <2> DEFINE u == [row EXCEPT !.deleted = TRUE]
  <2>1. u \in Row /\ u["status"] = row["status"] /\ u["reason"] = row["reason"]
    BY <1>0 DEF Row
  <2>2. Handle(r, "delete", u)
    BY <1>4 DEF DeleteAccount
  <2> HIDE DEF u
  <2> QED
    BY <1>0, <2>1, <2>2, HandleDecides
<1>5. ASSUME VerifyEmail(r) PROVE Decided'
  <2> DEFINE u == [row EXCEPT !.verified = TRUE]
  <2>1. u \in Row /\ u["status"] = row["status"] /\ u["reason"] = row["reason"]
    BY <1>0 DEF Row
  <2>2. Handle(r, "verify", u)
    BY <1>5 DEF VerifyEmail
  <2> HIDE DEF u
  <2> QED
    BY <1>0, <2>1, <2>2, HandleDecides
<1>6. ASSUME UpdateProfile(r) PROVE Decided'
  <2>1. Handle(r, "profile", row)
    BY <1>6 DEF UpdateProfile
  <2> QED
    BY <1>0, <2>1, HandleDecides
<1>7. ASSUME NEW l \in Language, UpdatePreferences(r, l) PROVE Decided'
  <2> DEFINE u == [row EXCEPT !.language = l]
  <2>1. u \in Row /\ u["status"] = row["status"] /\ u["reason"] = row["reason"]
    BY <1>0 DEF Row
  <2>2. Handle(r, "language", u)
    BY <1>7 DEF UpdatePreferences
  <2> HIDE DEF u
  <2> QED
    BY <1>0, <2>1, <2>2, HandleDecides
<1> QED
  BY <1>1, <1>2, <1>3, <1>4, <1>5, <1>6, <1>7 DEF Arrive

\* update's second reading, the wait for the lock, and a failure.
LEMMA WaitDecides ==
  ASSUME Decided, NEW r \in Request, Reread(r) \/ Flush(r) \/ Rollback(r) PROVE Decided'
<1>0. req \in [Request -> Req] /\ Inv'
  BY WaitKeeps, RollbackKeeps DEF Decided, Inv, TypeOK, Req
<1>1. CASE Reread(r)
  <2> DEFINE q == [req[r] EXCEPT !.pc = "flush", !.base = row]
  <2>1. req' = [req EXCEPT ![r] = q] /\ UNCHANGED <<row, emitted, lost>>
    BY <1>0, <1>1 DEF Reread
  <2>2. q = [req[r] EXCEPT !.pc = "flush", !.base = row] /\ req[r] \in Req
    BY <1>0
  <2> HIDE DEF q
  <2>3. q.pc = "flush" /\ q.base = row /\ q.user = req[r].user /\ q.op = req[r].op
    BY <2>2 DEF Req
  <2>4. q.stale = req[r].stale
    BY <2>2 DEF Req
  <2>5. Sound(req[r]) /\ req[r].pc = "update"
    BY <1>1 DEF Decided, Reread
  <2>6. Sound(q)
    BY <2>3, <2>4, <2>5 DEF Sound, Fresh
  <2>7. \A s \in Request : Sound(req'[s])
    BY <1>0, <2>1, <2>6 DEF Decided
  <2> QED
    BY <1>0, <2>1, <2>7, UncommittedKeeps
<1>2. CASE Flush(r)
  <2> DEFINE q == [req[r] EXCEPT !.pc = "flushed"]
  <2>1. req' = [req EXCEPT ![r] = q] /\ UNCHANGED <<row, emitted, lost>>
    BY <1>0, <1>2 DEF Flush
  <2>2. q = [req[r] EXCEPT !.pc = "flushed"] /\ req[r] \in Req
    BY <1>0
  <2> HIDE DEF q
  <2>3. q.pc = "flushed" /\ q.base = req[r].base /\ q.user = req[r].user /\ q.op = req[r].op
    BY <2>2 DEF Req
  <2>4. q.stale = req[r].stale
    BY <2>2 DEF Req
  <2>5. Sound(req[r]) /\ req[r].pc = "flush"
    BY <1>2 DEF Decided, Flush
  <2>6. Sound(q)
    BY <2>3, <2>4, <2>5 DEF Sound, Fresh
  <2>7. \A s \in Request : Sound(req'[s])
    BY <1>0, <2>1, <2>6 DEF Decided
  <2> QED
    BY <1>0, <2>1, <2>7, UncommittedKeeps
<1>3. CASE Rollback(r)
  <2>1. req' = [req EXCEPT ![r] = Idle] /\ UNCHANGED <<row, emitted, lost>>
    BY <1>3 DEF Rollback
  <2>2. Sound(Idle)
    BY DEF Sound, Idle
  <2>3. \A s \in Request : Sound(req'[s])
    BY <1>0, <2>1, <2>2 DEF Decided
  <2> QED
    BY <1>0, <2>1, <2>3, UncommittedKeeps
<1> QED
  BY <1>1, <1>2, <1>3

\* The commit of a request that is not stale replaces the row by its User.
LEMMA FreshCommit ==
  ASSUME Decided, NEW r \in Request, Commit(r), req[r].stale = FALSE
  PROVE  row' = req[r].user /\ Fresh(req[r])
<1>1. req[r].user \in Row /\ Sound(req[r]) /\ req[r].pc = "flushed"
  BY DEF Decided, Inv, TypeOK, Commit
<1>2. Fresh(req[r]) /\ req[r].base = row
  BY <1>1 DEF Sound, Fresh
<1>3. row' = [c \in Column |-> req[r].user[c]]
  BY <1>2 DEF Commit, Written
<1>4. req[r].user = [c \in Column |-> req[r].user[c]]
  BY <1>1 DEF Row, Column
<1> QED
  BY <1>2, <1>3, <1>4

\* A commit that loses nothing leaves a reason with the status it explains.
LEMMA CommitExplains ==
  ASSUME Decided, NEW r \in Request, Commit(r), lost' = FALSE
  PROVE  Explained(row')
<1>0. req[r] \in Req /\ Sound(req[r]) /\ req[r].pc = "flushed" /\ row \in Row
  BY DEF Decided, Inv, TypeOK, Req, Commit
<1>1. lost = FALSE /\ req[r].stale = FALSE
  <2>1. lost \in BOOLEAN /\ req[r].stale \in BOOLEAN
    BY <1>0 DEF Decided, Inv, TypeOK, Req
  <2> QED
    BY <2>1 DEF Commit
<1>2. row' = req[r].user /\ Fresh(req[r])
  BY <1>1, FreshCommit
<1>3. Explained(row)
  BY <1>1 DEF Decided, ReasonExplains, Explained
<1>4. CASE req[r].op \in {"block", "review", "lift"}
  BY <1>0, <1>2, <1>4 DEF Sound
<1>5. CASE req[r].op \notin {"block", "review", "lift"}
  BY <1>2, <1>3, <1>5 DEF Fresh, Explained
<1> QED
  BY <1>4, <1>5

LEMMA CommitDecides == ASSUME Decided, NEW r \in Request, Commit(r) PROVE Decided'
<1>0. /\ Inv /\ Inv' /\ req \in [Request -> Req] /\ req[r].pc = "flushed"
      /\ row \in Row /\ req[r].user \in Row
  BY CommitKeeps DEF Decided, Inv, TypeOK, Req, Commit
<1>1. ReasonExplains'
  <2>1. lost' \in BOOLEAN
    BY <1>0 DEF Inv, TypeOK
  <2>2. CASE lost' = TRUE
    BY <2>2 DEF ReasonExplains
  <2>3. CASE lost' = FALSE
    BY <2>3, CommitExplains DEF ReasonExplains, Explained
  <2> QED
    BY <2>1, <2>2, <2>3
<1>2. ASSUME NEW s \in Request PROVE Sound(req[s])'
  <2>0. req' = [t \in Request |-> IF t = r THEN Idle ELSE Outdated(req[t], row' # row)]
    BY DEF Commit
  <2>1. CASE s = r
    BY <2>0, <2>1 DEF Sound, Idle
  <2>2. CASE s # r
    <3> DEFINE stale == req[s].pc # "idle" /\ (req[s].stale \/ row' # row)
    <3>1. req'[s] = [req[s] EXCEPT !.stale = stale] /\ req[s] \in Req
      BY <1>0, <2>0, <2>2 DEF Outdated
    <3>2. req[s].pc # "idle" /\ stale = FALSE => req[s].stale = FALSE /\ row' = row
      <4>1. req[s].stale \in BOOLEAN
        BY <1>0 DEF Req
      <4> QED
        BY <4>1
    <3> HIDE DEF stale
    <3>3. /\ req'[s].pc = req[s].pc /\ req'[s].op = req[s].op
          /\ req'[s].user = req[s].user /\ req'[s].base = req[s].base
      BY <3>1 DEF Req
    <3>4. req'[s].stale = stale
      BY <3>1 DEF Req
    <3>5. Sound(req[s])
      BY DEF Decided
    <3>6. req'[s].pc # "idle" /\ req'[s].stale = FALSE => Fresh(req[s])'
      BY <3>2, <3>3, <3>4, <3>5 DEF Sound, Fresh
    <3>7. req'[s].pc # "idle" /\ req'[s].op \in {"block", "review", "lift"} =>
            Explained(req'[s].user)
      BY <3>3, <3>5 DEF Sound
    <3> QED
      BY <3>6, <3>7 DEF Sound, Explained
  <2> QED
    BY <2>1, <2>2
<1> QED
  BY <1>0, <1>1, <1>2 DEF Decided

\* The stronger invariant holds throughout.
LEMMA AlwaysDecided == Spec => []Decided
<1>1. Init => Decided
  <2> SUFFICES ASSUME Init, Inv PROVE Decided
    BY InitInv
  <2>1. \A r \in Request : Sound(req[r])
    BY DEF Init, Idle, Sound
  <2>2. ReasonExplains
    BY DEF Init, Registered, ReasonExplains
  <2> QED
    BY <2>1, <2>2 DEF Decided
<1>2. Decided /\ [Next]_vars => Decided'
  <2> SUFFICES ASSUME Decided, [Next]_vars PROVE Decided'
    OBVIOUS
  <2>1. CASE UNCHANGED vars
    <3>1. Inv'
      BY <2>1 DEF vars, Decided, Inv, TypeOK, Accounted, NothingSilent
    <3>2. \A s \in Request : Sound(req'[s])
      BY <2>1 DEF vars, Decided
    <3> QED
      BY <2>1, <3>1, <3>2, UncommittedKeeps DEF vars
  <2> QED
    BY <2>1, ArriveDecides, WaitDecides, CommitDecides DEF Next, Step
<1> QED
  BY <1>1, <1>2, PTL DEF Spec

\* While no update is lost, a reason is on the row exactly when the account is
\* suspended.
THEOREM ReasonsExplain == Spec => []ReasonExplains
<1>1. Decided => ReasonExplains
  BY DEF Decided
<1> QED
  BY <1>1, AlwaysDecided, PTL

-----------------------------------------------------------------------------
(* The decisions that stand.                                               *)

Suspended(u, reason) == u["status"] = "suspended" /\ u["reason"] = reason
Closed(u) == u["deleted"] = TRUE

\* The state of DecisionsStand, in the form the steps below use.
LEMMA AllForms ==
  ASSUME TypeOK, NEW reason
  PROVE  /\ AllSuspended(reason) <=>
              /\ Suspended(row, reason)
              /\ \A r \in Request : req[r].pc # "idle" => Suspended(req[r].user, reason)
         /\ AllClosed <=>
              /\ Closed(row)
              /\ \A r \in Request : req[r].pc # "idle" => Closed(req[r].user)
<1>1. row.deleted \in BOOLEAN /\ \A r \in Request : req[r].user.deleted \in BOOLEAN
  BY DEF TypeOK, Row
<1> QED
  BY <1>1 DEF AllSuspended, AllClosed, Suspended, Closed

\* What a request that arrives loads is what is on the row, unless it is one of
\* the handlers the decision refuses.
LEMMA ArriveCarries ==
  ASSUME Inv, NEW r \in Request, Arrive(r)
  PROVE  \E u \in Row :
           /\ req' = [req EXCEPT ![r] = req'[r]] /\ req'[r].user = u /\ row' = row
           /\ \A reason \in Reason : Suspended(row, reason) => Suspended(u, reason)
           /\ Closed(row) => Closed(u)
<1>0. row \in Row /\ req \in [Request -> Req]
  BY DEF Inv, TypeOK, Req
<1> DEFINE Goal == \E u \in Row :
             /\ req' = [req EXCEPT ![r] = req'[r]] /\ req'[r].user = u /\ row' = row
             /\ \A reason \in Reason : Suspended(row, reason) => Suspended(u, reason)
             /\ Closed(row) => Closed(u)
<1>1. ASSUME NEW op, NEW u \in Row, Handle(r, op, u),
             \A reason \in Reason : Suspended(row, reason) => Suspended(u, reason),
             Closed(row) => Closed(u)
      PROVE  Goal
  <2> DEFINE q == [Idle EXCEPT !.pc = "update", !.op = op, !.user = u]
  <2>1. req' = [req EXCEPT ![r] = q] /\ row' = row
    BY <1>1 DEF Handle
  <2>2. q.user = u
    BY DEF Idle
  <2> HIDE DEF q
  <2> QED
    BY <1>0, <1>1, <2>1, <2>2
<1> HIDE DEF Goal
<1>2. ASSUME NEW reason \in Reason, Block(r, reason) PROVE Goal
  <2> DEFINE u == ChangeStatus(row, "suspended", reason)
  <2>1. u \in Row /\ Handle(r, "block", u) /\ row["status"] # "suspended"
    BY <1>0, <1>2 DEF Block, ChangeStatus, Row, Status
  <2>2. u["deleted"] = row["deleted"]
    BY <1>0 DEF ChangeStatus, Row
  <2> HIDE DEF u
  <2> QED
    BY <1>1, <2>1, <2>2 DEF Suspended, Closed
<1>3. ASSUME PutUnderReview(r) PROVE Goal
  <2> DEFINE u == ChangeStatus(row, "under_review", NoReason)
  <2>1. u \in Row /\ Handle(r, "review", u) /\ row["status"] # "suspended"
    BY <1>0, <1>3 DEF PutUnderReview, ChangeStatus, Row, Status
  <2>2. u["deleted"] = row["deleted"]
    BY <1>0 DEF ChangeStatus, Row
  <2> HIDE DEF u
  <2> QED
    BY <1>1, <2>1, <2>2 DEF Suspended, Closed
<1>4. ASSUME LiftReview(r) PROVE Goal
  <2> DEFINE u == ChangeStatus(row, "active", NoReason)
  <2>1. u \in Row /\ Handle(r, "lift", u) /\ row["status"] # "suspended"
    BY <1>0, <1>4 DEF LiftReview, ChangeStatus, Row, Status
  <2>2. u["deleted"] = row["deleted"]
    BY <1>0 DEF ChangeStatus, Row
  <2> HIDE DEF u
  <2> QED
    BY <1>1, <2>1, <2>2 DEF Suspended, Closed
<1>5. ASSUME DeleteAccount(r) PROVE Goal
  <2> DEFINE u == [row EXCEPT !.deleted = TRUE]
  <2>1. u \in Row /\ Handle(r, "delete", u)
    BY <1>0, <1>5 DEF DeleteAccount, Row
  <2>2. u["status"] = row["status"] /\ u["reason"] = row["reason"]
    BY <1>0 DEF Row
  <2>3. u["deleted"] = TRUE
    BY <1>0 DEF Row
  <2> HIDE DEF u
  <2> QED
    BY <1>1, <2>1, <2>2, <2>3 DEF Suspended, Closed
<1>6. ASSUME VerifyEmail(r) PROVE Goal
  <2> DEFINE u == [row EXCEPT !.verified = TRUE]
  <2>1. u \in Row /\ Handle(r, "verify", u)
    BY <1>0, <1>6 DEF VerifyEmail, Row
  <2>2. u["status"] = row["status"] /\ u["reason"] = row["reason"]
    BY <1>0 DEF Row
  <2>3. u["deleted"] = row["deleted"]
    BY <1>0 DEF Row
  <2> HIDE DEF u
  <2> QED
    BY <1>1, <2>1, <2>2, <2>3 DEF Suspended, Closed
<1>7. ASSUME UpdateProfile(r) PROVE Goal
  BY <1>0, <1>1, <1>7 DEF UpdateProfile
<1>8. ASSUME NEW l \in Language, UpdatePreferences(r, l) PROVE Goal
  <2> DEFINE u == [row EXCEPT !.language = l]
  <2>1. u \in Row /\ Handle(r, "language", u)
    BY <1>0, <1>8 DEF UpdatePreferences, Row
  <2>2. u["status"] = row["status"] /\ u["reason"] = row["reason"]
    BY <1>0 DEF Row
  <2>3. u["deleted"] = row["deleted"]
    BY <1>0 DEF Row
  <2> HIDE DEF u
  <2> QED
    BY <1>1, <2>1, <2>2, <2>3 DEF Suspended, Closed
<1> QED
  BY <1>2, <1>3, <1>4, <1>5, <1>6, <1>7, <1>8 DEF Arrive, Goal

\* A step after which the row and every User are as they were, or as the row or
\* a request under way had them.
LEMMA ColumnsFrom ==
  ASSUME Inv, NEW r \in Request, Reread(r) \/ Flush(r) \/ Commit(r) \/ Rollback(r)
  PROVE  /\ \A s \in Request : req'[s].pc # "idle" =>
              req[s].pc # "idle" /\ req'[s].user = req[s].user
         /\ \/ row' = row
            \/ /\ req[r].pc # "idle"
               /\ \A c \in Column : row'[c] = req[r].user[c] \/ row'[c] = row[c]
<1>0. req \in [Request -> Req] /\ row \in Row
  BY DEF Inv, TypeOK, Req
<1>1. CASE Reread(r)
  <2> DEFINE q == [req[r] EXCEPT !.pc = "flush", !.base = row]
  <2>1. req' = [req EXCEPT ![r] = q] /\ row' = row /\ req[r].pc # "idle"
    BY <1>0, <1>1 DEF Reread
  <2>2. q.user = req[r].user
    BY <1>0 DEF Req
  <2> HIDE DEF q
  <2> QED
    BY <1>0, <2>1, <2>2
<1>2. CASE Flush(r)
  <2> DEFINE q == [req[r] EXCEPT !.pc = "flushed"]
  <2>1. req' = [req EXCEPT ![r] = q] /\ row' = row /\ req[r].pc # "idle"
    BY <1>0, <1>2 DEF Flush
  <2>2. q.user = req[r].user
    BY <1>0 DEF Req
  <2> HIDE DEF q
  <2> QED
    BY <1>0, <2>1, <2>2
<1>3. CASE Rollback(r)
  BY <1>0, <1>3 DEF Rollback, Idle
<1>4. CASE Commit(r)
  <2>1. \A c \in Column : row'[c] = req[r].user[c] \/ row'[c] = row[c]
    BY <1>4 DEF Commit
  <2>2. ASSUME NEW s \in Request, req'[s].pc # "idle"
        PROVE  req[s].pc # "idle" /\ req'[s].user = req[s].user
    <3> DEFINE stale == req[s].pc # "idle" /\ (req[s].stale \/ row' # row)
    <3>1. s # r
      BY <1>4, <2>2 DEF Commit, Idle
    <3>2. req'[s] = [req[s] EXCEPT !.stale = stale] /\ req[s] \in Req
      BY <1>0, <1>4, <3>1 DEF Commit, Outdated
    <3> HIDE DEF stale
    <3> QED
      BY <2>2, <3>2 DEF Req
  <2> QED
    BY <1>4, <2>1, <2>2 DEF Commit
<1> QED
  BY <1>1, <1>2, <1>3, <1>4

\* No step takes back a decision that the row and every request under way have.
LEMMA SettledStep ==
  ASSUME Inv, Inv', [Next]_vars
  PROVE  /\ \A reason \in Reason : AllSuspended(reason) => AllSuspended(reason)'
         /\ AllClosed => AllClosed'
<1>0. TypeOK /\ TypeOK' /\ req \in [Request -> Req]
  BY DEF Inv, TypeOK, Req
<1> DEFINE Kept == /\ \A reason \in Reason :
                        (/\ Suspended(row, reason)
                         /\ \A s \in Request : req[s].pc # "idle" => Suspended(req[s].user, reason)) =>
                        (/\ Suspended(row', reason)
                         /\ \A s \in Request : req'[s].pc # "idle" => Suspended(req'[s].user, reason))
                   /\ (/\ Closed(row)
                       /\ \A s \in Request : req[s].pc # "idle" => Closed(req[s].user)) =>
                      (/\ Closed(row')
                       /\ \A s \in Request : req'[s].pc # "idle" => Closed(req'[s].user))
<1>1. ASSUME NEW r \in Request, Arrive(r) PROVE Kept
  <2>1. PICK u \in Row :
           /\ req' = [req EXCEPT ![r] = req'[r]] /\ req'[r].user = u /\ row' = row
           /\ \A reason \in Reason : Suspended(row, reason) => Suspended(u, reason)
           /\ Closed(row) => Closed(u)
    BY <1>1, ArriveCarries
  <2>2. \A s \in Request : s # r => req'[s] = req[s]
    BY <1>0, <2>1
  <2> QED
    BY <2>1, <2>2
<1>2. ASSUME NEW r \in Request, Step(r) \/ Rollback(r) PROVE Kept
  <2>1. /\ \A s \in Request : req'[s].pc # "idle" =>
              req[s].pc # "idle" /\ req'[s].user = req[s].user
        /\ \/ row' = row
           \/ /\ req[r].pc # "idle"
              /\ \A c \in Column : row'[c] = req[r].user[c] \/ row'[c] = row[c]
    BY <1>2, ColumnsFrom DEF Step
  <2>2. /\ row'["status"] = row["status"] \/ (req[r].pc # "idle" /\ row'["status"] = req[r].user["status"])
        /\ row'["reason"] = row["reason"] \/ (req[r].pc # "idle" /\ row'["reason"] = req[r].user["reason"])
        /\ row'["deleted"] = row["deleted"] \/ (req[r].pc # "idle" /\ row'["deleted"] = req[r].user["deleted"])
    BY <2>1 DEF Column
  <2> QED
    BY <2>1, <2>2 DEF Suspended, Closed
<1>3. ASSUME UNCHANGED vars PROVE Kept
  BY <1>3 DEF vars
<1>4. Kept
  BY <1>1, <1>2, <1>3 DEF Next
<1>5. \A reason \in Reason :
        AllSuspended(reason)' <=>
          /\ Suspended(row', reason)
          /\ \A s \in Request : req'[s].pc # "idle" => Suspended(req'[s].user, reason)
  BY DEF AllSuspended, Suspended
<1>6. AllClosed' <=>
        /\ Closed(row')
        /\ \A s \in Request : req'[s].pc # "idle" => Closed(req'[s].user)
  <2>1. row'.deleted \in BOOLEAN /\ \A s \in Request : req'[s].user.deleted \in BOOLEAN
    BY <1>0 DEF TypeOK, Row
  <2> QED
    BY <2>1 DEF AllClosed, Closed
<1> HIDE DEF Kept
<1> QED
  BY <1>0, <1>4, <1>5, <1>6, AllForms DEF Kept

\* Once the row and every request under way have it, a suspension with its
\* reason, or a closing, is never taken back.
THEOREM DecisionsKept == Spec => DecisionsStand
<1> DEFINE A == /\ \A reason \in Reason : AllSuspended(reason) => AllSuspended(reason)'
                /\ AllClosed => AllClosed'
<1>1. Inv /\ Inv' /\ [Next]_vars => [A]_vars
  BY SettledStep
<1> QED
  BY <1>1, AlwaysInv, PTL DEF Spec, DecisionsStand

\* The same as a promise about the future: from then on the row is suspended
\* for that reason, and a closed account is closed, for ever.
THEOREM FinalForGood ==
  ASSUME NEW reason \in Reason
  PROVE  Spec => /\ [](AllSuspended(reason) =>
                          [](row.status = "suspended" /\ row.reason = reason))
                 /\ [](AllClosed => []row.deleted)
<1>1. Inv /\ Inv' /\ [Next]_vars =>
        (AllSuspended(reason) => AllSuspended(reason)') /\ (AllClosed => AllClosed')
  BY SettledStep
<1>2. AllSuspended(reason) => row.status = "suspended" /\ row.reason = reason
  BY DEF AllSuspended
<1>3. AllClosed => row.deleted
  BY DEF AllClosed
<1> QED
  BY <1>1, <1>2, <1>3, AlwaysInv, PTL DEF Spec
=============================================================================
