-------------------------- MODULE CredentialsProofs --------------------------
(***************************************************************************)
(* Proofs about Credentials, for any number of passwords, links and        *)
(* requests.                                                               *)
(*                                                                         *)
(* What the row and the links promise rests on what the requests under way *)
(* carry.  Sound says what that is: the password an operation brings, with *)
(* its flag and its date; the links it has seen, which it has marked by    *)
(* the time it holds the row; and, while nothing it read was changed, that *)
(* it is about to write over the very row it decided on.                   *)
(***************************************************************************)
EXTENDS Credentials, TLAPS

\* A request, whatever links were sent.
Req == [pc: {"idle", "load", "update", "flush", "flushed"},
        op: {"change", "reset", "temporary", "other"},
        stale: BOOLEAN, user: Row, base: Row,
        link: SUBSET Link, seen: SUBSET Link, dying: SUBSET Link]

Types ==
  /\ row \in Row
  /\ sent \subseteq Link /\ used \subseteq sent /\ expired \subseteq sent
  /\ spent \subseteq used /\ again \subseteq spent /\ lost \in BOOLEAN
  /\ req \in [Request -> Req]

\* The links of q: it saw its own, only a reset has one, and once it has
\* flushed whatever it saw is used or about to be.
Marks(q) ==
  /\ q.link \subseteq q.seen /\ q.seen \subseteq sent /\ q.dying \subseteq sent
  /\ q.op = "reset" <=> q.link # {}
  /\ q.pc = "load" => q.op = "reset"
  /\ q.op = "reset" /\ q.pc = "flushed" => q.seen \subseteq used \cup q.dying

\* What the User of q says of the password.
Brings(q) ==
  /\ q.op = "change" => /\ q.user["password"] \in Chosen
                        /\ q.user["mustChange"] = FALSE
                        /\ q.user["deadline"] = NoDeadline
  /\ q.op = "reset" => q.user["password"] \in Chosen
  /\ q.op = "temporary" => /\ q.user["password"] \in Temporary
                           /\ q.user["mustChange"] = TRUE
                           /\ q.user["deadline"] = q.user["password"]

\* Nothing q read was changed since.
Fresh(q) ==
  /\ q.link \cap used = {}
  /\ q.op = "other" => q.user = row
  /\ q.op = "temporary" => row["mustChange"] = TRUE
  /\ q.pc \in {"flush", "flushed"} => q.base = row

Sound(q) ==
  /\ Marks(q)
  /\ q.pc \notin {"idle", "load"} => Brings(q)
  /\ q.pc # "idle" /\ q.stale = FALSE => Fresh(q)

Inv ==
  /\ Types
  /\ \A r \in Request : Sound(req[r])
  /\ FlagFollowsPassword
  /\ LinkWorksOnce

\* A record of the three columns is a row.
LEMMA RowOfColumns ==
  ASSUME NEW u, u = [c \in Column |-> u[c]], u["password"] \in Temporary \cup Chosen,
         u["mustChange"] \in BOOLEAN, u["deadline"] \in Temporary \cup {NoDeadline}
  PROVE  u \in Row
  BY DEF Row, Column

\* The account as created, and an idle request.
LEMMA InitialTypes == Created \in Row /\ Idle \in Req
<1>1. Created \in Row
  BY CredentialsAssumption DEF Created, Row
<1> QED
  BY <1>1 DEF Idle, Req

\* An idle request has seen nothing.
LEMMA IdleSound == Sound(Idle)
  BY DEF Sound, Marks, Idle

\* A step of one request that leaves the account and the links alone.
LEMMA LocalKeeps ==
  ASSUME Inv, NEW r \in Request, NEW q \in Req, Sound(q),
         req' = [req EXCEPT ![r] = q], UNCHANGED <<row, links, lost>>
  PROVE  Inv'
<1>1. /\ row' = row /\ sent' = sent /\ used' = used /\ expired' = expired
      /\ spent' = spent /\ again' = again /\ lost' = lost
  BY DEF links
<1>2. req \in [Request -> Req]
  BY DEF Inv, Types
<1>3. req' \in [Request -> Req]
  BY <1>2
<1>4. Types'
  BY <1>1, <1>3 DEF Inv, Types
<1>5. ASSUME NEW s \in Request PROVE Sound(req[s])'
  <2>1. Sound(req'[s])
    <3>1. CASE s = r
      BY <1>2, <3>1
    <3>2. CASE s # r
      BY <1>2, <3>2 DEF Inv
    <3> QED
      BY <3>1, <3>2
  <2> QED
    BY <1>1, <2>1 DEF Sound, Marks, Brings, Fresh
<1>6. FlagFollowsPassword' /\ LinkWorksOnce'
  BY <1>1 DEF Inv, FlagFollowsPassword, OwesItsChoice, LinkWorksOnce
<1> QED
  BY <1>4, <1>5, <1>6 DEF Inv

\* The handlers: what each one brings, on the row it has just read.
LEMMA HandleKeeps ==
  ASSUME Inv, NEW r \in Request, NEW op \in {"change", "temporary", "other"},
         NEW u \in Row, Handle(r, op, u),
         op = "change" => /\ u["password"] \in Chosen /\ u["mustChange"] = FALSE
                          /\ u["deadline"] = NoDeadline,
         op = "temporary" => /\ u["password"] \in Temporary /\ u["mustChange"] = TRUE
                             /\ u["deadline"] = u["password"] /\ row["mustChange"] = TRUE,
         op = "other" => u = row
  PROVE  Inv'
<1> DEFINE q == [Idle EXCEPT !.pc = "update", !.op = op, !.user = u]
<1>1. req' = [req EXCEPT ![r] = q] /\ UNCHANGED <<row, links, lost>>
  BY DEF Handle
<1>2. /\ q \in Req /\ q.pc = "update" /\ q.op = op /\ q.user = u
      /\ q.link = {} /\ q.seen = {} /\ q.dying = {}
  BY InitialTypes DEF Req, Idle
<1> HIDE DEF q
<1>3. Marks(q)
  BY <1>2 DEF Marks
<1>4. Brings(q)
  BY <1>2 DEF Brings
<1>5. Fresh(q)
  BY <1>2 DEF Fresh
<1>6. Sound(q)
  BY <1>3, <1>4, <1>5 DEF Sound
<1> QED
  BY <1>1, <1>2, <1>6, LocalKeeps

\* reset_password has found its link, which is open.
LEMMA FindKeeps ==
  ASSUME Inv, NEW r \in Request, NEW l \in Link, FindLink(r, l) PROVE Inv'
<1> DEFINE q == [Idle EXCEPT !.pc = "load", !.op = "reset", !.link = {l}, !.seen = Open]
<1>1. req' = [req EXCEPT ![r] = q] /\ UNCHANGED <<row, links, lost>> /\ l \in Open
  BY DEF FindLink, Hold
<1>2. Open \subseteq sent /\ sent \subseteq Link /\ Open \cap used = {}
  BY DEF Inv, Types, Open
<1>3. Open \in SUBSET Link /\ {l} \in SUBSET Link
  BY <1>2
<1>4. /\ q \in Req /\ q.pc = "load" /\ q.op = "reset"
      /\ q.link = {l} /\ q.seen = Open /\ q.dying = {}
  BY <1>3, InitialTypes DEF Req, Idle
<1> HIDE DEF q
<1>5. Marks(q)
  BY <1>1, <1>2, <1>4 DEF Marks
<1>6. Fresh(q)
  BY <1>1, <1>2, <1>4 DEF Fresh
<1>7. Sound(q)
  BY <1>4, <1>5, <1>6 DEF Sound
<1> QED
  BY <1>1, <1>4, <1>7, LocalKeeps

\* reset_password loads the account; it is stale if its link died meanwhile.
LEMMA ResetKeeps ==
  ASSUME Inv, NEW r \in Request, NEW p \in Chosen, ResetPassword(r, p) PROVE Inv'
<1> DEFINE u == [row EXCEPT !.password = p]
           stale == req[r].link \cap req[r].seen \cap used # {}
           q == [req[r] EXCEPT !.pc = "update", !.user = u, !.stale = stale]
<1>1. req[r] \in Req /\ row \in Row /\ Sound(req[r]) /\ req[r].pc = "load"
  BY DEF Inv, Types, ResetPassword
<1>2. req' = [req EXCEPT ![r] = q] /\ UNCHANGED <<row, links, lost>>
  BY DEF ResetPassword, Inv, Types
<1>3. u \in Row /\ u["password"] = p /\ stale \in BOOLEAN
  BY <1>1 DEF Row
<1>4. stale = FALSE => req[r].link \cap used = {}
  BY <1>1 DEF Sound, Marks
<1>5. req[r].op = "reset"
  BY <1>1 DEF Sound, Marks
<1> HIDE DEF u, stale
<1>6. /\ q \in Req /\ q.pc = "update" /\ q.op = req[r].op /\ q.user = u
      /\ q.link = req[r].link /\ q.seen = req[r].seen /\ q.dying = req[r].dying
  BY <1>1, <1>3 DEF Req
<1>7. q.stale = stale
  BY <1>1, <1>3 DEF Req
<1> HIDE DEF q
<1>8. Sound(q)
  BY <1>1, <1>3, <1>4, <1>5, <1>6, <1>7 DEF Sound, Marks, Brings, Fresh
<1> QED
  BY <1>2, <1>6, <1>8, LocalKeeps

LEMMA ArriveKeeps == ASSUME Inv, NEW r \in Request, Arrive(r) PROVE Inv'
<1>0. row \in Row
  BY DEF Inv, Types
<1>1. ASSUME NEW p \in Chosen, ChangePassword(r, p) PROVE Inv'
  <2> DEFINE u == [row EXCEPT !.password = p, !.mustChange = FALSE, !.deadline = NoDeadline]
  <2>1. u \in Row /\ u["password"] = p /\ u["mustChange"] = FALSE /\ u["deadline"] = NoDeadline
    BY <1>0 DEF Row
  <2>2. Handle(r, "change", u)
    BY <1>1 DEF ChangePassword
  <2> HIDE DEF u
  <2> QED
    BY <2>1, <2>2, HandleKeeps
<1>2. ASSUME NEW p \in Temporary, ResetTemporaryPassword(r, p) PROVE Inv'
  <2> DEFINE u == [row EXCEPT !.password = p, !.deadline = p]
  <2>1. row["mustChange"] = TRUE
    BY <1>0, <1>2 DEF ResetTemporaryPassword, Row
  <2>2. u \in Row /\ u["password"] = p /\ u["deadline"] = p /\ u["mustChange"] = row["mustChange"]
    BY <1>0 DEF Row
  <2>3. Handle(r, "temporary", u)
    BY <1>2 DEF ResetTemporaryPassword
  <2> HIDE DEF u
  <2>4. u["mustChange"] = TRUE
    BY <2>1, <2>2
  <2> QED
    BY <2>1, <2>2, <2>3, <2>4, HandleKeeps
<1>3. ASSUME UpdateProfile(r) PROVE Inv'
  <2>1. Handle(r, "other", row)
    BY <1>3 DEF UpdateProfile
  <2> QED
    BY <1>0, <2>1, HandleKeeps
<1> QED
  BY <1>1, <1>2, <1>3, FindKeeps DEF Arrive

\* update's second reading.
LEMMA RereadKeeps == ASSUME Inv, NEW r \in Request, Reread(r) PROVE Inv'
<1> DEFINE q == [req[r] EXCEPT !.pc = "flush", !.base = row]
<1>1. req[r] \in Req /\ row \in Row /\ Sound(req[r]) /\ req[r].pc = "update"
  BY DEF Inv, Types, Reread
<1>2. req' = [req EXCEPT ![r] = q] /\ UNCHANGED <<row, links, lost>>
  BY DEF Reread, Inv, Types
<1>3. /\ q \in Req /\ q.pc = "flush" /\ q.base = row /\ q.op = req[r].op /\ q.user = req[r].user
      /\ q.link = req[r].link /\ q.seen = req[r].seen /\ q.dying = req[r].dying
  BY <1>1 DEF Req
<1>4. q.stale = req[r].stale
  BY <1>1 DEF Req
<1> HIDE DEF q
<1>5. Sound(q)
  BY <1>1, <1>3, <1>4 DEF Sound, Marks, Brings, Fresh
<1> QED
  BY <1>2, <1>3, <1>5, LocalKeeps

\* The row lock, and the links of a reset marked under it.
LEMMA FlushKeeps == ASSUME Inv, NEW r \in Request, Flush(r) PROVE Inv'
<1> DEFINE m == MarkedUsed(r)
           q == [req[r] EXCEPT !.pc = "flushed", !.dying = m]
<1>1. req[r] \in Req /\ row \in Row /\ Sound(req[r]) /\ req[r].pc = "flush"
  BY DEF Inv, Types, Flush
<1>2. req' = [req EXCEPT ![r] = q] /\ UNCHANGED <<row, links, lost>>
  BY DEF Flush, Inv, Types
<1>3. m \subseteq sent /\ sent \subseteq Link /\ (req[r].op = "reset" => sent \subseteq used \cup m)
  BY DEF Inv, Types, MarkedUsed, Open
<1> HIDE DEF m
<1>4. /\ q \in Req /\ q.pc = "flushed" /\ q.base = req[r].base /\ q.op = req[r].op
      /\ q.user = req[r].user /\ q.link = req[r].link /\ q.seen = req[r].seen /\ q.dying = m
  BY <1>1, <1>3 DEF Req
<1>5. q.stale = req[r].stale
  BY <1>1 DEF Req
<1> HIDE DEF q
<1>6. Sound(q)
  BY <1>1, <1>3, <1>4, <1>5 DEF Sound, Marks, Brings, Fresh
<1> QED
  BY <1>2, <1>4, <1>6, LocalKeeps

LEMMA RollbackKeeps == ASSUME Inv, NEW r \in Request, Rollback(r) PROVE Inv'
  BY IdleSound, InitialTypes, LocalKeeps DEF Rollback

\* The commit of a request that is not stale replaces the row by its User.
LEMMA FreshCommit ==
  ASSUME Inv, NEW r \in Request, Commit(r), req[r].stale = FALSE
  PROVE  row' = req[r].user /\ Brings(req[r]) /\ Fresh(req[r])
<1>1. req[r] \in Req /\ row \in Row /\ req[r].user \in Row /\ Sound(req[r]) /\ req[r].pc = "flushed"
  BY DEF Inv, Types, Req, Commit
<1>2. Brings(req[r]) /\ Fresh(req[r]) /\ req[r].base = row
  BY <1>1 DEF Sound, Fresh
<1>3. \A c \in Column : row'[c] = req[r].user[c]
  BY <1>2 DEF Commit, Written
<1>4. row' = [c \in Column |-> req[r].user[c]]
  BY <1>3 DEF Commit
<1>5. req[r].user = [c \in Column |-> req[r].user[c]]
  BY <1>1 DEF Row, Column
<1> QED
  BY <1>2, <1>4, <1>5

LEMMA CommitKeeps == ASSUME Inv, NEW r \in Request, Commit(r) PROVE Inv'
<1>0. /\ req \in [Request -> Req] /\ req[r] \in Req /\ row \in Row /\ req[r].user \in Row
      /\ Sound(req[r]) /\ req[r].pc = "flushed"
  BY DEF Inv, Types, Req, Commit
<1>1. /\ row' = [c \in Column |-> IF c \in Written(r) THEN req[r].user[c] ELSE row[c]]
      /\ used' = used \cup req[r].dying
      /\ again' = again \cup (req[r].link \cap spent)
      /\ spent' = spent \cup req[r].link
      /\ lost' = (lost \/ req[r].stale)
      /\ req' = [s \in Request |-> IF s = r THEN Idle ELSE
                                   Outdated(req[s], <<row, used>>' # <<row, used>>)]
      /\ sent' = sent /\ expired' = expired
  BY DEF Commit
<1>2. row' \in Row
  <2>1. \A c \in Column : row'[c] = req[r].user[c] \/ row'[c] = row[c]
    BY <1>1
  <2>2. row' = [c \in Column |-> row'[c]]
    BY <1>1
  <2>3. row'["password"] \in Temporary \cup Chosen /\ row'["deadline"] \in Temporary \cup {NoDeadline}
    BY <1>0, <2>1 DEF Row, Column
  <2>4. row'["mustChange"] \in BOOLEAN
    BY <1>0, <2>1 DEF Row, Column
  <2> QED
    BY <2>2, <2>3, <2>4, RowOfColumns
<1>3. ASSUME NEW s \in Request, s # r
      PROVE  /\ req'[s] \in Req /\ req'[s].pc = req[s].pc /\ req'[s].op = req[s].op
             /\ req'[s].user = req[s].user /\ req'[s].base = req[s].base
             /\ req'[s].link = req[s].link /\ req'[s].seen = req[s].seen
             /\ req'[s].dying = req[s].dying
             /\ req'[s].pc # "idle" /\ req'[s].stale = FALSE =>
                  req[s].stale = FALSE /\ row' = row /\ used' = used
  <2> DEFINE stale == req[s].pc # "idle" /\ (req[s].stale \/ <<row, used>>' # <<row, used>>)
  <2>1. req'[s] = [req[s] EXCEPT !.stale = stale]
    BY <1>1, <1>3 DEF Outdated
  <2>2. req[s] \in Req /\ stale \in BOOLEAN
    BY <1>0
  <2>3. req[s].pc # "idle" /\ stale = FALSE => req[s].stale = FALSE /\ row' = row /\ used' = used
    <3>1. req[s].stale \in BOOLEAN
      BY <1>0 DEF Req
    <3> QED
      BY <3>1
  <2> HIDE DEF stale
  <2>4. /\ req'[s] \in Req /\ req'[s].pc = req[s].pc /\ req'[s].op = req[s].op
        /\ req'[s].user = req[s].user /\ req'[s].base = req[s].base
        /\ req'[s].link = req[s].link /\ req'[s].seen = req[s].seen
        /\ req'[s].dying = req[s].dying
    BY <2>1, <2>2 DEF Req
  <2>5. req'[s].stale = stale
    BY <2>1, <2>2 DEF Req
  <2> QED
    BY <2>3, <2>4, <2>5
<1>4. req'[r] = Idle
  BY <1>1
<1>5. Types'
  <2>1. req' \in [Request -> Req]
    BY <1>1, <1>3, <1>4, InitialTypes
  <2>2. req[r].link \subseteq used \cup req[r].dying /\ req[r].dying \subseteq sent
    BY <1>0 DEF Sound, Marks
  <2>3. lost' \in BOOLEAN
    BY <1>1
  <2>4. /\ sent' \subseteq Link /\ used' \subseteq sent' /\ expired' \subseteq sent'
        /\ spent' \subseteq used' /\ again' \subseteq spent'
    BY <1>1, <2>2 DEF Inv, Types
  <2> QED
    BY <1>2, <2>1, <2>3, <2>4 DEF Types
<1>6. ASSUME NEW s \in Request PROVE Sound(req[s])'
  <2>1. CASE s = r
    BY <1>4, <2>1 DEF Sound, Marks, Idle
  <2>2. CASE s # r
    <3>1. Sound(req[s])
      BY DEF Inv
    <3>2. Marks(req[s])'
      BY <1>1, <1>3, <2>2, <3>1 DEF Sound, Marks
    <3>3. req'[s].pc \notin {"idle", "load"} => Brings(req[s])'
      BY <1>3, <2>2, <3>1 DEF Sound, Brings
    <3>4. req'[s].pc # "idle" /\ req'[s].stale = FALSE => Fresh(req[s])'
      BY <1>3, <2>2, <3>1 DEF Sound, Fresh
    <3> QED
      BY <3>2, <3>3, <3>4 DEF Sound
  <2> QED
    BY <2>1, <2>2
<1>7. lost' = FALSE => lost = FALSE /\ req[r].stale = FALSE
  <2>1. lost \in BOOLEAN /\ req[r].stale \in BOOLEAN
    BY <1>0 DEF Inv, Types, Req
  <2> QED
    BY <1>1, <2>1
<1>8. ASSUME lost' = FALSE PROVE FlagFollowsPassword' /\ LinkWorksOnce'
  <2>1. row' = req[r].user /\ Brings(req[r]) /\ Fresh(req[r]) /\ lost = FALSE
    BY <1>7, <1>8, FreshCommit
  <2>2. LinkWorksOnce'
    <3>1. again = {}
      BY <2>1 DEF Inv, LinkWorksOnce
    <3> QED
      BY <1>1, <2>1, <3>1 DEF Fresh, LinkWorksOnce, Inv, Types
  <2>3. FlagFollowsPassword'
    <3> SUFFICES ASSUME spent' = {} PROVE OwesItsChoice'
      BY DEF FlagFollowsPassword
    <3>1. spent = {} /\ req[r].op # "reset"
      BY <1>0, <1>1 DEF Sound, Marks
    <3>2. OwesItsChoice
      BY <2>1, <3>1 DEF Inv, FlagFollowsPassword
    <3>3. CASE req[r].op = "other"
      BY <2>1, <3>2, <3>3 DEF Fresh, OwesItsChoice
    <3>4. CASE req[r].op = "change"
      BY <2>1, <3>4, CredentialsAssumption DEF Brings, OwesItsChoice
    <3>5. CASE req[r].op = "temporary"
      BY <2>1, <3>5 DEF Brings, OwesItsChoice
    <3> QED
      BY <1>0, <3>1, <3>3, <3>4, <3>5 DEF Req
  <2> QED
    BY <2>2, <2>3
<1>9. FlagFollowsPassword' /\ LinkWorksOnce'
  <2>1. lost' \in BOOLEAN
    BY <1>5 DEF Types
  <2>2. CASE lost' = TRUE
    BY <2>2 DEF FlagFollowsPassword, LinkWorksOnce
  <2> QED
    BY <1>8, <2>1, <2>2
<1> QED
  BY <1>5, <1>6, <1>9 DEF Inv

\* A link is asked for, or expires.
LEMMA LinksKeep ==
  ASSUME Inv, NEW l \in Link, ForgotPassword(l) \/ LinkExpires(l) PROVE Inv'
<1>1. /\ row' = row /\ used' = used /\ spent' = spent /\ again' = again /\ lost' = lost
      /\ req' = req /\ sent \subseteq sent' /\ sent' \subseteq sent \cup {l}
      /\ expired' \subseteq expired \cup sent
  BY DEF ForgotPassword, LinkExpires, Open
<1>2. Types'
  BY <1>1 DEF Inv, Types
<1>3. ASSUME NEW s \in Request PROVE Sound(req[s])'
  <2>1. Sound(req[s])
    BY DEF Inv
  <2> QED
    BY <1>1, <2>1 DEF Sound, Marks, Brings, Fresh
<1>4. FlagFollowsPassword' /\ LinkWorksOnce'
  BY <1>1 DEF Inv, FlagFollowsPassword, OwesItsChoice, LinkWorksOnce
<1> QED
  BY <1>2, <1>3, <1>4 DEF Inv

-----------------------------------------------------------------------------
\* The invariant holds throughout.
LEMMA AlwaysInv == Spec => []Inv
<1>1. Init => Inv
  <2> SUFFICES ASSUME Init PROVE Inv
    OBVIOUS
  <2>1. Types
    BY InitialTypes DEF Init, Types
  <2>2. \A r \in Request : Sound(req[r])
    BY IdleSound DEF Init
  <2>3. FlagFollowsPassword /\ LinkWorksOnce
    BY CredentialsAssumption DEF Init, FlagFollowsPassword, OwesItsChoice, LinkWorksOnce, Created
  <2> QED
    BY <2>1, <2>2, <2>3 DEF Inv
<1>2. Inv /\ [Next]_vars => Inv'
  <2> SUFFICES ASSUME Inv, [Next]_vars PROVE Inv'
    OBVIOUS
  <2>1. CASE UNCHANGED vars
    <3>1. Types'
      BY <2>1 DEF vars, Inv, Types
    <3>2. ASSUME NEW s \in Request PROVE Sound(req[s])'
      <4>1. Sound(req[s])
        BY DEF Inv
      <4> QED
        BY <2>1, <4>1 DEF vars, Sound, Marks, Brings, Fresh
    <3>3. FlagFollowsPassword' /\ LinkWorksOnce'
      BY <2>1 DEF vars, Inv, FlagFollowsPassword, OwesItsChoice, LinkWorksOnce
    <3> QED
      BY <3>1, <3>2, <3>3 DEF Inv
  <2>2. CASE Next
    BY <2>2, LinksKeep, ArriveKeeps, ResetKeeps, RereadKeeps, FlushKeeps, CommitKeeps, RollbackKeeps DEF Next
  <2> QED
    BY <2>1, <2>2
<1> QED
  BY <1>1, <1>2, PTL DEF Spec

\* The row, the links and what the requests carry keep their types; a link that
\* has changed the password is marked used.
THEOREM TypeCorrect == Spec => []TypeOK
<1>1. Inv => TypeOK
  <2> SUFFICES ASSUME Inv PROVE TypeOK
    OBVIOUS
  <2> DEFINE Known == [pc: {"idle", "load", "update", "flush", "flushed"},
                       op: {"change", "reset", "temporary", "other"},
                       stale: BOOLEAN, user: Row, base: Row,
                       link: SUBSET sent, seen: SUBSET sent, dying: SUBSET sent]
  <2>1. ASSUME NEW r \in Request PROVE req[r] \in Known
    <3>1. req[r] \in Req /\ Marks(req[r])
      BY DEF Inv, Types, Sound
    <3>2. /\ req[r].link \in SUBSET sent /\ req[r].seen \in SUBSET sent
          /\ req[r].dying \in SUBSET sent
      BY <3>1 DEF Marks
    <3> QED
      BY <3>1, <3>2 DEF Req
  <2>2. req \in [Request -> Known]
    BY <2>1 DEF Inv, Types
  <2> QED
    BY <2>2 DEF Inv, Types, TypeOK
<1> QED
  BY <1>1, AlwaysInv, PTL

\* Flag, deadline and password agree while no link was used and no update lost.
THEOREM FlagAgrees == Spec => []FlagFollowsPassword
<1>1. Inv => FlagFollowsPassword
  BY DEF Inv
<1> QED
  BY <1>1, AlwaysInv, PTL

\* A recovery link changes the password once, unless a stale request commits.
THEOREM UsableOnce == Spec => []LinkWorksOnce
<1>1. Inv => LinkWorksOnce
  BY DEF Inv
<1> QED
  BY <1>1, AlwaysInv, PTL

\* A password its owner chose, with the Boolean column compared.
Theirs(u) == u["password"] \in Chosen /\ u["mustChange"] = FALSE /\ u["deadline"] = NoDeadline

\* What a request that arrives has in hand is the owner's if the row is:
\* reset_temporary_password is refused, and the others keep flag and date down.
LEMMA ArriveOwned ==
  ASSUME Inv, NEW r \in Request, Arrive(r) \/ \E p \in Chosen : ResetPassword(r, p), Theirs(row)
  PROVE  \E q : /\ req' = [req EXCEPT ![r] = q] /\ row' = row
                /\ q.pc = "load" \/ Theirs(q.user)
<1>0. row \in Row /\ req[r] \in Req /\ req \in [Request -> Req]
  BY DEF Inv, Types
<1> DEFINE Goal == \E q : /\ req' = [req EXCEPT ![r] = q] /\ row' = row
                          /\ q.pc = "load" \/ Theirs(q.user)
<1>1. ASSUME NEW op, NEW u, Handle(r, op, u), Theirs(u) PROVE Goal
  <2> DEFINE q == [Idle EXCEPT !.pc = "update", !.op = op, !.user = u]
  <2>1. req' = [req EXCEPT ![r] = q] /\ row' = row /\ q.user = u
    BY <1>1 DEF Handle, Idle
  <2> HIDE DEF q
  <2> QED
    BY <1>1, <2>1
<1>2. ASSUME NEW p \in Chosen, ChangePassword(r, p) PROVE Goal
  <2> DEFINE u == [row EXCEPT !.password = p, !.mustChange = FALSE, !.deadline = NoDeadline]
  <2>1. Handle(r, "change", u)
    BY <1>2 DEF ChangePassword
  <2>2. u["password"] = p /\ u["deadline"] = NoDeadline
    BY <1>0 DEF Row
  <2>3. u["mustChange"] = FALSE
    BY <1>0 DEF Row
  <2> HIDE DEF u, Goal
  <2> QED
    BY <1>1, <2>1, <2>2, <2>3 DEF Theirs
<1>3. ASSUME NEW p \in Chosen, ResetPassword(r, p) PROVE Goal
  <2> DEFINE u == [row EXCEPT !.password = p]
             stale == req[r].link \cap req[r].seen \cap used # {}
             q == [req[r] EXCEPT !.pc = "update", !.user = u, !.stale = stale]
  <2>1. req' = [req EXCEPT ![r] = q] /\ row' = row
    BY <1>0, <1>3 DEF ResetPassword
  <2>2. u["password"] = p /\ u["deadline"] = row["deadline"]
    BY <1>0 DEF Row
  <2>3. u["mustChange"] = row["mustChange"]
    BY <1>0 DEF Row
  <2> HIDE DEF u, stale
  <2>4. q.user = u
    BY <1>0 DEF Req
  <2> HIDE DEF q
  <2> QED
    BY <2>1, <2>2, <2>3, <2>4 DEF Theirs
<1>4. ASSUME NEW l \in Link, FindLink(r, l) PROVE Goal
  <2> DEFINE q == [Idle EXCEPT !.pc = "load", !.op = "reset", !.link = {l}, !.seen = Open]
  <2>1. req' = [req EXCEPT ![r] = q] /\ row' = row /\ q.pc = "load"
    BY <1>4 DEF FindLink, Hold, Idle
  <2> HIDE DEF q
  <2> QED
    BY <2>1
<1>5. ASSUME NEW p \in Temporary PROVE ~ResetTemporaryPassword(r, p)
  BY DEF ResetTemporaryPassword, Theirs
<1>6. ASSUME UpdateProfile(r) PROVE Goal
  <2> HIDE DEF Goal
  <2> QED
    BY <1>1, <1>6 DEF UpdateProfile
<1>7. Goal
  <2> HIDE DEF Goal
  <2> QED
    BY <1>2, <1>3, <1>4, <1>5, <1>6 DEF Arrive
<1> QED
  BY <1>7

\* The other steps of a request leave every User alone, and each column of the
\* row as it was or as a request under way has it.
LEMMA ColumnsFrom ==
  ASSUME Inv, NEW r \in Request, Reread(r) \/ Flush(r) \/ Commit(r) \/ Rollback(r)
  PROVE  /\ \A s \in Request : req'[s].pc \notin {"idle", "load"} =>
              req[s].pc \notin {"idle", "load"} /\ req'[s].user = req[s].user
         /\ \/ row' = row
            \/ /\ req[r].pc \notin {"idle", "load"}
               /\ \A c \in Column : row'[c] = req[r].user[c] \/ row'[c] = row[c]
<1>0. req \in [Request -> Req]
  BY DEF Inv, Types
<1>1. ASSUME NEW q, req' = [req EXCEPT ![r] = q], q.user = req[r].user,
             req[r].pc \notin {"idle", "load"}
      PROVE  \A s \in Request : req'[s].pc \notin {"idle", "load"} =>
               req[s].pc \notin {"idle", "load"} /\ req'[s].user = req[s].user
  BY <1>0, <1>1
<1>2. CASE Reread(r)
  <2> DEFINE q == [req[r] EXCEPT !.pc = "flush", !.base = row]
  <2>1. req' = [req EXCEPT ![r] = q] /\ row' = row /\ req[r].pc \notin {"idle", "load"}
    BY <1>0, <1>2 DEF Reread
  <2>2. q.user = req[r].user
    BY <1>0 DEF Req
  <2> HIDE DEF q
  <2> QED
    BY <1>1, <2>1, <2>2
<1>3. CASE Flush(r)
  <2> DEFINE q == [req[r] EXCEPT !.pc = "flushed", !.dying = MarkedUsed(r)]
  <2>1. req' = [req EXCEPT ![r] = q] /\ row' = row /\ req[r].pc \notin {"idle", "load"}
    BY <1>0, <1>3 DEF Flush
  <2>2. q.user = req[r].user
    BY <1>0 DEF Req
  <2> HIDE DEF q
  <2> QED
    BY <1>1, <2>1, <2>2
<1>4. CASE Rollback(r)
  BY <1>0, <1>4 DEF Rollback, Idle
<1>5. CASE Commit(r)
  <2>1. \A c \in Column : row'[c] = req[r].user[c] \/ row'[c] = row[c]
    BY <1>5 DEF Commit
  <2>2. ASSUME NEW s \in Request, req'[s].pc \notin {"idle", "load"}
        PROVE  req[s].pc \notin {"idle", "load"} /\ req'[s].user = req[s].user
    <3> DEFINE stale == req[s].pc # "idle" /\ (req[s].stale \/ <<row, used>>' # <<row, used>>)
    <3>1. s # r
      BY <1>5, <2>2 DEF Commit, Idle
    <3>2. req'[s] = [req[s] EXCEPT !.stale = stale] /\ req[s] \in Req
      BY <1>0, <1>5, <3>1 DEF Commit, Outdated
    <3> HIDE DEF stale
    <3> QED
      BY <2>2, <3>2 DEF Req
  <2> QED
    BY <1>5, <2>1, <2>2 DEF Commit
<1> QED
  BY <1>2, <1>3, <1>4, <1>5

\* Once the row and every request under way have it, the owner's choice is never
\* replaced by a temporary password, nor put under a flag or a date again.
THEOREM OwnerKeeps == Spec => OwnerKeepsPassword
<1> DEFINE All == Theirs(row) /\ \A s \in Request : req[s].pc \notin {"idle", "load"} => Theirs(req[s].user)
           AllNext == Theirs(row') /\ \A s \in Request : req'[s].pc \notin {"idle", "load"} => Theirs(req'[s].user)
<1>1. ASSUME Inv, [Next]_vars, All PROVE AllNext
  <2>0. req \in [Request -> Req]
    BY <1>1 DEF Inv, Types
  <2>1. ASSUME NEW r \in Request, Arrive(r) \/ \E p \in Chosen : ResetPassword(r, p)
        PROVE  AllNext
    <3>1. PICK q : /\ req' = [req EXCEPT ![r] = q] /\ row' = row
                   /\ q.pc = "load" \/ Theirs(q.user)
      BY <1>1, <2>1, ArriveOwned
    <3> QED
      BY <1>1, <2>0, <3>1
  <2>2. ASSUME NEW r \in Request, Reread(r) \/ Flush(r) \/ Commit(r) \/ Rollback(r)
        PROVE  AllNext
    <3>1. /\ \A s \in Request : req'[s].pc \notin {"idle", "load"} =>
                req[s].pc \notin {"idle", "load"} /\ req'[s].user = req[s].user
          /\ \/ row' = row
             \/ /\ req[r].pc \notin {"idle", "load"}
                /\ \A c \in Column : row'[c] = req[r].user[c] \/ row'[c] = row[c]
      BY <1>1, <2>2, ColumnsFrom
    <3>2. Theirs(row')
      BY <1>1, <3>1 DEF Theirs, Column
    <3> QED
      BY <1>1, <3>1, <3>2
  <2>3. ASSUME NEW l \in Link, ForgotPassword(l) \/ LinkExpires(l) PROVE AllNext
    BY <1>1, <2>3 DEF ForgotPassword, LinkExpires
  <2>4. ASSUME UNCHANGED vars PROVE AllNext
    BY <1>1, <2>4 DEF vars
  <2> HIDE DEF AllNext
  <2> QED
    BY <1>1, <2>1, <2>2, <2>3, <2>4 DEF Next
<1>2. Inv => (AllOwned <=> All)
  <2> SUFFICES ASSUME Inv PROVE AllOwned <=> All
    OBVIOUS
  <2>1. row.mustChange \in BOOLEAN /\ \A s \in Request : req[s].user.mustChange \in BOOLEAN
    BY DEF Inv, Types, Req, Row
  <2> QED
    BY <2>1 DEF AllOwned, Owned, Theirs
<1>3. Inv' => (AllOwned' <=> AllNext)
  <2> SUFFICES ASSUME Inv' PROVE AllOwned' <=> AllNext
    OBVIOUS
  <2>1. row'.mustChange \in BOOLEAN /\ \A s \in Request : req'[s].user.mustChange \in BOOLEAN
    BY DEF Inv, Types, Req, Row
  <2> QED
    BY <2>1 DEF AllOwned, Owned, Theirs
<1>4. Inv /\ Inv' /\ [Next]_vars => [AllOwned => AllOwned']_vars
  <2> HIDE DEF All, AllNext
  <2> QED
    BY <1>1, <1>2, <1>3
<1> QED
  BY <1>4, AlwaysInv, PTL DEF Spec, OwnerKeepsPassword

\* Once a reset commits, every link that was open when it began is used.
THEOREM LinksDie == Spec => LinksDieTogether
<1> DEFINE A == \A r \in Ending : req[r].op = "reset" => req[r].seen \subseteq used'
<1>1. Inv /\ [Next]_vars => [A]_vars
  <2> SUFFICES ASSUME Inv, Next, NEW r \in Request, req[r].pc = "flushed", req'[r].pc = "idle",
                      <<row, links>>' # <<row, links>>, req[r].op = "reset"
               PROVE  req[r].seen \subseteq used'
    BY DEF Ending
  <2>0. req \in [Request -> Req] /\ Sound(req[r])
    BY DEF Inv, Types
  <2>1. ASSUME NEW l \in Link, ForgotPassword(l) \/ LinkExpires(l) PROVE FALSE
    BY <2>1 DEF ForgotPassword, LinkExpires
  <2>2. ASSUME NEW s \in Request,
               \/ Arrive(s) \/ \E p \in Chosen : ResetPassword(s, p)
               \/ Reread(s) \/ Flush(s) \/ Rollback(s)
        PROVE  FALSE
    BY <2>2 DEF Arrive, ChangePassword, FindLink, Hold, ResetPassword, ResetTemporaryPassword,
       UpdateProfile, Handle, Reread, Flush, Rollback
  <2>3. ASSUME NEW s \in Request, Commit(s), s # r PROVE FALSE
    <3>1. req'[r] = Outdated(req[r], <<row, used>>' # <<row, used>>)
      BY <2>3 DEF Commit
    <3>2. req'[r].pc = req[r].pc
      BY <2>0, <3>1 DEF Outdated, Req
    <3> QED
      BY <3>2
  <2>4. CASE Commit(r)
    BY <2>0, <2>4 DEF Commit, Sound, Marks
  <2> QED
    BY <2>1, <2>2, <2>3, <2>4 DEF Next
<1> QED
  BY <1>1, AlwaysInv, PTL DEF Spec, LinksDieTogether
=============================================================================
