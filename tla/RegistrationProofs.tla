-------------------------- MODULE RegistrationProofs --------------------------
(***************************************************************************)
(* Proofs about Registration, for any number of attempts and any addresses *)
(* and handles.  The doors only touch attempt, row, links and announced,   *)
(* the verification leaves attempt alone.                                  *)
(***************************************************************************)
EXTENDS Registration, TLAPS

\* What a stored email or handle is like, and who may hold an index entry.
Keys ==
  /\ \A a \in Attempt : /\ Lower[attempt[a].email] = attempt[a].email
                        /\ Lower[attempt[a].handle] = attempt[a].handle
  /\ \A a, b \in Attempt : a # b /\ HoldsEmail(a) /\ HoldsEmail(b) =>
                             attempt[a].email # attempt[b].email
  /\ \A a, b \in Attempt : a # b /\ HoldsHandle(a) /\ HoldsHandle(b) =>
                             attempt[a].handle # attempt[b].handle

\* What the look-up of an attempt still says while no rival has committed.
LookupStands ==
  \A a \in Attempt : attempt[a].pc \in {"email", "handle"} /\ ~attempt[a].overlapped =>
    \A b \in Attempt : Exists(b) =>
      /\ attempt[b].email # attempt[a].email
      /\ attempt[b].handle # attempt[a].handle \/ attempt[a].door = "seed"

\* Only accounts that were registered are ever unverified or have links.
Mailed ==
  /\ \A a \in Attempt : Exists(a) /\ attempt[a].door # "register" => row[a].verified
  /\ \A a \in asking \cup opening : attempt[a].door = "register"

AttemptType == [pc: {"new", "email", "handle", "inserted", "conflict", "done"},
                door: Door, email: Email, handle: Handle, overlapped: BOOLEAN]

IInv == TypeOK /\ Keys /\ LookupStands /\ ConflictNeedsOverlap /\ Mailed /\ BornWhole

-----------------------------------------------------------------------------
LEMMA BlankType == Blank \in AttemptType
                   /\ Lower[Blank.email] = Blank.email /\ Lower[Blank.handle] = Blank.handle
  BY RegistrationAssumption DEF Blank, AttemptType, Door

LEMMA InitHolds == Init => IInv
<1> SUFFICES ASSUME Init PROVE IInv
  OBVIOUS
<1>1. \A a \in Attempt : attempt[a] = Blank /\ attempt[a].pc = "new"
  BY DEF Init, Blank
<1>2. \A a \in Attempt : ~Exists(a)
  BY <1>1 DEF Exists
<1>3. TypeOK
  <2>1. attempt \in [Attempt -> AttemptType]
    BY BlankType DEF Init
  <2>2. row \in [Attempt -> Row]
    BY DEF Init, Row, Unverified
  <2> QED BY <2>1, <2>2 DEF TypeOK, AttemptType, Init
<1>4. Keys
  BY <1>1, BlankType DEF Keys, HoldsEmail, HoldsHandle
<1>5. LookupStands /\ ConflictNeedsOverlap
  BY <1>1 DEF LookupStands, ConflictNeedsOverlap
<1>6. Mailed /\ BornWhole
  BY <1>2 DEF Mailed, BornWhole, Init
<1> QED BY <1>3, <1>4, <1>5, <1>6 DEF IInv

-----------------------------------------------------------------------------
(* The doors.                                                              *)

\* An attempt that starts, with what it looked for.
LEMMA ProceedKeeps ==
  ASSUME IInv, NEW a \in Attempt, NEW door \in Door, NEW email \in Email, NEW handle \in Handle,
         Lower[email] = email, Lower[handle] = handle,
         \A b \in Attempt : Exists(b) =>
           attempt[b].email # email /\ (attempt[b].handle # handle \/ door = "seed"),
         Proceed(a, door, email, handle)
  PROVE  IInv'
<1> DEFINE q == [pc |-> "email", door |-> door, email |-> email, handle |-> handle,
                 overlapped |-> FALSE]
<1>1. attempt[a].pc = "new" /\ attempt' = [attempt EXCEPT ![a] = q]
      /\ UNCHANGED <<row, links, announced, asking, opening>>
  BY DEF Proceed
<1>2. q \in AttemptType
  BY DEF AttemptType
<1>3. attempt \in [Attempt -> AttemptType]
  BY DEF IInv, TypeOK, AttemptType
<1>4. q.pc = "email" /\ q.door = door /\ q.email = email /\ q.handle = handle
  OBVIOUS
<1> HIDE DEF q
<1>5. attempt' \in [Attempt -> AttemptType] /\ attempt'[a] = q
      /\ \A b \in Attempt : b # a => attempt'[b] = attempt[b]
  BY <1>1, <1>2, <1>3
<1>6. \A b \in Attempt : Exists(b)' <=> Exists(b)
  BY <1>1, <1>4, <1>5 DEF Exists
<1>7. \A b \in Attempt : /\ Exists(b)' => attempt'[b] = attempt[b]
                         /\ HoldsEmail(b)' => b # a /\ HoldsEmail(b)
                         /\ HoldsHandle(b)' => b # a /\ HoldsHandle(b)
  BY <1>1, <1>4, <1>5 DEF Exists, HoldsEmail, HoldsHandle
<1>8. TypeOK'
  BY <1>1, <1>5, <1>6 DEF IInv, TypeOK, AttemptType
<1>9. Keys'
  BY <1>4, <1>5, <1>7 DEF IInv, Keys
<1>10. LookupStands'
  BY <1>4, <1>5, <1>6, <1>7 DEF IInv, LookupStands
<1>11. ConflictNeedsOverlap'
  BY <1>4, <1>5, <1>6, <1>7 DEF IInv, ConflictNeedsOverlap
<1>12. Mailed' /\ BornWhole'
  BY <1>1, <1>5, <1>6, <1>7 DEF IInv, TypeOK, Mailed, BornWhole
<1> QED BY <1>8, <1>9, <1>10, <1>11, <1>12 DEF IInv

LEMMA EnterKeeps ==
  ASSUME IInv, NEW a \in Attempt, Enter(a)
  PROVE  IInv'
<1>1. ASSUME NEW email \in Email, NEW handle \in Handle, Register(a, email, handle)
      PROVE  IInv'
  <2>1. /\ Lower[email] \in Email /\ Lower[handle] \in Handle
        /\ Lower[Lower[email]] = Lower[email] /\ Lower[Lower[handle]] = Lower[handle]
    BY RegistrationAssumption
  <2>2. \A b \in Attempt : Exists(b) =>
          attempt[b].email # Lower[email] /\ (attempt[b].handle # Lower[handle] \/ "register" = "seed")
    BY <1>1 DEF Register, Taken, Normalised
  <2>3. Proceed(a, "register", Lower[email], Lower[handle]) /\ "register" \in Door
    BY <1>1 DEF Register, Normalised, Door
  <2> QED BY <2>1, <2>2, <2>3, ProceedKeeps
<1>2. ASSUME NEW email \in Email, NEW handle \in Handle, CreateAdministrator(a, email, handle)
      PROVE  IInv'
  <2>1. /\ Lower[email] \in Email /\ Lower[handle] \in Handle
        /\ Lower[Lower[email]] = Lower[email] /\ Lower[Lower[handle]] = Lower[handle]
    BY RegistrationAssumption
  <2>2. \A b \in Attempt : Exists(b) =>
          attempt[b].email # Lower[email] /\ (attempt[b].handle # Lower[handle] \/ "admin" = "seed")
    BY <1>2 DEF CreateAdministrator, Taken, Normalised
  <2>3. Proceed(a, "admin", Lower[email], Lower[handle]) /\ "admin" \in Door
    BY <1>2 DEF CreateAdministrator, Normalised, Door
  <2> QED BY <2>1, <2>2, <2>3, ProceedKeeps
<1>3. ASSUME Seed(a) PROVE IInv'
  <2>1. /\ Lower[SeedEmail] \in Email /\ Lower[SeedHandle] \in Handle
        /\ Lower[Lower[SeedEmail]] = Lower[SeedEmail]
        /\ Lower[Lower[SeedHandle]] = Lower[SeedHandle]
    BY RegistrationAssumption
  <2>2. \A b \in Attempt : Exists(b) =>
          /\ attempt[b].email # Lower[SeedEmail]
          /\ attempt[b].handle # Lower[SeedHandle] \/ "seed" = "seed"
    BY <1>3 DEF Seed, Normalised
  <2>3. Proceed(a, "seed", Lower[SeedEmail], Lower[SeedHandle]) /\ "seed" \in Door
    BY <1>3 DEF Seed, Normalised, Door
  <2> QED BY <2>1, <2>2, <2>3, ProceedKeeps
<1> QED BY <1>1, <1>2, <1>3 DEF Enter

\* An index entry, or IntegrityError: only the pc of a changes.
LEMMA InsertKeeps ==
  ASSUME IInv, NEW a \in Attempt, InsertEmail(a) \/ InsertHandle(a)
  PROVE  IInv'
<1> DEFINE new == attempt'[a].pc
<1>1. /\ attempt \in [Attempt -> AttemptType]
      /\ UNCHANGED <<row, links, announced, asking, opening>>
  BY DEF IInv, TypeOK, AttemptType, InsertEmail, InsertHandle
<1>2. /\ attempt' \in [Attempt -> AttemptType]
      /\ \A b \in Attempt : /\ attempt'[b].email = attempt[b].email
                            /\ attempt'[b].handle = attempt[b].handle
                            /\ attempt'[b].door = attempt[b].door
                            /\ attempt'[b].overlapped = attempt[b].overlapped
                            /\ b # a => attempt'[b].pc = attempt[b].pc
  BY <1>1 DEF AttemptType, InsertEmail, InsertHandle
<1>3. \/ /\ attempt[a].pc = "email" /\ new = "handle"
         /\ \A b \in Attempt \ {a} : ~(HoldsEmail(b) /\ attempt[b].email = attempt[a].email)
      \/ /\ attempt[a].pc = "handle" /\ new = "inserted"
         /\ \A b \in Attempt \ {a} : ~(HoldsHandle(b) /\ attempt[b].handle = attempt[a].handle)
      \/ /\ attempt[a].pc = "email" /\ new = "conflict"
         /\ \E b \in Attempt \ {a} : Exists(b) /\ attempt[b].email = attempt[a].email
      \/ /\ attempt[a].pc = "handle" /\ new = "conflict"
         /\ \E b \in Attempt \ {a} : Exists(b) /\ attempt[b].handle = attempt[a].handle
  BY <1>1 DEF AttemptType, InsertEmail, InsertHandle
<1> HIDE DEF new
<1>4. \A b \in Attempt : Exists(b)' <=> Exists(b)
  BY <1>2, <1>3 DEF Exists, new
<1>5. TypeOK'
  BY <1>1, <1>2, <1>4 DEF IInv, TypeOK, AttemptType
<1>6. Keys'
  <2>1. \A b \in Attempt : /\ Lower[attempt'[b].email] = attempt'[b].email
                           /\ Lower[attempt'[b].handle] = attempt'[b].handle
    BY <1>2 DEF IInv, Keys
  <2>2. ASSUME NEW b \in Attempt, NEW c \in Attempt, b # c, HoldsEmail(b)', HoldsEmail(c)'
        PROVE  attempt'[b].email # attempt'[c].email
    BY <1>2, <1>3, <2>2 DEF IInv, Keys, HoldsEmail, new
  <2>3. ASSUME NEW b \in Attempt, NEW c \in Attempt, b # c, HoldsHandle(b)', HoldsHandle(c)'
        PROVE  attempt'[b].handle # attempt'[c].handle
    BY <1>2, <1>3, <2>3 DEF IInv, Keys, HoldsHandle, new
  <2> QED BY <2>1, <2>2, <2>3 DEF Keys
<1>7. LookupStands'
  BY <1>2, <1>3, <1>4 DEF IInv, LookupStands, new
<1>8. ConflictNeedsOverlap'
  <2> SUFFICES ASSUME NEW b \in Attempt, attempt'[b].pc = "conflict", ~attempt'[b].overlapped
               PROVE  /\ attempt'[b].door = "seed"
                      /\ \E c \in Attempt : /\ Exists(c)'
                                            /\ attempt'[c].handle = attempt'[b].handle
                                            /\ attempt'[c].email # attempt'[b].email
    BY DEF ConflictNeedsOverlap
  <2>1. CASE b # a
    BY <1>2, <1>4, <2>1 DEF IInv, ConflictNeedsOverlap
  <2>2. CASE b = a
    BY <1>2, <1>3, <1>4, <2>2 DEF IInv, LookupStands, new
  <2> QED BY <2>1, <2>2
<1>9. Mailed' /\ BornWhole'
  BY <1>1, <1>2, <1>4 DEF IInv, TypeOK, Mailed, BornWhole
<1> QED BY <1>5, <1>6, <1>7, <1>8, <1>9 DEF IInv

LEMMA CreateKeeps ==
  ASSUME IInv, NEW a \in Attempt, Create(a)
  PROVE  IInv'
<1> DEFINE door == attempt[a].door
           Rival(b) == \/ attempt[b].email = attempt[a].email
                       \/ attempt[b].handle = attempt[a].handle
<1>1. /\ attempt \in [Attempt -> AttemptType] /\ row \in [Attempt -> Row]
      /\ links \in [Attempt -> SUBSET {"fresh", "used", "expired"}]
      /\ announced \in [Attempt -> SUBSET {"user.registered", "admin.created"}]
      /\ attempt[a].pc = "inserted" /\ UNCHANGED <<asking, opening>>
  BY DEF IInv, TypeOK, AttemptType, Create
<1>2. /\ attempt' \in [Attempt -> AttemptType]
      /\ attempt'[a].pc = "done"
      /\ \A b \in Attempt :
           /\ attempt'[b].email = attempt[b].email
           /\ attempt'[b].handle = attempt[b].handle
           /\ attempt'[b].door = attempt[b].door
           /\ b # a => /\ attempt'[b].pc = attempt[b].pc
                       /\ attempt'[b].overlapped =
                            (attempt[b].overlapped
                              \/ (attempt[b].pc \in {"email", "handle"} /\ Rival(b)))
  BY <1>1 DEF AttemptType, Create, AfterCommit
<1>3. /\ row' = [row EXCEPT ![a] = NewRow(door)]
      /\ links' = [links EXCEPT ![a] = IF door = "register" THEN {"fresh"} ELSE {}]
      /\ announced' = [announced EXCEPT ![a] = Announces(door)]
  BY DEF Create
<1>4. \A b \in Attempt : /\ Exists(b)' <=> (b = a \/ Exists(b))
                         /\ HoldsEmail(b)' <=> HoldsEmail(b)
                         /\ HoldsHandle(b)' <=> HoldsHandle(b)
  BY <1>1, <1>2 DEF Exists, HoldsEmail, HoldsHandle
<1>5. TypeOK'
  <2>1. Announces(door) \in SUBSET {"user.registered", "admin.created"}
    BY DEF Announces
  <2>2. row' \in [Attempt -> Row]
    BY <1>1, <1>3 DEF Row, NewRow
  <2> QED BY <1>1, <1>2, <1>3, <1>4, <2>1, <2>2 DEF IInv, TypeOK, AttemptType
<1>6. Keys'
  BY <1>2, <1>4 DEF IInv, Keys
<1>7. LookupStands'
  <2> SUFFICES ASSUME NEW b \in Attempt, attempt'[b].pc \in {"email", "handle"},
                      ~attempt'[b].overlapped, NEW c \in Attempt, Exists(c)'
               PROVE  /\ attempt'[c].email # attempt'[b].email
                      /\ attempt'[c].handle # attempt'[b].handle \/ attempt'[b].door = "seed"
    BY DEF LookupStands
  <2>1. b # a /\ attempt[b].pc \in {"email", "handle"} /\ ~attempt[b].overlapped /\ ~Rival(b)
    BY <1>2
  <2>2. CASE c = a
    BY <1>2, <2>1, <2>2
  <2>3. CASE c # a
    BY <1>2, <1>4, <2>1, <2>3 DEF IInv, LookupStands
  <2> QED BY <2>2, <2>3
<1>8. ConflictNeedsOverlap'
  <2> SUFFICES ASSUME NEW b \in Attempt, attempt'[b].pc = "conflict", ~attempt'[b].overlapped
               PROVE  /\ attempt'[b].door = "seed"
                      /\ \E c \in Attempt : /\ Exists(c)'
                                            /\ attempt'[c].handle = attempt'[b].handle
                                            /\ attempt'[c].email # attempt'[b].email
    BY DEF ConflictNeedsOverlap
  <2>1. attempt[b].pc = "conflict" /\ ~attempt[b].overlapped
    BY <1>2
  <2>2. attempt[b].door = "seed" /\ \E c \in Attempt : /\ Exists(c)
                                                      /\ attempt[c].handle = attempt[b].handle
                                                      /\ attempt[c].email # attempt[b].email
    BY <2>1 DEF IInv, ConflictNeedsOverlap
  <2> QED BY <1>2, <1>4, <2>2
<1>9. Mailed'
  <2>1. \A b \in asking' \cup opening' : attempt'[b].door = "register"
    BY <1>1, <1>2 DEF IInv, TypeOK, Mailed
  <2>2. ASSUME NEW b \in Attempt, Exists(b)', attempt'[b].door # "register"
        PROVE  row'[b].verified
    <3>1. CASE b = a
      <4>1. row'[a].verified = (door # "register")
        BY <1>1, <1>3 DEF NewRow
      <4>2. door # "register"
        BY <1>2, <2>2, <3>1
      <4>3. row'[a].verified = TRUE
        BY <4>1, <4>2
      <4> QED BY <3>1, <4>3
    <3>2. CASE b # a
      BY <1>1, <1>2, <1>3, <1>4, <2>2, <3>2 DEF IInv, Mailed
    <3> QED BY <3>1, <3>2
  <2> QED BY <2>1, <2>2 DEF Mailed
<1>10. BornWhole'
  <2> SUFFICES ASSUME NEW b \in Attempt
               PROVE /\ "user.registered" \in announced'[b] <=>
                           Exists(b)' /\ attempt'[b].door = "register"
                     /\ "admin.created" \in announced'[b] <=>
                           Exists(b)' /\ attempt'[b].door = "admin"
                     /\ links'[b] # {} <=> Exists(b)' /\ attempt'[b].door = "register"
    BY DEF BornWhole
  <2>1. CASE b = a
    BY <1>1, <1>2, <1>3, <1>4, <2>1 DEF Announces
  <2>2. CASE b # a
    BY <1>1, <1>2, <1>3, <1>4, <2>2 DEF IInv, BornWhole
  <2> QED BY <2>1, <2>2
<1> QED BY <1>5, <1>6, <1>7, <1>8, <1>9, <1>10 DEF IInv

LEMMA AbandonKeeps ==
  ASSUME IInv, NEW a \in Attempt, Abandon(a)
  PROVE  IInv'
<1>1. /\ attempt \in [Attempt -> AttemptType]
      /\ attempt[a].pc # "done" /\ UNCHANGED <<row, links, announced, asking, opening>>
  BY DEF IInv, TypeOK, AttemptType, Abandon
<1>2. /\ attempt' \in [Attempt -> AttemptType] /\ attempt'[a] = Blank
      /\ \A b \in Attempt : b # a => attempt'[b] = attempt[b]
  BY <1>1, BlankType DEF Abandon
<1>3. Blank.pc = "new"
  BY DEF Blank
<1>4. \A b \in Attempt : /\ Exists(b)' <=> Exists(b)
                         /\ Exists(b)' => attempt'[b] = attempt[b]
                         /\ HoldsEmail(b)' => b # a /\ HoldsEmail(b)
                         /\ HoldsHandle(b)' => b # a /\ HoldsHandle(b)
  BY <1>1, <1>2, <1>3 DEF Exists, HoldsEmail, HoldsHandle
<1>5. TypeOK'
  BY <1>1, <1>2, <1>4 DEF IInv, TypeOK, AttemptType
<1>6. Keys'
  BY <1>2, <1>4, BlankType DEF IInv, Keys
<1>7. LookupStands' /\ ConflictNeedsOverlap'
  BY <1>2, <1>3, <1>4 DEF IInv, LookupStands, ConflictNeedsOverlap
<1>8. Mailed' /\ BornWhole'
  BY <1>1, <1>2, <1>4 DEF IInv, TypeOK, Mailed, BornWhole
<1> QED BY <1>5, <1>6, <1>7, <1>8 DEF IInv

-----------------------------------------------------------------------------
(* Verification.                                                           *)

VerificationStep(a) ==
  \/ Verify(a) \/ Fail(a) \/ Expire(a) \/ ChangeStatus(a) \/ SaveUnverified(a)

LEMMA VerificationKeeps ==
  ASSUME IInv, NEW a \in Attempt, VerificationStep(a)
  PROVE  IInv'
<1> DEFINE State == {"fresh", "used", "expired"}
<1>1. UNCHANGED <<attempt, announced>>
  BY DEF VerificationStep, Verify, OpenLink, VerifyEmail, AskForLink, ResendVerification, Fail,
         Expire, ChangeStatus, SaveUnverified
<1>2. Keys' /\ LookupStands' /\ ConflictNeedsOverlap'
  BY <1>1 DEF IInv, Keys, LookupStands, ConflictNeedsOverlap, HoldsEmail, HoldsHandle, Exists
<1>3. /\ row \in [Attempt -> Row] /\ links \in [Attempt -> SUBSET State]
      /\ asking \cup opening \subseteq {b \in Attempt : Exists(b)}
      /\ \A b \in asking \cup opening : Exists(b) /\ attempt[b].door = "register"
      /\ \A b \in Attempt : links[b] # {} <=> Exists(b) /\ attempt[b].door = "register"
      /\ \A b \in Attempt : Exists(b) /\ attempt[b].door # "register" => row[b].verified
  BY DEF IInv, TypeOK, Mailed, BornWhole
\* Only accounts that were registered gain a link, or somebody who asks for or opens one.
<1>4. \A b \in (asking' \cup opening') \ (asking \cup opening) :
        b = a /\ Exists(a) /\ attempt[a].door = "register"
  BY <1>3 DEF VerificationStep, Verify, OpenLink, VerifyEmail, AskForLink, ResendVerification,
              Fail, Expire, ChangeStatus, SaveUnverified
<1>5. \/ UNCHANGED links
      \/ /\ Exists(a) /\ attempt[a].door = "register"
         /\ \E S \in SUBSET State : S # {} /\ links' = [links EXCEPT ![a] = S]
  <2>1. CASE VerifyEmail(a)
    <3>1. PICK S \in {links[a] \cup {"used"}, (links[a] \ {"fresh"}) \cup {"used"}} :
                links' = [links EXCEPT ![a] = S]
      BY <2>1 DEF VerifyEmail
    <3>2. S \in SUBSET State /\ S # {}
      BY <1>3, <3>1
    <3> QED BY <1>3, <2>1, <3>1, <3>2 DEF VerifyEmail
  <2>2. CASE Expire(a)
    <3>1. PICK S \in {links[a] \cup {"expired"}, (links[a] \ {"fresh"}) \cup {"expired"}} :
                links' = [links EXCEPT ![a] = S]
      BY <2>2 DEF Expire
    <3>2. S \in SUBSET State /\ S # {}
      BY <1>3, <3>1
    <3>3. links[a] # {}
      BY <2>2 DEF Expire
    <3> QED BY <1>3, <3>1, <3>2, <3>3
  <2>3. CASE ResendVerification(a)
    <3>1. links' = [links EXCEPT ![a] = links[a] \cup {"fresh"}] /\ a \in asking
      BY <2>3 DEF ResendVerification
    <3>2. links[a] \cup {"fresh"} \in SUBSET State /\ links[a] \cup {"fresh"} # {}
      BY <1>3
    <3> QED BY <1>3, <3>1, <3>2
  <2> QED BY <2>1, <2>2, <2>3
      DEF VerificationStep, Verify, OpenLink, AskForLink, Fail, ChangeStatus, SaveUnverified
<1>6. \/ row' = row
      \/ row' = [row EXCEPT ![a].verified = TRUE]
      \/ row' = [row EXCEPT ![a].canLogIn = ~@]
      \/ row' = [row EXCEPT ![a].verified = FALSE] /\ attempt[a].door = "register"
  BY DEF VerificationStep, Verify, OpenLink, VerifyEmail, AskForLink, ResendVerification, Fail,
         Expire, ChangeStatus, SaveUnverified
<1>7. row' \in [Attempt -> Row]
  <2>1. row[a] \in Row /\ (~row[a].canLogIn) \in BOOLEAN
    BY <1>3 DEF Row
  <2>2. /\ [row[a] EXCEPT !.verified = TRUE] \in Row
        /\ [row[a] EXCEPT !.verified = FALSE] \in Row
        /\ [row[a] EXCEPT !.canLogIn = ~row[a].canLogIn] \in Row
    BY <2>1 DEF Row
  <2> QED BY <1>3, <1>6, <2>2
<1>8. \A b \in Attempt : Exists(b)' <=> Exists(b)
  BY <1>1 DEF Exists
<1>9. TypeOK'
  <2>1. links' \in [Attempt -> SUBSET State]
    BY <1>3, <1>5
  <2>2. asking' \cup opening' \subseteq {b \in Attempt : Exists(b)}
    BY <1>3, <1>4
  <2> QED BY <1>1, <1>7, <1>8, <2>1, <2>2 DEF IInv, TypeOK
<1>10. Mailed'
  <2>1. \A b \in Attempt : Exists(b) /\ attempt[b].door # "register" => row'[b].verified
    BY <1>3, <1>6 DEF Row
  <2> QED BY <1>1, <1>3, <1>4, <1>8, <2>1 DEF Mailed
<1>11. BornWhole'
  <2>1. \A b \in Attempt : links'[b] # {} <=> links[b] # {}
    BY <1>3, <1>5
  <2> QED BY <1>1, <1>8, <2>1 DEF IInv, BornWhole
<1> QED BY <1>2, <1>9, <1>10, <1>11 DEF IInv

-----------------------------------------------------------------------------
LEMMA StepKeeps == IInv /\ [Next]_vars => IInv'
<1> SUFFICES ASSUME IInv, [Next]_vars PROVE IInv'
  OBVIOUS
<1>1. CASE UNCHANGED vars
  BY <1>1 DEF vars, IInv, TypeOK, Keys, LookupStands, ConflictNeedsOverlap, Mailed, BornWhole,
              Exists, HoldsEmail, HoldsHandle
<1>2. ASSUME NEW a \in Attempt, Enter(a) \/ Insert(a) \/ Abandon(a) PROVE IInv'
  BY <1>2, EnterKeeps, InsertKeeps, CreateKeeps, AbandonKeeps DEF Insert
<1>3. ASSUME NEW a \in Followed, VerificationStep(a) PROVE IInv'
  BY <1>3, VerificationKeeps, RegistrationAssumption
<1> QED BY <1>1, <1>2, <1>3 DEF Next, VerificationStep

LEMMA Inductive == Spec => []IInv
  BY InitHolds, StepKeeps, PTL DEF Spec

(***************************************************************************)
(* The attempts, rows, links and requests keep their types, and only for   *)
(* accounts that exist a link is asked for or opened.                      *)
(***************************************************************************)
THEOREM TypeCorrect == Spec => []TypeOK
  BY Inductive, PTL DEF IInv

(***************************************************************************)
(* However many registrations, administrators and seeds overlap, no two    *)
(* accounts share an email or a handle up to case: what is stored is its   *)
(* own lower case, and no two open or committed transactions hold the same *)
(* index entry.                                                            *)
(***************************************************************************)
THEOREM KeysAreUnique == Spec => []UniqueKeys
<1>1. IInv => UniqueKeys
  BY DEF IInv, Keys, UniqueKeys, Exists, HoldsEmail, HoldsHandle
<1> QED BY <1>1, Inductive, PTL

(***************************************************************************)
(* An account and its link, event or audit entry exist together, from      *)
(* whichever door, and whatever happens to the links afterwards.           *)
(***************************************************************************)
THEOREM AccountsAreBornWhole == Spec => []BornWhole
  BY Inductive, PTL DEF IInv

(***************************************************************************)
(* IntegrityError takes a rival that committed after the look-up, or the   *)
(* seed with a handle that is taken.                                       *)
(***************************************************************************)
THEOREM ConflictsAreOverlaps == Spec => []ConflictNeedsOverlap
  BY Inductive, PTL DEF IInv
=============================================================================
