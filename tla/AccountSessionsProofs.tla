------------------------ MODULE AccountSessionsProofs ------------------------
(***************************************************************************)
(* Proofs about AccountSessions, for any number of requests, sessions and  *)
(* passwords.                                                              *)
(*                                                                         *)
(* A sign-out ends what it found when it arrived in two places and at two  *)
(* moments, and others move the cutoff or hand out sessions in between.    *)
(* Signing says how far one has come: before its cutoff it still holds     *)
(* every token it has to cover, after it they are covered, and after its   *)
(* scan the rows it has to close are its targets.  What makes that stand   *)
(* against a cutoff of somebody else is that a session which crosses no    *)
(* request that saves the account was complete when each of them arrived.  *)
(* Opening says that a session about to be handed out has the password of  *)
(* the row, unless it crosses one of those requests.                       *)
(***************************************************************************)
EXTENDS AccountSessions, TLAPS

Op == SignOut \cup {"lift", "login", "refresh", "none"}

User == [status: {"none", "active", "suspended", "under_review"},
         password: Password \cup {"none"}]

Req == [op: Op, at: Nat, user: User, base: User, complete: SUBSET Grant,
        before: SUBSET Grant, targets: SUBSET Grant, uses: SUBSET Grant,
        gives: SUBSET Grant, crossed: BOOLEAN]

Types ==
  /\ row \in User
  /\ access \subseteq Grant /\ granted \subseteq access /\ open \subseteq granted
  /\ ended \subseteq granted /\ cut \subseteq Grant
  /\ basis = [g \in Grant |-> basis[g]]
  /\ movedBack \in BOOLEAN
  /\ req \in [Request -> Req]

\* Ahead, of a request given by its record.
Due(q, step) == \E i \in DOMAIN Path[q.op] : i >= q.at /\ Path[q.op][i] = step

\* Sessions that crossed nobody and may still be used.
Live == {g \in granted \ crossing : g \notin cut \/ g \in open}

\* A request that saves the account.
Signing(q) ==
  q.op \in Saver =>
    /\ q.gives = {}
    /\ q.complete \subseteq granted
    /\ granted \ crossing \subseteq q.complete
    /\ Due(q, "cutoff") => q.complete \subseteq q.before
    /\ q.op \in SignOut /\ ~Due(q, "cutoff") =>
         /\ q.complete \ crossing \subseteq cut
         /\ movedBack = TRUE \/ q.complete \subseteq cut
    /\ q.op \in SignOut /\ ~Due(q, "scan") => q.complete \cap open \subseteq q.targets
    /\ q.op \in {"block", "review", "lift"} => q.user["password"] = row["password"] \/ Live = {}

\* A request that hands out a session.
Opening(q) ==
  /\ q.gives \subseteq access \ granted
  /\ q.op = "refresh" => q.uses \subseteq granted /\ q.uses # {}
  /\ q.op \in {"login", "refresh"} /\ q.crossed = FALSE /\ q.uses \cap crossing = {} =>
       /\ q.op = "login" => q.user["password"] = row["password"]
       /\ q.op = "refresh" => \A h \in q.uses : row["password"] \in basis[h]
       /\ \A g \in q.gives : row["password"] \in basis[g]

\* A grant is handed out by one request.
Apart == \A r, s \in Request : r # s => req[r].gives \cap req[s].gives = {}

\* Whoever hands out a session while another saves the account knows it.
Overlap == \A r, s \in Request : Crosses(req[r].op, req[s].op) => req[r].crossed = TRUE

Current == \A g \in Live : row["password"] \in basis[g]

Inv ==
  /\ Types
  /\ \A r \in Request : Signing(req[r]) /\ Opening(req[r])
  /\ Apart
  /\ Overlap
  /\ SignOutEnds
  /\ Current

-----------------------------------------------------------------------------
(* The paths.                                                              *)

\* A path is a sequence.
LEMMA PathDomain == \A op \in Op : DOMAIN Path[op] \subseteq Nat
  BY DEF Op, SignOut, Path

\* On the way of a sign-out the cutoff is written once, and nothing is left
\* when it commits.
LEMMA PathOrder ==
  \A op \in SignOut : \A i, j \in DOMAIN Path[op] :
    /\ Path[op][i] = "cutoff" /\ j > i => Path[op][j] # "cutoff"
    /\ Path[op][i] = "commit" /\ j >= i => Path[op][j] = "commit"
<1> SUFFICES ASSUME NEW op \in SignOut, NEW i \in DOMAIN Path[op], NEW j \in DOMAIN Path[op]
             PROVE  /\ Path[op][i] = "cutoff" /\ j > i => Path[op][j] # "cutoff"
                    /\ Path[op][i] = "commit" /\ j >= i => Path[op][j] = "commit"
  OBVIOUS
<1>1. CASE op = "block"
  BY <1>1 DEF Path
<1>2. CASE op = "review"
  BY <1>2 DEF Path
<1>3. CASE op = "change"
  BY <1>3 DEF Path
<1>4. CASE op = "reset"
  BY <1>4 DEF Path
<1> QED
  BY <1>1, <1>2, <1>3, <1>4 DEF SignOut

\* A sign-out that arrives has its cutoff and its scan ahead.
LEMMA PathBegins ==
  ASSUME NEW op \in SignOut, NEW step \in {"cutoff", "scan"}
  PROVE  \E i \in DOMAIN Path[op] : i >= 1 /\ Path[op][i] = step
<1>1. CASE op = "block"
  <2>1. 3 \in DOMAIN Path[op] /\ 5 \in DOMAIN Path[op] /\ Path[op][3] = "scan" /\ Path[op][5] = "cutoff"
    BY <1>1 DEF Path
  <2> QED
    BY <2>1
<1>2. CASE op \in {"review", "change"}
  <2>1. 2 \in DOMAIN Path[op] /\ 4 \in DOMAIN Path[op] /\ Path[op][4] = "scan" /\ Path[op][2] = "cutoff"
    BY <1>2 DEF Path
  <2> QED
    BY <2>1
<1>3. CASE op = "reset"
  <2>1. 4 \in DOMAIN Path[op] /\ 5 \in DOMAIN Path[op] /\ Path[op][5] = "scan" /\ Path[op][4] = "cutoff"
    BY <1>3 DEF Path
  <2> QED
    BY <2>1
<1> QED
  BY <1>1, <1>2, <1>3 DEF SignOut

\* Ahead is Due.
LEMMA AheadIsDue == ASSUME NEW r, NEW step PROVE Ahead(r, step) <=> Due(req[r], step)
  BY DEF Ahead, Due

\* One step along the path: what else was due still is, and what is no longer.
LEMMA Advance ==
  ASSUME NEW q \in Req, NEW n, n.op = q.op, n.at = q.at + 1,
         q.at \in DOMAIN Path[q.op], NEW step, step # Path[q.op][q.at]
  PROVE  Due(n, step) <=> Due(q, step)
<1>1. q.op \in Op /\ q.at \in Nat /\ DOMAIN Path[q.op] \subseteq Nat
  BY PathDomain DEF Req
<1>2. \A i \in DOMAIN Path[q.op] : Path[q.op][i] = step => (i >= n.at <=> i >= q.at)
  BY <1>1
<1> QED
  BY <1>2 DEF Due

\* The cutoff is due no more after it.
LEMMA CutoffOnce ==
  ASSUME NEW q \in Req, NEW n, n.op = q.op, n.at = q.at + 1, q.op \in SignOut,
         q.at \in DOMAIN Path[q.op], Path[q.op][q.at] = "cutoff"
  PROVE  ~Due(n, "cutoff")
<1>1. q.op \in Op /\ q.at \in Nat /\ DOMAIN Path[q.op] \subseteq Nat
  BY PathDomain DEF Req
<1> QED
  BY <1>1, PathOrder DEF Due

\* Nothing is due at the commit of a sign-out.
LEMMA CommitLast ==
  ASSUME NEW q \in Req, q.op \in SignOut,
         q.at \in DOMAIN Path[q.op], Path[q.op][q.at] = "commit"
  PROVE  ~Due(q, "cutoff") /\ ~Due(q, "scan") /\ ~Due(q, "lock")
<1>1. q.op \in Op /\ q.at \in Nat /\ DOMAIN Path[q.op] \subseteq Nat
  BY PathDomain DEF Req
<1> QED
  BY <1>1, PathOrder DEF Due

\* Which request takes which step.
LEMMA PathSteps ==
  \A op \in Op : \A i \in DOMAIN Path[op] :
    /\ op # "none"
    /\ Path[op][i] = "issue" => op \in {"login", "refresh"}
    /\ Path[op][i] = "cutoff" => op \in SignOut
    /\ Path[op][i] = "load" => op = "reset"
<1> SUFFICES ASSUME NEW op \in Op, NEW i \in DOMAIN Path[op]
             PROVE  /\ op # "none"
                    /\ Path[op][i] = "issue" => op \in {"login", "refresh"}
                    /\ Path[op][i] = "cutoff" => op \in SignOut
                    /\ Path[op][i] = "load" => op = "reset"
  OBVIOUS
<1>1. CASE op = "login" \/ op = "refresh"
  BY <1>1 DEF Path
<1>2. CASE op = "block" \/ op = "review"
  BY <1>2 DEF Path, SignOut
<1>3. CASE op = "change" \/ op = "reset"
  BY <1>3 DEF Path, SignOut
<1>4. CASE op = "lift"
  BY <1>4 DEF Path
<1>5. CASE op = "none"
  BY <1>5 DEF Path
<1> QED
  BY <1>1, <1>2, <1>3, <1>4, <1>5 DEF Op, SignOut

\* What a step of r says of its place on the path.
LEMMA AtStep ==
  ASSUME Types, NEW r \in Request, NEW step, At(r, step)
  PROVE  /\ req[r] \in Req /\ req[r].op \in Op /\ req[r].op # "none"
         /\ req[r].at \in DOMAIN Path[req[r].op] /\ Path[req[r].op][req[r].at] = step
         /\ step = "issue" => req[r].op \in {"login", "refresh"}
         /\ step = "cutoff" => req[r].op \in SignOut
         /\ step = "load" => req[r].op = "reset"
<1>1. req[r] \in Req /\ req[r].op \in Op
  BY DEF Types, Req
<1> QED
  BY <1>1, PathSteps DEF At

-----------------------------------------------------------------------------
(* Steps that leave the account and its sessions alone.                    *)

\* Nothing but the requests changes.
LEMMA StoreKept ==
  ASSUME Inv, UNCHANGED store, req' \in [Request -> Req],
         \A s \in Request : Signing(req'[s]) /\ Opening(req'[s]),
         Apart', Overlap'
  PROVE  Inv'
<1>1. /\ row' = row /\ access' = access /\ granted' = granted /\ open' = open /\ basis' = basis
      /\ cut' = cut /\ ended' = ended /\ crossing' = crossing /\ movedBack' = movedBack
  BY DEF store
<1>2. Types'
  BY <1>1 DEF Inv, Types
<1>3. Live' = Live
  BY <1>1 DEF Live
<1>4. ASSUME NEW s \in Request PROVE Signing(req[s])' /\ Opening(req[s])'
  <2>1. Signing(req'[s]) /\ Opening(req'[s])
    OBVIOUS
  <2>2. Signing(req[s])'
    BY <1>1, <1>3, <2>1 DEF Signing, Due
  <2>3. Opening(req[s])'
    BY <1>1, <2>1 DEF Opening
  <2> QED
    BY <2>2, <2>3
<1>5. SignOutEnds' /\ Current'
  BY <1>1, <1>3 DEF Inv, SignOutEnds, Current
<1> QED
  BY <1>2, <1>4, <1>5 DEF Inv

\* One request goes on, with what it hands out and what it knows as before.
LEMMA RequestKept ==
  ASSUME Inv, UNCHANGED store, NEW r \in Request, NEW n \in Req,
         req' = [req EXCEPT ![r] = n], Signing(n), Opening(n),
         n.op = "none" \/ (n.op = req[r].op /\ n.crossed = req[r].crossed),
         n.gives \subseteq req[r].gives
  PROVE  Inv'
<1>1. req \in [Request -> Req]
  BY DEF Inv, Types
<1>2. req' \in [Request -> Req]
  BY <1>1
<1>3. \A s \in Request : Signing(req'[s]) /\ Opening(req'[s])
  BY <1>1 DEF Inv
<1>4. Apart'
  BY <1>1 DEF Inv, Apart
<1>5. Overlap'
  BY <1>1 DEF Inv, Overlap, Crosses, Saver, SignOut
<1> QED
  BY <1>2, <1>3, <1>4, <1>5, StoreKept

\* An idle request.
LEMMA IdleOK == Idle \in Req /\ Signing(Idle) /\ Opening(Idle) /\ Idle.op = "none" /\ Idle.gives = {}
<1>1. Idle.op = "none" /\ Idle.gives = {}
  BY DEF Idle
<1>2. Idle \in Req
  BY DEF Idle, Req, NoUser, User, Op
<1>3. Signing(Idle) /\ Opening(Idle)
  BY <1>1 DEF Signing, Opening, Saver, SignOut
<1> QED
  BY <1>1, <1>2, <1>3

LEMMA RollbackKeeps == ASSUME Inv, NEW r \in Request, Rollback(r) PROVE Inv'
  BY IdleOK, RequestKept DEF Rollback

\* A step along the path other than the cutoff.
LEMMA QuietKept ==
  ASSUME Inv, UNCHANGED store, NEW r \in Request, NEW step, At(r, step), step # "cutoff",
         NEW n \in Req, req' = [req EXCEPT ![r] = n],
         n.op = req[r].op, n.at = req[r].at + 1, n.complete = req[r].complete,
         n.before = req[r].before, n.uses = req[r].uses, n.gives = req[r].gives,
         n.crossed = req[r].crossed,
         n.user = req[r].user \/ step = "load",
         n.targets = open \/ (n.targets = req[r].targets /\ step # "scan")
  PROVE  Inv'
<1>0. Types /\ Signing(req[r]) /\ Opening(req[r])
  BY DEF Inv
<1>1. /\ req[r] \in Req /\ req[r].at \in DOMAIN Path[req[r].op]
      /\ Path[req[r].op][req[r].at] = step /\ (step = "load" => req[r].op = "reset")
      /\ (step = "issue" => req[r].op \in {"login", "refresh"})
  BY <1>0, AtStep
<1>2. Due(n, "cutoff") <=> Due(req[r], "cutoff")
  BY <1>1, Advance
<1>3. step # "scan" => (Due(n, "scan") <=> Due(req[r], "scan"))
  BY <1>1, Advance
<1>4. Signing(n)
  BY <1>0, <1>1, <1>2, <1>3 DEF Signing
<1>5. Opening(n)
  <2>1. req[r].op = "login" => n.user = req[r].user
    BY <1>1
  <2> QED
    BY <1>0, <2>1 DEF Opening
<1> QED
  BY <1>4, <1>5, RequestKept

LEMMA QuietKeeps ==
  ASSUME Inv, NEW r \in Request,
         \/ Reread(r) \/ Flush(r) \/ Scan(r) \/ LockRows(r)
         \/ \E p \in Password : ResetPassword(r, p)
  PROVE  Inv'
<1>0. req \in [Request -> Req] /\ req[r] \in Req /\ row \in User /\ open \in SUBSET Grant
  BY DEF Inv, Types
<1>1. ASSUME NEW step, At(r, step), step # "cutoff", UNCHANGED store,
             NEW u \in User, NEW b \in User, NEW t \in SUBSET Grant, NEW n,
             n = [req[r] EXCEPT !.at = req[r].at + 1, !.user = u, !.base = b, !.targets = t],
             req' = [req EXCEPT ![r] = n],
             step # "load" => u = req[r].user,
             t # req[r].targets \/ step = "scan" => t = open
      PROVE  Inv'
  <2> DEFINE a == req[r].at + 1
  <2>1. /\ n = [req[r] EXCEPT !.at = a, !.user = u, !.base = b, !.targets = t]
        /\ req[r] \in Req /\ a \in Nat
    BY <1>0, <1>1 DEF Req
  <2>2. a = req[r].at + 1
    OBVIOUS
  <2> HIDE DEF a
  <2>3. /\ n \in Req /\ n.op = req[r].op /\ n.at = a /\ n.complete = req[r].complete
        /\ n.before = req[r].before /\ n.uses = req[r].uses /\ n.gives = req[r].gives
        /\ n.user = u /\ n.targets = t
    BY <2>1, <1>1 DEF Req
  <2>4. n.crossed = req[r].crossed
    BY <2>1 DEF Req
  <2>5. n.user = req[r].user \/ step = "load"
    BY <1>1, <2>3
  <2>6. n.targets = open \/ (n.targets = req[r].targets /\ step # "scan")
    BY <1>1, <2>3
  <2>7. n.at = req[r].at + 1
    BY <2>2, <2>3
  <2> QED
    BY <1>1, <2>3, <2>4, <2>5, <2>6, <2>7, QuietKept
<1>2. /\ req[r].user \in User /\ req[r].base \in User /\ req[r].targets \in SUBSET Grant
      /\ req[r].at \in Nat
  BY <1>0 DEF Req
<1>3. CASE Reread(r)
  <2> DEFINE n == [req[r] EXCEPT !.at = req[r].at + 1, !.base = row]
  <2>1. req' = [req EXCEPT ![r] = n] /\ UNCHANGED store /\ At(r, "reread")
    BY <1>0, <1>3 DEF Reread
  <2>2. n = [req[r] EXCEPT !.at = req[r].at + 1, !.user = req[r].user, !.base = row,
                           !.targets = req[r].targets]
    BY <1>0 DEF Req
  <2> HIDE DEF n
  <2>3. "reread" # "cutoff" /\ "reread" # "scan"
    OBVIOUS
  <2> QED
    BY <1>0, <1>1, <1>2, <2>1, <2>2, <2>3
<1>4. CASE Flush(r) \/ LockRows(r)
  <2> DEFINE n == [req[r] EXCEPT !.at = req[r].at + 1]
             b == req[r].base
  <2>1. req' = [req EXCEPT ![r] = n] /\ UNCHANGED store /\ (At(r, "flush") \/ At(r, "lock"))
    BY <1>0, <1>4 DEF Flush, LockRows
  <2>2. n = [req[r] EXCEPT !.at = req[r].at + 1, !.user = req[r].user, !.base = b,
                           !.targets = req[r].targets]
    BY <1>0 DEF Req
  <2>3. b \in User
    BY <1>2
  <2> HIDE DEF n, b
  <2>4. PICK step \in {"flush", "lock"} : At(r, step)
    BY <2>1
  <2>5. step # "cutoff" /\ step # "scan"
    BY <2>4
  <2> QED
    BY <1>0, <1>1, <1>2, <2>1, <2>2, <2>3, <2>4, <2>5
<1>5. CASE Scan(r)
  <2> DEFINE n == [req[r] EXCEPT !.at = req[r].at + 1, !.targets = open]
  <2>1. req' = [req EXCEPT ![r] = n] /\ UNCHANGED store /\ At(r, "scan")
    BY <1>0, <1>5 DEF Scan
  <2>2. n = [req[r] EXCEPT !.at = req[r].at + 1, !.user = req[r].user, !.base = req[r].base,
                           !.targets = open]
    BY <1>0 DEF Req
  <2> HIDE DEF n
  <2> QED
    BY <1>0, <1>1, <1>2, <2>1, <2>2
<1>6. ASSUME NEW p \in Password, ResetPassword(r, p) PROVE Inv'
  <2> DEFINE u == [row EXCEPT !.password = p]
             n == [req[r] EXCEPT !.at = req[r].at + 1, !.user = u]
  <2>1. req' = [req EXCEPT ![r] = n] /\ UNCHANGED store /\ At(r, "load")
    BY <1>0, <1>6 DEF ResetPassword
  <2>2. u \in User
    BY <1>0 DEF User
  <2> HIDE DEF u
  <2>3. n = [req[r] EXCEPT !.at = req[r].at + 1, !.user = u, !.base = req[r].base,
                           !.targets = req[r].targets]
    BY <1>0 DEF Req
  <2> HIDE DEF n
  <2> QED
    BY <1>0, <1>1, <1>2, <2>1, <2>2, <2>3
<1> QED
  BY <1>3, <1>4, <1>5, <1>6

-----------------------------------------------------------------------------
(* Arrivals.                                                               *)

\* A request arrives: it and whoever it crosses know of each other.
LEMMA BeginKeeps ==
  ASSUME Inv, NEW r \in Request, NEW start \in Req, Begin(r, start), start.gives = {},
         \A n \in Req : /\ n.op = start.op /\ n.at = start.at /\ n.user = start.user
                        /\ n.complete = start.complete /\ n.before = start.before
                        /\ n.targets = start.targets /\ n.uses = start.uses /\ n.gives = {}
                        => Signing(n) /\ Opening(n)
  PROVE  Inv'
<1>0. req \in [Request -> Req]
  BY DEF Inv, Types
<1> DEFINE x == \E q \in Request : Crosses(start.op, req[q].op)
<1>1. /\ UNCHANGED store /\ req[r].op = "none"
      /\ req' = [s \in Request |-> IF s = r THEN [start EXCEPT !.crossed = x]
                   ELSE [req[s] EXCEPT !.crossed = req[s].crossed \/ Crosses(req[s].op, start.op)]]
  BY <1>0 DEF Begin
<1>2. x \in BOOLEAN
  OBVIOUS
<1>3. req'[r] = [start EXCEPT !.crossed = x]
  BY <1>1
<1>4. x = TRUE <=> \E q \in Request : Crosses(start.op, req[q].op)
  OBVIOUS
<1> HIDE DEF x
<1>5. /\ req'[r] \in Req /\ req'[r].op = start.op /\ req'[r].at = start.at
      /\ req'[r].user = start.user /\ req'[r].complete = start.complete
      /\ req'[r].before = start.before /\ req'[r].targets = start.targets
      /\ req'[r].uses = start.uses /\ req'[r].gives = {}
  BY <1>2, <1>3 DEF Req
<1>6. req'[r].crossed = x
  BY <1>2, <1>3 DEF Req
<1>7. ASSUME NEW s \in Request, s # r
      PROVE  /\ req'[s] \in Req /\ req'[s].op = req[s].op /\ req'[s].at = req[s].at
             /\ req'[s].user = req[s].user /\ req'[s].complete = req[s].complete
             /\ req'[s].before = req[s].before /\ req'[s].targets = req[s].targets
             /\ req'[s].uses = req[s].uses /\ req'[s].gives = req[s].gives
             /\ req'[s].crossed = FALSE => req[s].crossed = FALSE
             /\ req[s].crossed = TRUE \/ Crosses(req[s].op, start.op) => req'[s].crossed = TRUE
  <2> DEFINE y == req[s].crossed \/ Crosses(req[s].op, start.op)
  <2>1. req'[s] = [req[s] EXCEPT !.crossed = y] /\ req[s] \in Req /\ y \in BOOLEAN
    BY <1>0, <1>1, <1>7
  <2>2. /\ y = FALSE => req[s].crossed = FALSE
        /\ req[s].crossed = TRUE \/ Crosses(req[s].op, start.op) => y = TRUE
    <3>1. req[s].crossed \in BOOLEAN
      BY <1>0 DEF Req
    <3> QED
      BY <3>1
  <2> HIDE DEF y
  <2>3. /\ req'[s] \in Req /\ req'[s].op = req[s].op /\ req'[s].at = req[s].at
        /\ req'[s].user = req[s].user /\ req'[s].complete = req[s].complete
        /\ req'[s].before = req[s].before /\ req'[s].targets = req[s].targets
        /\ req'[s].uses = req[s].uses /\ req'[s].gives = req[s].gives
    BY <2>1 DEF Req
  <2>4. req'[s].crossed = y
    BY <2>1 DEF Req
  <2> QED
    BY <2>2, <2>3, <2>4
<1>8. req' \in [Request -> Req]
  BY <1>1, <1>5, <1>7
<1>9. ASSUME NEW s \in Request PROVE Signing(req'[s]) /\ Opening(req'[s])
  <2>1. CASE s = r
    BY <1>5, <2>1
  <2>2. CASE s # r
    <3>1. Signing(req[s]) /\ Opening(req[s])
      BY DEF Inv
    <3>2. \A step : Due(req'[s], step) <=> Due(req[s], step)
      BY <1>7, <2>2 DEF Due
    <3>3. /\ req'[s].op = req[s].op /\ req'[s].user = req[s].user
          /\ req'[s].complete = req[s].complete /\ req'[s].before = req[s].before
          /\ req'[s].targets = req[s].targets /\ req'[s].gives = req[s].gives
      BY <1>7, <2>2
    <3>4. Signing(req'[s])
      BY <3>1, <3>2, <3>3 DEF Signing
    <3>5. Opening(req'[s])
      BY <1>7, <2>2, <3>1 DEF Opening
    <3> QED
      BY <3>4, <3>5
  <2> QED
    BY <2>1, <2>2
<1>10. Apart'
  BY <1>5, <1>7 DEF Inv, Apart
<1>11. Overlap'
  <2> SUFFICES ASSUME NEW p \in Request, NEW q \in Request, Crosses(req'[p].op, req'[q].op)
               PROVE  req'[p].crossed = TRUE
    BY DEF Overlap, Crosses
  <2>1. p # q
    BY DEF Crosses, Saver, SignOut
  <2>2. CASE p = r
    BY <1>4, <1>5, <1>6, <1>7, <2>1, <2>2
  <2>3. CASE q = r
    BY <1>5, <1>7, <2>1, <2>3
  <2>4. CASE p # r /\ q # r
    BY <1>7, <2>4 DEF Inv, Overlap
  <2> QED
    BY <2>2, <2>3, <2>4
<1> QED
  BY <1>1, <1>8, <1>9, <1>10, <1>11, StoreKept

\* A request that saves the account has found everything that is complete.
LEMMA SaveKeeps ==
  ASSUME Inv, NEW r \in Request, NEW op \in Saver, NEW u \in User, Save(r, op, u),
         op \in {"block", "review", "lift"} => u["password"] = row["password"]
  PROVE  Inv'
<1> DEFINE start == [Idle EXCEPT !.op = op, !.user = u, !.complete = granted, !.before = access]
<1>1. Begin(r, start)
  BY DEF Save
<1>2. granted \in SUBSET Grant /\ access \in SUBSET Grant /\ granted \subseteq access
  BY DEF Inv, Types
<1>3. op \in Op
  BY DEF Saver, Op
<1>4. /\ start \in Req /\ start.op = op /\ start.at = 1 /\ start.user = u
      /\ start.complete = granted /\ start.before = access /\ start.gives = {}
      /\ start.targets = {} /\ start.uses = {}
  BY <1>2, <1>3, IdleOK DEF Req, Idle
<1> HIDE DEF start
<1>5. ASSUME NEW n \in Req, n.op = op, n.at = 1, n.user = u, n.complete = granted,
             n.before = access, n.gives = {}
      PROVE  Signing(n) /\ Opening(n)
  <2>1. op \in SignOut => Due(n, "cutoff") /\ Due(n, "scan")
    BY <1>5, PathBegins DEF Due
  <2>2. Signing(n)
    BY <1>2, <1>5, <2>1 DEF Signing
  <2>3. Opening(n)
    BY <1>5 DEF Opening, Saver, SignOut
  <2> QED
    BY <2>2, <2>3
<1> QED
  BY <1>1, <1>4, <1>5, BeginKeeps

LEMMA ArriveKeeps == ASSUME Inv, NEW r \in Request, Arrive(r) PROVE Inv'
<1>0. row \in User /\ open \subseteq granted /\ granted \subseteq Grant
  BY DEF Inv, Types
<1>1. CASE Login(r)
  <2> DEFINE start == [Idle EXCEPT !.op = "login", !.user = row]
  <2>1. Begin(r, start)
    BY <1>1 DEF Login
  <2>2. /\ start \in Req /\ start.op = "login" /\ start.user = row /\ start.gives = {}
    BY <1>0, IdleOK DEF Req, Idle, Op
  <2> HIDE DEF start
  <2>3. ASSUME NEW n \in Req, n.op = "login", n.user = row, n.gives = {}
        PROVE  Signing(n) /\ Opening(n)
    BY <2>3 DEF Signing, Opening, Saver, SignOut
  <2> QED
    BY <2>1, <2>2, <2>3, BeginKeeps
<1>2. ASSUME NEW g \in Grant, Refresh(r, g) PROVE Inv'
  <2> DEFINE start == [Idle EXCEPT !.op = "refresh", !.uses = {g}]
  <2>1. Begin(r, start) /\ g \in open
    BY <1>2 DEF Refresh
  <2>2. /\ start \in Req /\ start.op = "refresh" /\ start.uses = {g} /\ start.gives = {}
    BY <1>0, IdleOK DEF Req, Idle, Op
  <2> HIDE DEF start
  <2>3. ASSUME NEW n \in Req, n.op = "refresh", n.uses = {g}, n.gives = {}
        PROVE  Signing(n) /\ Opening(n)
    <3>1. g \notin crossing => row["password"] \in basis[g]
      BY <1>0, <2>1 DEF Inv, Current, Live
    <3>2. g \in granted
      BY <1>0, <2>1
    <3> QED
      BY <2>3, <3>1, <3>2 DEF Signing, Opening, Saver, SignOut
  <2> QED
    BY <2>1, <2>2, <2>3, BeginKeeps
<1>3. CASE Block(r)
  <2> DEFINE u == [row EXCEPT !.status = "suspended"]
  <2>1. u \in User /\ u["password"] = row["password"] /\ Save(r, "block", u) /\ "block" \in Saver
    BY <1>0, <1>3 DEF Block, User, Saver, SignOut
  <2> HIDE DEF u
  <2> QED
    BY <2>1, SaveKeeps
<1>4. CASE PutUnderReview(r)
  <2> DEFINE u == [row EXCEPT !.status = "under_review"]
  <2>1. u \in User /\ u["password"] = row["password"] /\ Save(r, "review", u) /\ "review" \in Saver
    BY <1>0, <1>4 DEF PutUnderReview, User, Saver, SignOut
  <2> HIDE DEF u
  <2> QED
    BY <2>1, SaveKeeps
<1>5. CASE LiftReview(r)
  <2> DEFINE u == [row EXCEPT !.status = "active"]
  <2>1. u \in User /\ u["password"] = row["password"] /\ Save(r, "lift", u) /\ "lift" \in Saver
    BY <1>0, <1>5 DEF LiftReview, User, Saver, SignOut
  <2> HIDE DEF u
  <2> QED
    BY <2>1, SaveKeeps
<1>6. CASE PresentLink(r)
  <2>1. NoUser \in User /\ Save(r, "reset", NoUser) /\ "reset" \in Saver
    BY <1>6 DEF PresentLink, NoUser, User, Saver, SignOut
  <2> QED
    BY <2>1, SaveKeeps
<1>7. ASSUME NEW p \in Password, ChangePassword(r, p) PROVE Inv'
  <2> DEFINE u == [row EXCEPT !.password = p]
  <2>1. u \in User /\ Save(r, "change", u) /\ "change" \in Saver
    BY <1>0, <1>7 DEF ChangePassword, User, Saver, SignOut
  <2> HIDE DEF u
  <2> QED
    BY <2>1, SaveKeeps
<1> QED
  BY <1>1, <1>2, <1>3, <1>4, <1>5, <1>6, <1>7 DEF Arrive

-----------------------------------------------------------------------------
(* Steps that change the sessions.                                         *)

\* The access token is handed out, with the password its session has.
LEMMA IssueKeeps ==
  ASSUME Inv, NEW r \in Request, NEW g \in Grant, Issue(r, g) PROVE Inv'
<1>0. Types /\ req \in [Request -> Req] /\ req[r] \in Req /\ Signing(req[r]) /\ Opening(req[r])
  BY DEF Inv, Types
<1>1. req[r].op \in {"login", "refresh"} /\ req[r].at \in Nat
  BY <1>0, AtStep DEF Issue, Req
<1> DEFINE a == req[r].at + 1
           n == [req[r] EXCEPT !.at = a, !.gives = {g}]
           new == IF req[r].op = "login" THEN {req[r].user.password}
                  ELSE UNION {basis[h] : h \in req[r].uses}
<1>2. /\ g \notin access /\ access' = access \cup {g}
      /\ basis' = [basis EXCEPT ![g] = new]
      /\ row' = row /\ granted' = granted /\ open' = open /\ cut' = cut /\ ended' = ended
      /\ crossing' = crossing /\ movedBack' = movedBack
  BY DEF Issue
<1>3. req' = [req EXCEPT ![r] = n]
  BY <1>0 DEF Issue
<1>4. a \in Nat /\ n = [req[r] EXCEPT !.at = a, !.gives = {g}]
  BY <1>1
<1>5. /\ req[r].op = "login" => req[r].user["password"] \in new
      /\ req[r].op = "refresh" => \A h \in req[r].uses : basis[h] \subseteq new
  OBVIOUS
<1> HIDE DEF a, n, new
<1>6. /\ n \in Req /\ n.op = req[r].op /\ n.user = req[r].user /\ n.uses = req[r].uses
      /\ n.gives = {g}
  BY <1>0, <1>4 DEF Req
<1>7. n.crossed = req[r].crossed
  BY <1>0, <1>4 DEF Req
<1>8. basis'[g] = new /\ \A h \in access : basis'[h] = basis[h]
  BY <1>0, <1>2 DEF Types
<1>9. granted \subseteq access /\ g \notin granted
  BY <1>0, <1>2 DEF Types
<1>10. Types'
  <2>1. req' \in [Request -> Req]
    BY <1>0, <1>3, <1>6
  <2>2. basis' = [h \in Grant |-> basis'[h]]
    BY <1>0, <1>2 DEF Types
  <2> QED
    BY <1>0, <1>2, <2>1, <2>2 DEF Types
<1>11. Live' = Live
  BY <1>2 DEF Live
<1>12. ASSUME NEW s \in Request, s # r
       PROVE  req'[s] = req[s] /\ Signing(req[s]) /\ Opening(req[s])
  BY <1>0, <1>3, <1>12 DEF Inv
<1>13. req'[r] = n
  BY <1>0, <1>3
<1>14. ASSUME NEW s \in Request PROVE Signing(req[s])'
  <2>1. CASE s = r
    BY <1>1, <1>6, <1>13, <2>1 DEF Signing, Saver, SignOut
  <2>2. CASE s # r
    BY <1>2, <1>11, <1>12, <2>2 DEF Signing, Due
  <2> QED
    BY <2>1, <2>2
<1>15. ASSUME NEW s \in Request PROVE Opening(req[s])'
  <2>1. CASE s = r
    <3>1. n.gives \subseteq access' \ granted'
      BY <1>2, <1>6, <1>9
    <3>2. n.op = "refresh" => n.uses \subseteq granted' /\ n.uses # {}
      BY <1>0, <1>2, <1>6 DEF Opening
    <3>3. ASSUME n.crossed = FALSE, n.uses \cap crossing' = {}
          PROVE  /\ n.op = "login" => n.user["password"] = row'["password"]
                 /\ n.op = "refresh" => \A h \in n.uses : row'["password"] \in basis'[h]
                 /\ row'["password"] \in basis'[g]
      <4>1. CASE req[r].op = "login"
        <5>1. req[r].user["password"] = row["password"]
          BY <1>0, <1>2, <1>6, <1>7, <3>3, <4>1 DEF Opening
        <5> QED
          BY <1>2, <1>5, <1>6, <1>8, <4>1, <5>1
      <4>2. CASE req[r].op = "refresh"
        <5>1. /\ \A h \in req[r].uses : row["password"] \in basis[h]
              /\ req[r].uses \subseteq granted /\ req[r].uses # {}
          BY <1>0, <1>2, <1>6, <1>7, <3>3, <4>2 DEF Opening
        <5> QED
          BY <1>2, <1>5, <1>6, <1>8, <1>9, <4>2, <5>1
      <4> QED
        BY <1>1, <4>1, <4>2
    <3> QED
      BY <1>6, <1>13, <2>1, <3>1, <3>2, <3>3 DEF Opening
  <2>2. CASE s # r
    BY <1>2, <1>8, <1>9, <1>12, <2>2 DEF Opening
  <2> QED
    BY <2>1, <2>2
<1>16. Apart'
  <2>1. \A s \in Request : g \notin req[s].gives
    BY <1>2 DEF Inv, Opening
  <2> QED
    BY <1>6, <1>12, <1>13, <2>1 DEF Inv, Apart
<1>17. Overlap'
  BY <1>6, <1>7, <1>12, <1>13 DEF Inv, Overlap, Crosses
<1>18. SignOutEnds' /\ Current'
  <2>1. SignOutEnds'
    BY <1>2 DEF Inv, SignOutEnds
  <2>2. Current'
    BY <1>2, <1>8, <1>9, <1>11 DEF Inv, Current, Live
  <2> QED
    BY <2>1, <2>2
<1> QED
  BY <1>10, <1>14, <1>15, <1>16, <1>17, <1>18 DEF Inv

\* The cutoff is replaced: what crossed nobody was complete when this request
\* arrived, and is covered.
LEMMA CutoffKeeps == ASSUME Inv, NEW r \in Request, Cutoff(r) PROVE Inv'
<1>0. Types /\ req \in [Request -> Req] /\ req[r] \in Req /\ Signing(req[r]) /\ Opening(req[r])
  BY DEF Inv, Types
<1>1. /\ At(r, "cutoff") /\ req[r].op \in SignOut /\ req[r].op \in Saver
      /\ req[r].at \in DOMAIN Path[req[r].op] /\ Path[req[r].op][req[r].at] = "cutoff"
      /\ req[r].at \in Nat
  BY <1>0, AtStep DEF Cutoff, Req, Saver
<1> DEFINE upTo == IF req[r].op = "change" THEN access ELSE req[r].before
           a == req[r].at + 1
           n == [req[r] EXCEPT !.at = a, !.before = {}]
<1>2. /\ cut' = upTo /\ movedBack' = (movedBack \/ ~ cut \subseteq upTo)
      /\ row' = row /\ access' = access /\ granted' = granted /\ open' = open
      /\ basis' = basis /\ ended' = ended /\ crossing' = crossing
  BY DEF Cutoff
<1>3. req' = [req EXCEPT ![r] = n]
  BY <1>0 DEF Cutoff
<1>4. a \in Nat /\ n = [req[r] EXCEPT !.at = a, !.before = {}] /\ a = req[r].at + 1
  BY <1>1
<1>5. Due(req[r], "cutoff")
  BY <1>1, PathDomain DEF Due
<1>6. req[r].complete \subseteq cut' /\ granted \ crossing \subseteq cut' /\ cut' \subseteq Grant
  <2>1. /\ req[r].complete \subseteq req[r].before /\ req[r].complete \subseteq granted
        /\ granted \ crossing \subseteq req[r].complete
    BY <1>0, <1>1, <1>5 DEF Signing
  <2>2. granted \subseteq access /\ access \subseteq Grant /\ req[r].before \subseteq Grant
    BY <1>0 DEF Types, Req
  <2> QED
    BY <1>2, <2>1, <2>2
<1>7. movedBack' \in BOOLEAN /\ (movedBack' = FALSE => movedBack = FALSE /\ cut \subseteq cut')
  <2>1. movedBack \in BOOLEAN
    BY <1>0 DEF Types
  <2> QED
    BY <1>2, <2>1
<1> HIDE DEF upTo, a, n
<1>8. /\ n \in Req /\ n.op = req[r].op /\ n.at = a /\ n.user = req[r].user
      /\ n.complete = req[r].complete /\ n.targets = req[r].targets
      /\ n.uses = req[r].uses /\ n.gives = req[r].gives
  BY <1>0, <1>4 DEF Req
<1>9. n.crossed = req[r].crossed
  BY <1>0, <1>4 DEF Req
<1>10. ~Due(n, "cutoff") /\ (Due(n, "scan") <=> Due(req[r], "scan"))
  <2>1. n.op = req[r].op /\ n.at = req[r].at + 1
    BY <1>4, <1>8
  <2>2. ~Due(n, "cutoff")
    BY <1>0, <1>1, <2>1, CutoffOnce
  <2>3. Due(n, "scan") <=> Due(req[r], "scan")
    BY <1>0, <1>1, <2>1, Advance
  <2> QED
    BY <2>2, <2>3
<1>11. Types'
  <2>1. req' \in [Request -> Req]
    BY <1>0, <1>3, <1>8
  <2> QED
    BY <1>0, <1>2, <1>6, <1>7, <2>1 DEF Types
<1>12. Live' \subseteq Live
  BY <1>2, <1>6 DEF Live
<1>13. req'[r] = n /\ \A s \in Request \ {r} : req'[s] = req[s]
  BY <1>0, <1>3
<1>14. ASSUME NEW s \in Request PROVE Signing(req[s])'
  <2>1. CASE s = r
    <3>1. n.gives = {} /\ n.complete \subseteq granted' /\ granted' \ crossing' \subseteq n.complete
      BY <1>0, <1>1, <1>2, <1>8 DEF Signing
    <3>2. n.complete \subseteq cut'
      BY <1>6, <1>8
    <3>3. ~Due(n, "scan") => n.complete \cap open' \subseteq n.targets
      BY <1>0, <1>1, <1>2, <1>8, <1>10 DEF Signing
    <3>4. n.op \in {"block", "review", "lift"} =>
            n.user["password"] = row'["password"] \/ Live' = {}
      BY <1>0, <1>1, <1>2, <1>8, <1>12 DEF Signing
    <3> QED
      BY <1>10, <1>13, <2>1, <3>1, <3>2, <3>3, <3>4 DEF Signing, Due
  <2>2. CASE s # r
    <3>1. Signing(req[s])
      BY DEF Inv
    <3>2. ASSUME req[s].op \in SignOut, ~Due(req[s], "cutoff")
          PROVE  /\ req[s].complete \ crossing \subseteq cut'
                 /\ movedBack' = TRUE \/ req[s].complete \subseteq cut'
      <4>1. req[s].complete \subseteq granted /\ (movedBack = TRUE \/ req[s].complete \subseteq cut)
        BY <3>1, <3>2 DEF Signing, Saver
      <4> QED
        BY <1>6, <1>7, <4>1
    <3> QED
      BY <1>2, <1>12, <1>13, <2>2, <3>1, <3>2 DEF Signing, Due
  <2> QED
    BY <2>1, <2>2
<1>15. ASSUME NEW s \in Request PROVE Opening(req[s])'
  <2>1. Opening(req[s])
    BY DEF Inv
  <2>2. CASE s = r
    BY <1>2, <1>8, <1>9, <1>13, <2>1, <2>2 DEF Opening
  <2>3. CASE s # r
    BY <1>2, <1>13, <2>1, <2>3 DEF Opening
  <2> QED
    BY <2>2, <2>3
<1>16. Apart' /\ Overlap'
  <2>1. Apart'
    BY <1>8, <1>13 DEF Inv, Apart
  <2>2. Overlap'
    BY <1>8, <1>9, <1>13 DEF Inv, Overlap, Crosses
  <2> QED
    BY <2>1, <2>2
<1>17. SignOutEnds'
  <2>1. ended \subseteq granted
    BY <1>0 DEF Types
  <2>2. movedBack' = TRUE \/ ended' \subseteq cut'
    <3>1. movedBack \/ ended \subseteq cut
      BY DEF Inv, SignOutEnds
    <3> QED
      BY <1>2, <1>7, <3>1
  <2>3. ended' \cap open' = {} /\ ended' \ crossing' \subseteq cut'
    BY <1>2, <1>6, <2>1 DEF Inv, SignOutEnds
  <2> QED
    BY <2>2, <2>3 DEF SignOutEnds
<1>18. Current'
  BY <1>2, <1>12 DEF Inv, Current
<1> QED
  BY <1>11, <1>14, <1>15, <1>16, <1>17, <1>18 DEF Inv

\* What every commit does.
LEMMA CommitFacts ==
  ASSUME Inv, NEW r \in Request, Commit(r)
  PROVE  /\ req[r] \in Req /\ req[r].op \in Op \ {"none"}
         /\ Signing(req[r]) /\ Opening(req[r])
         /\ row' \in User
         /\ row'["password"] = row["password"] \/ row'["password"] = req[r].user["password"]
         /\ req[r].op \notin Saver => row' = row
         /\ granted' = granted \cup req[r].gives
         /\ open' = (open \ Holds(r)) \cup req[r].gives
         /\ access' = access /\ basis' = basis /\ cut' = cut /\ movedBack' = movedBack
         /\ req' \in [Request -> Req] /\ req'[r] = Idle
         /\ \A s \in Request \ {r} : req'[s] = req[s]
<1>0. Types /\ req \in [Request -> Req] /\ Signing(req[r]) /\ Opening(req[r]) /\ row \in User
  BY DEF Inv, Types
<1>1. /\ req[r] \in Req /\ req[r].op \in Op /\ req[r].op # "none" /\ req[r].user \in User
      /\ req[r].at \in DOMAIN Path[req[r].op] /\ Path[req[r].op][req[r].at] = "commit"
  BY <1>0, AtStep DEF Commit, Req
<1>2. /\ row' = [c \in {"status", "password"} |-> IF c \in Written(r) THEN req[r].user[c] ELSE row[c]]
      /\ granted' = granted \cup req[r].gives
      /\ open' = (open \ Holds(r)) \cup req[r].gives
      /\ req' = [req EXCEPT ![r] = Idle]
      /\ access' = access /\ basis' = basis /\ cut' = cut /\ movedBack' = movedBack
  BY DEF Commit
<1>3. row' \in User
  BY <1>0, <1>1, <1>2 DEF User
<1>4. row'["password"] = row["password"] \/ row'["password"] = req[r].user["password"]
  BY <1>2
<1>5. req[r].op \notin Saver => row' = row
  BY <1>0, <1>2 DEF Written, Saves, User
<1>6. req' \in [Request -> Req] /\ req'[r] = Idle /\ \A s \in Request \ {r} : req'[s] = req[s]
  BY <1>0, <1>2, IdleOK
<1> QED
  BY <1>0, <1>1, <1>2, <1>3, <1>4, <1>5, <1>6

\* A sign-out that commits has covered and closed what it found.
LEMMA SignOutCommits ==
  ASSUME Inv, NEW r \in Request, Commit(r), req[r].op \in SignOut
  PROVE  /\ req[r].targets \subseteq Holds(r)
         /\ req[r].complete \cap open \subseteq req[r].targets
         /\ req[r].complete \ crossing \subseteq cut
         /\ movedBack = TRUE \/ req[r].complete \subseteq cut
<1>0. Types /\ Signing(req[r])
  BY DEF Inv
<1>1. /\ req[r] \in Req /\ req[r].at \in DOMAIN Path[req[r].op]
      /\ Path[req[r].op][req[r].at] = "commit"
  BY <1>0, AtStep DEF Commit
<1>2. ~Due(req[r], "cutoff") /\ ~Due(req[r], "scan") /\ ~Due(req[r], "lock")
  BY <1>1, CommitLast
<1>3. ~Ahead(r, "lock")
  BY <1>2, AheadIsDue
<1> QED
  BY <1>0, <1>2, <1>3 DEF Holds, Signing, Saver

\* The requests after a commit: one is idle, and the others know what they knew.
LEMMA CommitOthers ==
  ASSUME Inv, NEW r \in Request, Commit(r) PROVE Apart' /\ Overlap'
<1>1. req'[r] = Idle /\ \A s \in Request \ {r} : req'[s] = req[s]
  BY CommitFacts
<1>2. Apart'
  BY <1>1, IdleOK DEF Inv, Apart
<1>3. Overlap'
  <2>1. \A q \in Request : ~Crosses(req'[r].op, req'[q].op) /\ ~Crosses(req'[q].op, req'[r].op)
    BY <1>1, IdleOK DEF Crosses, Saver, SignOut
  <2>2. \A p, q \in Request : Crosses(req'[p].op, req'[q].op) => p # r /\ q # r
    BY <2>1
  <2> QED
    BY <1>1, <2>2 DEF Inv, Overlap
<1> QED
  BY <1>2, <1>3

\* The commit of a request that saves the account.  If it changes the password,
\* no session is left that crossed nobody.
LEMMA SaverCommits ==
  ASSUME Inv, NEW r \in Request, Commit(r), req[r].op \in Saver PROVE Inv'
<1>0. Types /\ Signing(req[r])
  BY DEF Inv
<1>1. /\ req[r].gives = {} /\ req[r].complete \subseteq granted
      /\ granted \ crossing \subseteq req[r].complete
  BY <1>0 DEF Signing
<1>2. /\ granted' = granted /\ open' = open \ Holds(r) /\ crossing' = crossing
      /\ access' = access /\ basis' = basis /\ cut' = cut /\ movedBack' = movedBack
      /\ ended' = ended \cup (IF req[r].op \in SignOut THEN req[r].complete ELSE {})
  BY <1>1 DEF Commit
<1>3. Live' \subseteq Live
  BY <1>2 DEF Live
<1>4. ASSUME req[r].op \in SignOut
      PROVE  /\ req[r].complete \cap open' = {}
             /\ req[r].complete \ crossing \subseteq cut
             /\ movedBack = TRUE \/ req[r].complete \subseteq cut
  <2>1. /\ req[r].targets \subseteq Holds(r) /\ req[r].complete \cap open \subseteq req[r].targets
        /\ req[r].complete \ crossing \subseteq cut
    BY <1>4, SignOutCommits
  <2>2. movedBack = TRUE \/ req[r].complete \subseteq cut
    BY <1>4, SignOutCommits
  <2>3. req[r].complete \cap open' = {}
    BY <1>2, <2>1
  <2> QED
    BY <2>1, <2>2, <2>3
<1>5. row'["password"] = row["password"] \/ Live' = {}
  <2>1. CASE req[r].op \in {"block", "review", "lift"}
    <3>1. req[r].user["password"] = row["password"] \/ Live = {}
      BY <1>0, <2>1 DEF Signing
    <3>2. row'["password"] = row["password"] \/ row'["password"] = req[r].user["password"]
      BY CommitFacts
    <3> QED
      BY <1>3, <3>1, <3>2
  <2>2. CASE req[r].op \in {"change", "reset"}
    <3>1. req[r].op \in SignOut
      BY <2>2 DEF SignOut
    <3>2. req[r].complete \cap open' = {} /\ req[r].complete \ crossing \subseteq cut
      BY <1>4, <3>1
    <3>3. ASSUME NEW g \in Live' PROVE FALSE
      <4>1. g \in granted \ crossing /\ (g \notin cut \/ g \in open')
        BY <1>2, <3>3 DEF Live
      <4>2. g \in req[r].complete
        BY <1>1, <4>1
      <4> QED
        BY <3>2, <4>1, <4>2
    <3> QED
      BY <3>3
  <2> QED
    BY <2>1, <2>2 DEF Saver, SignOut
<1>6. req'[r] = Idle /\ \A s \in Request \ {r} : req'[s] = req[s]
  BY CommitFacts
<1>7. Types'
  <2>1. row' \in User /\ req' \in [Request -> Req]
    BY CommitFacts
  <2> QED
    BY <1>0, <1>1, <1>2, <2>1 DEF Types
<1>8. SignOutEnds'
  <2>1. /\ ended \cap open = {} /\ ended \ crossing \subseteq cut
        /\ movedBack = TRUE \/ ended \subseteq cut
    BY <1>0 DEF Inv, SignOutEnds, Types
  <2>2. ended' \cap open' = {} /\ ended' \ crossing' \subseteq cut'
    <3>1. CASE req[r].op \in SignOut
      <4>1. req[r].complete \cap open' = {} /\ req[r].complete \ crossing \subseteq cut
        BY <1>4, <3>1
      <4>2. ended' = ended \cup req[r].complete /\ open' \subseteq open
        BY <1>2, <3>1
      <4> QED
        BY <1>2, <2>1, <4>1, <4>2
    <3>2. CASE req[r].op \notin SignOut
      <4>1. ended' = ended /\ open' \subseteq open
        BY <1>2, <3>2
      <4> QED
        BY <1>2, <2>1, <4>1
    <3> QED
      BY <3>1, <3>2
  <2>3. movedBack' = TRUE \/ ended' \subseteq cut'
    BY <1>2, <1>4, <2>1
  <2> QED
    BY <2>2, <2>3 DEF SignOutEnds
<1>9. Current'
  BY <1>2, <1>3, <1>5 DEF Inv, Current
<1>10. ASSUME NEW s \in Request PROVE Signing(req[s])' /\ Opening(req[s])'
  <2>1. CASE s = r
    BY <1>6, <2>1, IdleOK DEF Signing, Opening, Saver, SignOut
  <2>2. CASE s # r
    <3>1. req'[s] = req[s] /\ Signing(req[s]) /\ Opening(req[s])
      BY <1>6, <2>2 DEF Inv
    <3>2. Signing(req[s])'
      BY <1>2, <1>3, <1>5, <3>1 DEF Signing, Due
    <3>3. req[s].op \in {"login", "refresh"} => req[s].crossed = TRUE
      BY DEF Inv, Overlap, Crosses
    <3>4. Opening(req[s])'
      BY <1>2, <3>1, <3>3 DEF Opening
    <3> QED
      BY <3>2, <3>4
  <2> QED
    BY <2>1, <2>2
<1> QED
  BY <1>7, <1>8, <1>9, <1>10, CommitOthers DEF Inv

\* The commit of a login or a refresh.  If it crossed nobody, nobody saves the
\* account, and the session has the password of the row.
LEMMA OpenerCommits ==
  ASSUME Inv, NEW r \in Request, Commit(r), req[r].op \in {"login", "refresh"} PROVE Inv'
<1>0. Types /\ Opening(req[r])
  BY DEF Inv
<1>1. req[r].op \notin Saver /\ req[r].op \notin SignOut
  BY DEF Saver, SignOut
<1> DEFINE new == req[r].gives
           known == req[r].crossed \/ req[r].uses \cap crossing # {}
<1>2. /\ row' = row /\ granted' = granted \cup new /\ open' = (open \ Holds(r)) \cup new
      /\ access' = access /\ basis' = basis /\ cut' = cut /\ movedBack' = movedBack
      /\ req'[r] = Idle /\ \A s \in Request \ {r} : req'[s] = req[s]
  BY <1>1, CommitFacts
<1>3. ended' = ended /\ crossing' = crossing \cup (IF known THEN new ELSE {})
  BY <1>1 DEF Commit
<1>4. new \subseteq access \ granted /\ new \subseteq Grant
  BY <1>0 DEF Opening, Types
<1>5. known \/ (crossing' = crossing /\ \A g \in new : row["password"] \in basis[g])
  <2>1. req[r].crossed \in BOOLEAN
    BY CommitFacts DEF Req
  <2>2. ~known => req[r].crossed = FALSE /\ req[r].uses \cap crossing = {}
    BY <2>1
  <2>3. ~known => \A g \in new : row["password"] \in basis[g]
    BY <1>0, <2>2 DEF Opening
  <2> QED
    BY <1>3, <2>3
<1>6. ASSUME NEW s \in Request, req[s].op \in Saver PROVE known
  <2>1. req[r].crossed = TRUE
    BY <1>6 DEF Inv, Overlap, Crosses
  <2> QED
    BY <2>1
<1> HIDE DEF known, new
<1>7. known => granted' \ crossing' \subseteq granted \ crossing /\ Live' \subseteq Live
  BY <1>2, <1>3 DEF Live
<1>8. Live' \subseteq Live \cup new
  BY <1>2, <1>3 DEF Live
<1>9. Types'
  <2>1. req' \in [Request -> Req]
    BY CommitFacts
  <2> QED
    BY <1>0, <1>2, <1>3, <1>4, <2>1 DEF Types
<1>10. SignOutEnds'
  <2>1. ended \subseteq granted
    BY <1>0 DEF Types
  <2> QED
    BY <1>2, <1>3, <1>4, <2>1 DEF Inv, SignOutEnds
<1>11. Current'
  <2>1. CASE known
    BY <1>2, <1>7, <2>1 DEF Inv, Current
  <2>2. CASE ~known
    BY <1>2, <1>5, <1>8, <2>2 DEF Inv, Current
  <2> QED
    BY <2>1, <2>2
<1>12. ASSUME NEW s \in Request PROVE Signing(req[s])' /\ Opening(req[s])'
  <2>1. CASE s = r
    BY <1>2, <2>1, IdleOK DEF Signing, Opening, Saver, SignOut
  <2>2. CASE s # r
    <3>1. req'[s] = req[s] /\ Signing(req[s]) /\ Opening(req[s])
      BY <1>2, <2>2 DEF Inv
    <3>2. Signing(req[s])'
      <4> SUFFICES ASSUME req[s].op \in Saver PROVE Signing(req[s])'
        BY <3>1 DEF Signing
      <4>1. granted' \ crossing' \subseteq granted \ crossing /\ Live' \subseteq Live
        BY <1>6, <1>7
      <4>2. /\ req[s].complete \subseteq granted /\ granted \subseteq granted'
            /\ crossing \subseteq crossing'
        BY <1>2, <1>3, <3>1 DEF Signing
      <4>3. req[s].complete \cap open' \subseteq req[s].complete \cap open
        BY <1>2, <1>4, <4>2
      <4> QED
        BY <1>2, <3>1, <4>1, <4>2, <4>3 DEF Signing, Due
    <3>3. Opening(req[s])'
      <4>1. req[s].gives \cap new = {}
        BY <2>2 DEF Inv, Apart, new
      <4> QED
        BY <1>2, <1>3, <3>1, <4>1 DEF Opening
    <3> QED
      BY <3>2, <3>3
  <2> QED
    BY <2>1, <2>2
<1> QED
  BY <1>9, <1>10, <1>11, <1>12, CommitOthers DEF Inv

LEMMA CommitKeeps == ASSUME Inv, NEW r \in Request, Commit(r) PROVE Inv'
<1>1. req[r].op \in Saver \/ req[r].op \in {"login", "refresh"}
  BY CommitFacts DEF Op, Saver
<1> QED
  BY <1>1, SaverCommits, OpenerCommits

-----------------------------------------------------------------------------
\* The invariant holds throughout.
LEMMA AlwaysInv == Spec => []Inv
<1>1. Init => Inv
  <2> SUFFICES ASSUME Init PROVE Inv
    OBVIOUS
  <2>1. Types
    <3>1. row \in User
      BY DEF Init, User
    <3> QED
      BY <3>1, IdleOK DEF Init, Types
  <2>2. \A r \in Request : req[r] = Idle
    BY DEF Init
  <2>3. Apart /\ Overlap
    BY <2>2, IdleOK DEF Apart, Overlap, Crosses, Saver, SignOut
  <2>4. SignOutEnds /\ Current
    BY DEF Init, SignOutEnds, Current, Live
  <2> QED
    BY <2>1, <2>2, <2>3, <2>4, IdleOK DEF Inv
<1>2. Inv /\ [Next]_vars => Inv'
  <2> SUFFICES ASSUME Inv, [Next]_vars PROVE Inv'
    OBVIOUS
  <2>1. CASE UNCHANGED vars
    <3>1. UNCHANGED store /\ req' = req
      BY <2>1 DEF vars, store
    <3>2. req' \in [Request -> Req] /\ \A s \in Request : Signing(req'[s]) /\ Opening(req'[s])
      BY <3>1 DEF Inv, Types
    <3>3. Apart' /\ Overlap'
      BY <3>1 DEF Inv, Apart, Overlap
    <3> QED
      BY <3>1, <3>2, <3>3, StoreKept
  <2>2. CASE Next
    BY <2>2, ArriveKeeps, IssueKeeps, QuietKeeps, CutoffKeeps, CommitKeeps, RollbackKeeps
       DEF Next, Step
  <2> QED
    BY <2>1, <2>2
<1> QED
  BY <1>1, <1>2, PTL DEF Spec

\* A sign-out that was committed ended the refresh tokens of every session that
\* was complete when it arrived, for good; and their access tokens, unless the
\* cutoff was moved back for a session that crossed a request that saves the
\* account.
THEOREM SignOutIsFinal == Spec => []SignOutEnds
<1>1. Inv => SignOutEnds
  BY DEF Inv
<1> QED
  BY <1>1, AlwaysInv, PTL

\* A session that works was opened with the password the account has, unless it
\* crossed a request that saves the account.
THEOREM PasswordIsCurrent == Spec => []UsableIsCurrent
<1>1. Inv => UsableIsCurrent
  BY DEF Inv, Current, Live, UsableIsCurrent, Works
<1> QED
  BY <1>1, AlwaysInv, PTL
=============================================================================
