----------------------------- MODULE RedisProofs -----------------------------
(***************************************************************************)
(* Proofs about what the service keeps on Redis: the attempt counters      *)
(* (RateLimiter) and the keys that take access tokens back (AccessTokens). *)
(*                                                                         *)
(* Attempt counters, for any limit and any number of requests at once.     *)
(* Neither limit is an invariant by itself: what counts is what the        *)
(* requests under way may still add.  Room: at a password door every       *)
(* attempt let in has room left for its mark.  Ledger: at a quota door     *)
(* whoever was let through, or will be with the mark it holds, is counted. *)
(*                                                                         *)
(* Access tokens, for any clock, life, tokens and requests.  A key is      *)
(* written some time after its handler read the clock, from times that     *)
(* were truncated: CutoffLasts and LogoutLasts say how long it covers what *)
(* it was written for all the same.                                        *)
(***************************************************************************)
EXTENDS RateLimiter, AccessTokens, FiniteSetTheorems, TLAPS

\* Attempts that were let in and may still be counted.
Pending == {r \in Request : pc[r] \in {"verify", "incr"}}

\* Requests that hold a mark within the limit.
Owed == {r \in Request : marks[r] > 0 /\ Accepts(marks[r])}

Room == door = "password" =>
          count + Cardinality(Pending) < MaxAttempts + Cardinality(Request)

Ledger == /\ passed + Cardinality(Owed) <= count
          /\ passed + Cardinality(Owed) <= MaxAttempts

\* A mark is held between the two commands of hit and the verdict.
MarkHeld == \A r \in Request : marks[r] > 0 => pc[r] \in {"expire", "decide"}

\* TypeOK but for the bound on passed, which the Ledger gives.
Types ==
  /\ door \in {"password", "quota"}
  /\ count \in Nat
  /\ expires \in BOOLEAN
  /\ expires => count > 0
  /\ passed \in Nat
  /\ pc \in [Request -> {"idle", "verify", "incr", "expire", "decide"}]
  /\ marks \in [Request -> 0..count]
  /\ crashes \in 0..MaxCrashes

Inv == Types /\ Room /\ Ledger /\ MarkHeld

\* The cardinality of a set of requests.
LEMMA Counting ==
  /\ Cardinality(Request) \in Nat
  /\ \A S \in SUBSET Request :
       /\ IsFiniteSet(S)
       /\ Cardinality(S) \in Nat
       /\ Cardinality(S) <= Cardinality(Request)
       /\ \A T \in SUBSET S : Cardinality(T) <= Cardinality(S)
       /\ \A r \in Request \ S : Cardinality(S \cup {r}) = Cardinality(S) + 1
       /\ \A r \in S : Cardinality(S \ {r}) = Cardinality(S) - 1
<1>1. IsFiniteSet(Request)
  BY LimiterAssumption
<1>2. Cardinality(Request) \in Nat
  BY <1>1, FS_CardinalityType
<1>3. ASSUME NEW S \in SUBSET Request
      PROVE  /\ IsFiniteSet(S)
             /\ Cardinality(S) \in Nat
             /\ Cardinality(S) <= Cardinality(Request)
  BY <1>1, <1>3, FS_Subset, FS_CardinalityType
<1>4. ASSUME NEW S \in SUBSET Request, NEW T \in SUBSET S
      PROVE  Cardinality(T) <= Cardinality(S)
  BY <1>3, FS_Subset
<1>5. ASSUME NEW S \in SUBSET Request, NEW r \in Request \ S
      PROVE  Cardinality(S \cup {r}) = Cardinality(S) + 1
  BY <1>3, FS_AddElement
<1>6. ASSUME NEW S \in SUBSET Request, NEW r \in S
      PROVE  Cardinality(S \ {r}) = Cardinality(S) - 1
  BY <1>3, FS_RemoveElement
<1> QED
  BY <1>2, <1>3, <1>4, <1>5, <1>6

\* Without a key nobody holds a mark: the Ledger of an empty window.
LEMMA NoMarks ==
  ASSUME passed = 0, count \in Nat, \A r \in Request : marks[r] = 0
  PROVE  Ledger /\ MarkHeld
<1>1. Owed = {}
  BY DEF Owed
<1>2. Cardinality(Owed) = 0
  BY <1>1, FS_EmptySet
<1> QED
  BY <1>2, LimiterAssumption DEF Ledger, MarkHeld

\* A step after which no more may be counted than before keeps the Room.
LEMMA RoomKept ==
  ASSUME Types, Room, door' = door, count' \in Nat, count' <= count, Pending' \subseteq Pending
  PROVE  Room'
<1>1. Pending \in SUBSET Request /\ Pending' \in SUBSET Request
  BY DEF Pending
<1>2. Cardinality(Pending') <= Cardinality(Pending)
  BY <1>1, Counting
<1>3. Cardinality(Pending') \in Nat /\ Cardinality(Pending) \in Nat /\ Cardinality(Request) \in Nat
  BY <1>1, Counting
<1> QED
  BY <1>2, <1>3, LimiterAssumption DEF Types, Room

\* A step that lets nobody through and gives out no mark keeps the Ledger.
LEMMA LedgerKept ==
  ASSUME Types, Ledger, passed' = passed, count' = count, Owed' \subseteq Owed
  PROVE  Ledger'
<1>1. Owed \in SUBSET Request /\ Owed' \in SUBSET Request
  BY DEF Owed
<1>2. Cardinality(Owed') <= Cardinality(Owed)
  BY <1>1, Counting
<1>3. Cardinality(Owed') \in Nat /\ Cardinality(Owed) \in Nat
  BY <1>1, Counting
<1> QED
  BY <1>2, <1>3, LimiterAssumption DEF Types, Ledger

\* The first command of hit: the mark takes the room the attempt had, and is
\* owed a place if it is within the limit.
LEMMA IncrKeeps == ASSUME Inv, NEW r \in Request, Incr(r) PROVE Inv'
<1>1. Types /\ Room /\ Ledger /\ MarkHeld
  BY DEF Inv
<1>2. Types'
  BY <1>1 DEF Types, Incr, Goto
<1>3. Room'
  <2>1. Pending' = Pending \ {r} /\ r \in Pending /\ Pending \in SUBSET Request
    BY <1>1 DEF Pending, Incr, Goto, Types
  <2>2. /\ Cardinality(Pending') = Cardinality(Pending) - 1
        /\ Cardinality(Pending) \in Nat /\ Cardinality(Request) \in Nat
    BY <2>1, Counting
  <2> QED
    BY <1>1, <2>2, LimiterAssumption DEF Room, Incr, Types
<1>4. Ledger'
  <2>1. marks[r] = 0
    BY <1>1 DEF MarkHeld, Incr, Goto, Types
  <2>2. Owed \in SUBSET Request /\ r \notin Owed
    BY <2>1 DEF Owed
  <2>3. Cardinality(Owed) \in Nat /\ Cardinality(Owed \cup {r}) = Cardinality(Owed) + 1
    BY <2>2, Counting
  <2>4. CASE count + 1 <= MaxAttempts
    <3>1. Owed' = Owed \cup {r}
      BY <1>1, <2>4 DEF Owed, Incr, Accepts, Types
    <3> QED
      BY <1>1, <2>3, <2>4, <3>1, LimiterAssumption DEF Ledger, Incr, Types
  <2>5. CASE ~(count + 1 <= MaxAttempts)
    <3>1. Owed' = Owed
      BY <1>1, <2>1, <2>5 DEF Owed, Incr, Accepts, Types
    <3> QED
      BY <1>1, <2>3, <3>1, LimiterAssumption DEF Ledger, Incr, Types
  <2> QED
    BY <2>4, <2>5
<1>5. MarkHeld'
  BY <1>1 DEF MarkHeld, Incr, Goto, Types
<1> QED
  BY <1>2, <1>3, <1>4, <1>5 DEF Inv

\* The attempt is let in below the limit: there is room for every request.
LEMMA GuardKeeps == ASSUME Inv, NEW r \in Request, Guard(r) PROVE Inv'
<1>1. Types /\ Room /\ Ledger /\ MarkHeld
  BY DEF Inv
<1>2. Types'
  BY <1>1 DEF Types, Guard, Goto
<1>3. Room'
  <2>1. Pending' \in SUBSET Request
    BY DEF Pending
  <2>2. /\ Cardinality(Pending') <= Cardinality(Request)
        /\ Cardinality(Pending') \in Nat /\ Cardinality(Request) \in Nat
    BY <2>1, Counting
  <2> QED
    BY <1>1, <2>2, LimiterAssumption DEF Room, Guard, Types
<1>4. Ledger'
  <2>1. Owed' = Owed
    BY DEF Owed, Guard
  <2> QED
    BY <1>1, <2>1, LedgerKept DEF Guard
<1>5. MarkHeld'
  BY <1>1 DEF MarkHeld, Guard, Goto, Types
<1> QED
  BY <1>2, <1>3, <1>4, <1>5 DEF Inv

\* The verdict: a mark within the limit becomes a request let through.
LEMMA DecideKeeps == ASSUME Inv, NEW r \in Request, Decide(r) PROVE Inv'
<1>1. Types /\ Room /\ Ledger /\ MarkHeld
  BY DEF Inv
<1>2. Types'
  BY <1>1 DEF Types, Decide, Goto
<1>3. Room'
  <2>1. Pending' \subseteq Pending
    BY <1>1 DEF Pending, Decide, Goto, Types
  <2> QED
    BY <1>1, <2>1, RoomKept DEF Decide, Types
<1>4. Ledger'
  <2>1. Owed' = Owed \ {r} /\ Owed \in SUBSET Request
    BY <1>1 DEF Owed, Decide, Types
  <2>2. CASE passed' = passed
    BY <1>1, <2>1, <2>2, LedgerKept DEF Decide
  <2>3. CASE passed' = passed + 1 /\ r \in Owed
    <3>1. Cardinality(Owed') = Cardinality(Owed) - 1 /\ Cardinality(Owed) \in Nat
      BY <2>1, <2>3, Counting
    <3> QED
      BY <1>1, <2>3, <3>1, LimiterAssumption DEF Ledger, Decide, Types
  <2> QED
    BY <2>2, <2>3 DEF Decide, Owed
<1>5. MarkHeld'
  BY <1>1 DEF MarkHeld, Decide, Goto, Types
<1> QED
  BY <1>2, <1>3, <1>4, <1>5 DEF Inv

\* The key is dropped, by its expiry or by a right password.
LEMMA ForgetKeeps ==
  ASSUME Inv, WindowEnds \/ \E r \in Request : Succeed(r) PROVE Inv'
<1>1. Types /\ Room /\ Ledger /\ MarkHeld
  BY DEF Inv
<1>2. /\ count' = 0 /\ expires' = FALSE /\ passed' = 0
      /\ marks' = [r \in Request |-> 0] /\ crashes' = crashes /\ door' = door
      /\ pc' = pc \/ \E r \in Request : pc[r] = "verify" /\ pc' = [pc EXCEPT ![r] = "idle"]
  BY DEF WindowEnds, Succeed, Forget, Goto
<1>3. Types'
  <2>1. expires' \in BOOLEAN /\ (expires' => count' > 0)
    BY <1>2
  <2>2. pc' \in [Request -> {"idle", "verify", "incr", "expire", "decide"}]
    BY <1>1, <1>2 DEF Types
  <2>3. /\ marks' \in [Request -> 0..count'] /\ count' \in Nat /\ passed' \in Nat
        /\ crashes' \in 0..MaxCrashes /\ door' \in {"password", "quota"}
    BY <1>1, <1>2 DEF Types
  <2> QED
    BY <2>1, <2>2, <2>3 DEF Types
<1>4. Room'
  <2>1. Pending' \subseteq Pending
    BY <1>1, <1>2 DEF Pending, Types
  <2> QED
    BY <1>1, <1>2, <2>1, RoomKept DEF Types
<1>5. Ledger' /\ MarkHeld'
  <2>1. Owed' = {}
    BY <1>2 DEF Owed
  <2>2. Cardinality(Owed') = 0
    BY <2>1, FS_EmptySet
  <2> QED
    BY <1>2, <2>2, LimiterAssumption DEF Ledger, MarkHeld
<1> QED
  BY <1>3, <1>4, <1>5 DEF Inv

\* The steps that leave the count alone and give nobody a mark.
LEMMA OthersKeep ==
  ASSUME Inv, NEW r \in Request,
         Expire(r) \/ WrongPassword(r) \/ Refuse(r) \/ Ask(r) \/ Crash(r)
  PROVE  Inv'
<1>1. Types /\ Room /\ Ledger /\ MarkHeld
  BY DEF Inv
<1>2. Types'
  <2>1. expires' \in BOOLEAN /\ (expires' => count' > 0)
    <3>1. CASE Expire(r)
      <4> DEFINE b == count > 0
      <4>1. b \in BOOLEAN /\ (b => count > 0)
        OBVIOUS
      <4>2. expires' = b
        BY <3>1 DEF Expire
      <4>3. count' = count
        BY <3>1 DEF Expire
      <4> HIDE DEF b
      <4> QED
        BY <4>1, <4>2, <4>3
    <3>2. CASE ~Expire(r)
      <4>1. expires' = expires /\ count' = count
        BY <3>2 DEF WrongPassword, Refuse, Ask, Crash
      <4> QED
        BY <1>1, <4>1 DEF Types
    <3> QED
      BY <3>1, <3>2
  <2>2. crashes' \in 0..MaxCrashes
    BY <1>1, LimiterAssumption DEF Types, Expire, WrongPassword, Refuse, Ask, Crash
  <2>3. pc' \in [Request -> {"idle", "verify", "incr", "expire", "decide"}]
    BY <1>1 DEF Types, Expire, WrongPassword, Refuse, Ask, Crash, Goto
  <2>4. /\ marks' \in [Request -> 0..count'] /\ count' \in Nat /\ passed' \in Nat
        /\ door' \in {"password", "quota"}
    BY <1>1 DEF Types, Expire, WrongPassword, Refuse, Ask, Crash
  <2> QED
    BY <2>1, <2>2, <2>3, <2>4 DEF Types
<1>3. Room'
  <2>1. CASE Ask(r)
    BY <2>1 DEF Room, Ask
  <2>2. CASE ~Ask(r)
    <3>1. Pending' \subseteq Pending
      BY <1>1, <2>2 DEF Pending, Expire, WrongPassword, Refuse, Crash, Goto, Types
    <3>2. door' = door /\ count' = count
      BY DEF Expire, WrongPassword, Refuse, Ask, Crash
    <3> QED
      BY <1>1, <3>1, <3>2, RoomKept DEF Types
  <2> QED
    BY <2>1, <2>2
<1>4. Ledger'
  <2>1. marks' = marks \/ marks' = [marks EXCEPT ![r] = 0]
    BY DEF Expire, WrongPassword, Refuse, Ask, Crash
  <2>2. Owed' \subseteq Owed
    BY <1>1, <2>1 DEF Owed, Types
  <2>3. passed' = passed /\ count' = count
    BY DEF Expire, WrongPassword, Refuse, Ask, Crash
  <2> QED
    BY <1>1, <2>2, <2>3, LedgerKept
<1>5. MarkHeld'
  BY <1>1 DEF MarkHeld, Expire, WrongPassword, Refuse, Ask, Crash, Goto, Types
<1> QED
  BY <1>2, <1>3, <1>4, <1>5 DEF Inv

-----------------------------------------------------------------------------
\* The invariant holds throughout.
LEMMA AlwaysInv == Spec => []Inv
<1>1. Init => Inv
  <2> SUFFICES ASSUME Init PROVE Inv
    OBVIOUS
  <2>1. Types
    <3>1. expires = FALSE
      BY DEF Init
    <3>2. expires \in BOOLEAN /\ (expires => count > 0)
      BY <3>1
    <3>3. /\ marks \in [Request -> 0..count] /\ count \in Nat /\ passed \in Nat
          /\ crashes \in 0..MaxCrashes /\ door \in {"password", "quota"}
          /\ pc \in [Request -> {"idle", "verify", "incr", "expire", "decide"}]
      BY LimiterAssumption DEF Init
    <3> QED
      BY <3>2, <3>3 DEF Types
  <2>2. Room
    <3>1. Pending = {}
      BY DEF Init, Pending
    <3>2. Cardinality(Pending) = 0 /\ Cardinality(Request) \in Nat
      BY <3>1, FS_EmptySet, Counting
    <3> QED
      BY <3>2, LimiterAssumption DEF Init, Room
  <2>3. Ledger /\ MarkHeld
    BY NoMarks DEF Init
  <2> QED
    BY <2>1, <2>2, <2>3 DEF Inv
<1>2. Inv /\ [Next]_vars => Inv'
  <2> SUFFICES ASSUME Inv, [Next]_vars PROVE Inv'
    OBVIOUS
  <2>1. CASE UNCHANGED vars
    BY <2>1 DEF vars, Inv, Types, Room, Ledger, MarkHeld, Pending, Owed
  <2>2. CASE Next
    BY <2>2, IncrKeeps, GuardKeeps, DecideKeeps, ForgetKeeps, OthersKeep DEF Next, Step
  <2> QED
    BY <2>1, <2>2
<1> QED
  BY <1>1, <1>2, PTL DEF Spec

\* The counter, its expiry and the marks keep their types and their order: no
\* request holds a mark, and no window has let through, more than was counted.
THEOREM TypeCorrect == Spec => []TypeOK
<1>1. Inv => TypeOK
  <2>1. Owed \in SUBSET Request
    BY DEF Owed
  <2>2. Cardinality(Owed) \in Nat
    BY <2>1, Counting
  <2> QED
    BY <2>2 DEF Inv, Types, Ledger, TypeOK
<1> QED
  BY <1>1, AlwaysInv, PTL

\* A password door never counts more wrong attempts in a window than the limit
\* and the other requests being served: whoever read the counter below the
\* limit has its mark reserved.
THEOREM Budgeted == Spec => []BudgetHolds
<1>1. Inv => BudgetHolds
  <2>1. Pending \in SUBSET Request
    BY DEF Pending
  <2>2. Cardinality(Pending) \in Nat /\ Cardinality(Request) \in Nat
    BY <2>1, Counting
  <2> QED
    BY <2>2, LimiterAssumption DEF Inv, Types, Room, BudgetHolds
<1> QED
  BY <1>1, AlwaysInv, PTL

\* A quota door never lets through more requests in a window than its limit.
THEOREM QuotaKept == Spec => []QuotaHolds
<1>1. Inv => QuotaHolds
  <2>1. Owed \in SUBSET Request
    BY DEF Owed
  <2>2. Cardinality(Owed) \in Nat
    BY <2>1, Counting
  <2> QED
    BY <2>2, LimiterAssumption DEF Inv, Types, Ledger, QuotaHolds
<1> QED
  BY <1>1, AlwaysInv, PTL

-----------------------------------------------------------------------------
(* Access tokens.                                                          *)

\* Truncation to the second costs less than a second.
LEMMA Truncates ==
  ASSUME NEW n \in Nat \ {0}, NEW a \in Nat
  PROVE  a \div n \in Nat /\ n * (a \div n) <= a /\ a < n * (a \div n) + n
OBVIOUS

\* A product of naturals less than one factor apart from another is not above
\* it: what orders the seconds of two instants.
LEMMA Factors ==
  ASSUME NEW n \in Nat \ {0}, NEW p \in Nat, NEW q \in Nat, n * p < n * q + n
  PROVE  p <= q
<1> SUFFICES ASSUME p >= q + 1 PROVE FALSE
  OBVIOUS
<1>1. PICK d \in Nat : p = q + 1 + d
  <2>1. p - q - 1 \in Nat
    OBVIOUS
  <2> QED
    BY <2>1
<1>2. n * p = n * q + n + n * d
  BY <1>1
<1>3. n * d >= 0
  OBVIOUS
<1> QED
  BY <1>2, <1>3

\* Truncation keeps the order of two instants.
LEMMA Monotone ==
  ASSUME NEW n \in Nat \ {0}, NEW a \in Nat, NEW b \in Nat, a <= b
  PROVE  a \div n <= b \div n
<1> DEFINE p == a \div n
           q == b \div n
<1>1. p \in Nat /\ n * p <= a
  BY Truncates
<1>2. q \in Nat /\ b < n * q + n
  BY Truncates
<1>3. n * p \in Nat /\ n * q \in Nat
  BY <1>1, <1>2
<1> HIDE DEF p, q
<1>4. p <= q
  BY <1>1, <1>2, <1>3, Factors
<1> QED
  BY <1>4 DEF p, q

\* The tick the exp claim of a token stands for: Decodes up to it.
Expiry(t) == TicksPerSecond * exp(t)

ClockTypes ==
  /\ now \in Nat /\ ended \in Nat /\ cutoff \in Nat /\ cutoffUntil \in Nat
  /\ issued \subseteq Token /\ loggedOut \subseteq issued
  /\ born \in [Token -> Nat]
  /\ jtiUntil \in [Token -> Nat]
  /\ stamp \in [Revoker -> Nat]
  /\ tok \in [Revoker -> SUBSET issued]

\* A request writes its key no earlier than it read its `now`, of a token that
\* had not expired then.
StampsRead ==
  \A r \in Revoker : /\ stamp[r] <= now
                     /\ \A t \in tok[r] : stamp[r] < Expiry(t)

\* The key of the last revoke_all outlives every token born up to its `now`.
CutoffLasts ==
  ended > 0 => /\ cutoff = Second(ended - 1)
               /\ ended - 1 + TicksPerSecond * Life <= cutoffUntil

\* The key of a logout lasts until the last second of its token.
LogoutLasts == \A t \in loggedOut : Expiry(t) < jtiUntil[t] + TicksPerSecond

ClockInv == ClockTypes /\ StampsRead /\ CutoffLasts /\ LogoutLasts

\* A claim in seconds stands for no later tick than the one it was made from.
LEMMA ExpiryBound ==
  ASSUME ClockTypes, NEW t \in Token
  PROVE  Expiry(t) \in Nat /\ Expiry(t) <= born[t] + TicksPerSecond * Life
<1>1. TicksPerSecond * Life \in Nat /\ born[t] + TicksPerSecond * Life \in Nat
  BY ClockAssumption DEF ClockTypes
<1>2. exp(t) \in Nat /\ Expiry(t) <= born[t] + TicksPerSecond * Life
  BY <1>1, Truncates, ClockAssumption DEF Expiry, exp, Second
<1> QED
  BY <1>2, ClockAssumption DEF Expiry

\* Every step of the clock, a login or a revocation keeps it.
LEMMA ClockStep == ClockInv /\ [ClockNext]_clockVars => ClockInv'
<1> SUFFICES ASSUME ClockInv, [ClockNext]_clockVars PROVE ClockInv'
  OBVIOUS
<1>0. ClockTypes /\ StampsRead /\ CutoffLasts /\ LogoutLasts
  BY DEF ClockInv
<1>l. TicksPerSecond * Life \in Nat
  BY ClockAssumption
<1>e. \A t \in Token : Expiry(t) \in Nat
  BY <1>0, ExpiryBound
<1>1. ASSUME Tick PROVE ClockInv'
  <2>1. now' = now + 1 /\ UNCHANGED <<issued, born, cutoff, cutoffUntil, jtiUntil,
                                      ended, loggedOut, stamp, tok>>
    BY <1>1 DEF Tick, keys
  <2>2. \A t : Expiry(t)' = Expiry(t)
    BY <2>1 DEF Expiry, exp, Second
  <2>3. ClockTypes' /\ StampsRead'
    BY <1>0, <2>1, <2>2 DEF ClockTypes, StampsRead
  <2>4. CutoffLasts' /\ LogoutLasts'
    BY <1>0, <2>1, <2>2 DEF CutoffLasts, LogoutLasts, Second
  <2> QED
    BY <2>3, <2>4 DEF ClockInv
<1>2. ASSUME NEW t \in Token, IssueSession(t) PROVE ClockInv'
  <2>1. /\ t \notin issued /\ issued' = issued \cup {t}
        /\ born' = [born EXCEPT ![t] = now]
        /\ UNCHANGED <<now, cutoff, cutoffUntil, jtiUntil, ended, loggedOut, stamp, tok>>
    BY <1>2 DEF IssueSession, keys
  <2>2. \A s \in issued : born'[s] = born[s]
    BY <1>0, <2>1 DEF ClockTypes
  <2>3. \A s \in issued : Expiry(s)' = Expiry(s)
    BY <2>2 DEF Expiry, exp, Second
  <2>4. ClockTypes'
    BY <1>0, <2>1 DEF ClockTypes
  <2>5. StampsRead'
    BY <1>0, <2>1, <2>3 DEF ClockTypes, StampsRead
  <2>6. CutoffLasts'
    BY <1>0, <2>1 DEF CutoffLasts, Second
  <2>7. LogoutLasts'
    BY <1>0, <2>1, <2>3 DEF ClockTypes, LogoutLasts
  <2> QED
    BY <2>4, <2>5, <2>6, <2>7 DEF ClockInv
<1>3. ASSUME NEW r \in Revoker, NEW l, NEW toks \in SUBSET issued, ReadNow(r, l, toks),
             \A t \in toks : now < Expiry(t)
      PROVE  ClockInv'
  <2>1. /\ stamp' = [stamp EXCEPT ![r] = now] /\ tok' = [tok EXCEPT ![r] = toks]
        /\ UNCHANGED <<now, issued, born, cutoff, cutoffUntil, jtiUntil, ended, loggedOut>>
    BY <1>3 DEF ReadNow, keys
  <2>2. \A t : Expiry(t)' = Expiry(t)
    BY <2>1 DEF Expiry, exp, Second
  <2>3. ClockTypes'
    BY <1>0, <2>1 DEF ClockTypes
  <2>4. StampsRead'
    BY <1>0, <1>3, <2>1, <2>2 DEF ClockTypes, StampsRead
  <2>5. CutoffLasts' /\ LogoutLasts'
    BY <1>0, <2>1, <2>2 DEF CutoffLasts, LogoutLasts, Second
  <2> QED
    BY <2>3, <2>4, <2>5 DEF ClockInv
<1>4. ASSUME NEW r \in Revoker, Finish(r), UNCHANGED <<now, issued, born>>
      PROVE  /\ stamp' \in [Revoker -> Nat] /\ tok' \in [Revoker -> SUBSET issued']
             /\ StampsRead' /\ \A t : Expiry(t)' = Expiry(t)
  <2>1. stamp' = [stamp EXCEPT ![r] = 0] /\ tok' = [tok EXCEPT ![r] = {}]
    BY <1>4 DEF Finish
  <2>2. \A t : Expiry(t)' = Expiry(t)
    BY <1>4 DEF Expiry, exp, Second
  <2>3. StampsRead'
    BY <1>0, <1>4, <2>1, <2>2 DEF ClockTypes, StampsRead
  <2> QED
    BY <1>0, <1>4, <2>1, <2>2, <2>3 DEF ClockTypes
<1>5. ASSUME NEW r \in Revoker, RevokeAll(r) PROVE ClockInv'
  <2>1. /\ cutoff' = Second(stamp[r])
        /\ cutoffUntil' = now + TicksPerSecond * Life
        /\ ended' = stamp[r] + 1
        /\ Finish(r)
        /\ UNCHANGED <<now, issued, born, jtiUntil, loggedOut>>
    BY <1>5 DEF RevokeAll
  <2>2. stamp[r] \in Nat /\ now \in Nat /\ stamp[r] <= now
    BY <1>0 DEF ClockTypes, StampsRead
  <2>3. Second(stamp[r]) \in Nat
    BY <2>2, Truncates, ClockAssumption DEF Second
  <2>4. ClockTypes'
    BY <1>0, <1>4, <1>l, <2>1, <2>2, <2>3 DEF ClockTypes
  <2>5. CutoffLasts'
    <3>1. ended' - 1 = stamp[r]
      BY <2>1, <2>2
    <3>2. cutoff' = Second(ended - 1)'
      BY <2>1, <3>1 DEF Second
    <3>3. stamp[r] + TicksPerSecond * Life <= now + TicksPerSecond * Life
      BY <2>2, <1>l
    <3> QED
      BY <2>1, <3>1, <3>2, <3>3 DEF CutoffLasts
  <2>6. LogoutLasts'
    BY <1>0, <1>4, <2>1 DEF LogoutLasts
  <2> QED
    BY <1>4, <2>1, <2>4, <2>5, <2>6 DEF ClockInv
<1>6. ASSUME NEW r \in Revoker, NEW t \in Token, RevokeToken(r, t) PROVE ClockInv'
  <2> DEFINE left == TimeLeft(r, t)
  <2>1. /\ t \in tok[r]
        /\ jtiUntil' = [jtiUntil EXCEPT ![t] = now + TicksPerSecond * left]
        /\ loggedOut' = loggedOut \cup {t}
        /\ Finish(r)
        /\ UNCHANGED <<now, issued, born, cutoff, cutoffUntil, ended>>
    BY <1>6 DEF RevokeToken
  <2>2. /\ stamp[r] \in Nat /\ now \in Nat /\ stamp[r] <= now /\ t \in issued
        /\ stamp[r] < Expiry(t) /\ Expiry(t) \in Nat
    BY <1>0, <1>e, <2>1 DEF ClockTypes, StampsRead
  <2>3. Expiry(t) - stamp[r] \in Nat
    BY <2>2
  <2>4. left = (Expiry(t) - stamp[r]) \div TicksPerSecond
    BY DEF TimeLeft, Second, Expiry
  <2>5. left \in Nat /\ Expiry(t) - stamp[r] < TicksPerSecond * left + TicksPerSecond
    BY <2>3, <2>4, Truncates, ClockAssumption
  <2> HIDE DEF left
  <2>6. TicksPerSecond * left \in Nat /\ TicksPerSecond \in Nat
    BY <2>5, ClockAssumption
  <2>7. Expiry(t) < now + TicksPerSecond * left + TicksPerSecond
    BY <2>2, <2>5, <2>6
  <2>8. ClockTypes'
    BY <1>0, <1>4, <2>1, <2>2, <2>6 DEF ClockTypes
  <2>9. LogoutLasts'
    BY <1>0, <1>4, <2>1, <2>7 DEF LogoutLasts, ClockTypes
  <2>10. CutoffLasts'
    BY <1>0, <2>1 DEF CutoffLasts, Second
  <2> QED
    BY <1>4, <2>1, <2>8, <2>9, <2>10 DEF ClockInv
<1>7. ASSUME NEW r \in Revoker, NEW t \in Token, RevokeTokenFails(r, t) PROVE ClockInv'
  <2>1. /\ Finish(r)
        /\ UNCHANGED <<now, issued, born, cutoff, cutoffUntil, jtiUntil, ended, loggedOut>>
    BY <1>7 DEF RevokeTokenFails, keys
  <2>2. ClockTypes'
    BY <1>0, <1>4, <2>1 DEF ClockTypes
  <2>3. CutoffLasts' /\ LogoutLasts'
    BY <1>0, <1>4, <2>1 DEF CutoffLasts, LogoutLasts, Second
  <2> QED
    BY <1>4, <2>1, <2>2, <2>3 DEF ClockInv
<1>8. ASSUME NEW r \in Revoker, NEW t \in Token, StartLogout(r, t) PROVE ClockInv'
  <2>1. /\ ReadNow(r, "revoke_token", {t})
        /\ t \in issued /\ now < Expiry(t)
    BY <1>8 DEF StartLogout, Decodes, Expiry
  <2>2. {t} \in SUBSET issued /\ \A s \in {t} : now < Expiry(s)
    BY <2>1
  <2> QED
    BY <1>3, <2>1, <2>2
<1>9. ASSUME NEW r \in Revoker, StartRevokeAll(r) PROVE ClockInv'
  <2>1. ReadNow(r, "revoke_all", {})
    BY <1>9 DEF StartRevokeAll
  <2>2. {} \in SUBSET issued /\ \A s \in {} : now < Expiry(s)
    OBVIOUS
  <2> QED
    BY <1>3, <2>1, <2>2
<1>10. CASE UNCHANGED clockVars
  <2>1. UNCHANGED <<now, issued, born, cutoff, cutoffUntil, jtiUntil, ended,
                    loggedOut, stamp, tok>>
    BY <1>10 DEF clockVars, keys
  <2>2. \A t : Expiry(t)' = Expiry(t)
    BY <2>1 DEF Expiry, exp, Second
  <2>3. ClockTypes' /\ StampsRead' /\ LogoutLasts'
    BY <1>0, <2>1, <2>2 DEF ClockTypes, StampsRead, LogoutLasts
  <2>4. CutoffLasts'
    BY <1>0, <2>1 DEF CutoffLasts, Second
  <2> QED
    BY <2>3, <2>4 DEF ClockInv
<1> QED
  BY <1>1, <1>2, <1>5, <1>6, <1>7, <1>8, <1>9, <1>10 DEF ClockNext

\* The inductive invariant of the clock and the keys.
LEMMA ClockInvariance == ClockSpec => []ClockInv
<1>1. ClockInit => ClockInv
  BY DEF ClockInit, ClockInv, ClockTypes, StampsRead, CutoffLasts, LogoutLasts
<1> QED
  BY <1>1, ClockStep, PTL DEF ClockSpec

\* A sign-out ends every session up to the `now` its handler read, although
\* the times are truncated, the write comes later and the key expires.
THEOREM CutoffEnds == ClockSpec => []EndsEverySession
<1>1. ClockInv => EndsEverySession
  <2> SUFFICES ASSUME ClockInv, NEW t \in issued, born[t] < ended, Decodes(t)
               PROVE  Covered(t)
    BY DEF EndsEverySession, Accepted
  <2>1. /\ t \in Token /\ born[t] \in Nat /\ now \in Nat /\ ended \in Nat
        /\ cutoffUntil \in Nat
    BY DEF ClockInv, ClockTypes
  <2>2. ended > 0 /\ ended - 1 \in Nat /\ born[t] <= ended - 1
    BY <2>1
  <2>3. iat(t) <= cutoff
    BY <2>1, <2>2, Monotone, ClockAssumption DEF ClockInv, CutoffLasts, iat, Second
  <2>4. now < Expiry(t) /\ Expiry(t) \in Nat /\ Expiry(t) <= born[t] + TicksPerSecond * Life
    BY <2>1, ExpiryBound DEF ClockInv, Decodes, Expiry
  <2>5. TicksPerSecond * Life \in Nat /\ ended - 1 + TicksPerSecond * Life <= cutoffUntil
    BY <2>2, ClockAssumption DEF ClockInv, CutoffLasts
  <2>6. now < cutoffUntil
    BY <2>1, <2>2, <2>4, <2>5
  <2> QED
    BY <2>3, <2>6 DEF Covered
<1> QED
  BY <1>1, ClockInvariance, PTL

\* A token that was logged out is refused but for its last second at most.
THEOREM LogoutHolds == ClockSpec => []LastSecondOnly
<1>1. ClockInv => LastSecondOnly
  <2> SUFFICES ASSUME ClockInv, NEW t \in loggedOut, Accepted(t)
               PROVE  Expiry(t) - now < TicksPerSecond
    BY DEF LastSecondOnly, Expiry
  <2>1. t \in Token /\ now \in Nat /\ jtiUntil[t] \in Nat /\ ~ (now < jtiUntil[t])
    BY DEF ClockInv, ClockTypes, Accepted
  <2>2. Expiry(t) \in Nat /\ Expiry(t) < jtiUntil[t] + TicksPerSecond
    BY <2>1, ExpiryBound DEF ClockInv, LogoutLasts
  <2> QED
    BY <2>1, <2>2, ClockAssumption
<1> QED
  BY <1>1, ClockInvariance, PTL
==============================================================================
