----------------------------- MODULE RateLimiter -----------------------------
(***************************************************************************)
(* One attempt counter on Redis and the requests that use it.              *)
(*                                                                         *)
(* A password door (login, admin_login, CurrentPasswordCheck) reads the    *)
(* counter, checks a password and only then counts a failure or forgets    *)
(* the earlier ones.  A quota door (forgot_password, feedback) counts      *)
(* first and compares what it got.  Other requests run at every await in   *)
(* between, of this instance and of others.                                *)
(***************************************************************************)
EXTENDS Naturals, FiniteSets

CONSTANTS Request,      \* requests on the same key being served at once
          MaxAttempts,  \* max_attempts, password_reset_max_requests, MAX_MESSAGES
          MaxMarks,     \* bound: nobody new asks at a quota door past it
          MaxCrashes    \* bound: requests that die half way

ASSUME LimiterAssumption ==
  /\ IsFiniteSet(Request)
  /\ MaxAttempts \in Nat \ {0}
  /\ MaxMarks \in Nat
  /\ MaxCrashes \in Nat

VARIABLES
  door,     \* the kind of door the key belongs to, which never changes
  count,    \* the value of the key; 0 when there is no key
  expires,  \* whether the key has an expiry
  passed,   \* requests a quota door let through in this window
  pc,       \* what each request does next
  marks,    \* what INCR gave it, 0 once that window is over
  crashes   \* requests that died so far

vars == <<door, count, expires, passed, pc, marks, crashes>>

Init ==
  /\ door \in {"password", "quota"}
  /\ count = 0 /\ expires = FALSE /\ passed = 0
  /\ pc = [r \in Request |-> "idle"]
  /\ marks = [r \in Request |-> 0]
  /\ crashes = 0

Goto(r, from, to) == pc[r] = from /\ pc' = [pc EXCEPT ![r] = to]

\* The key is gone, and with it the window.
Forget ==
  /\ count' = 0
  /\ expires' = FALSE
  /\ passed' = 0

-----------------------------------------------------------------------------
(* RedisRateLimiter.hit: two commands.                                     *)

\* INCR.  Only the first mark of a window goes on to set the expiry.
Incr(r) ==
  /\ count' = count + 1
  /\ marks' = [marks EXCEPT ![r] = count + 1]
  /\ Goto(r, "incr", IF count = 0 THEN "expire" ELSE "decide")
  /\ UNCHANGED <<expires, passed, crashes, door>>

\* Mutant of Expire: the counter is read again to see whether this was the
\* first mark.
ExpireIfStillFirst(r) ==
  /\ Goto(r, "expire", "decide")
  /\ expires' = (expires \/ count = 1)
  /\ UNCHANGED <<count, passed, marks, crashes, door>>

\* Mutant of Expire: a SET with expiry, which brings a deleted key back.
ExpireBlindly(r) ==
  /\ Goto(r, "expire", "decide")
  /\ expires' = TRUE
  /\ UNCHANGED <<count, passed, marks, crashes, door>>

\* EXPIRE, which does nothing when the key is not there.
Expire(r) ==
  /\ Goto(r, "expire", "decide")
  /\ expires' = (count > 0)
  /\ UNCHANGED <<count, passed, marks, crashes, door>>

\* The window is over: Redis drops the key.
WindowEnds ==
  /\ expires
  /\ Forget
  /\ marks' = [r \in Request |-> 0]
  /\ UNCHANGED <<pc, crashes, door>>

-----------------------------------------------------------------------------
(* A password door.                                                        *)

\* Mutant of Guard: the limit is passed before it is enforced.
GuardLate(r) ==
  /\ door = "password"
  /\ count <= MaxAttempts
  /\ Goto(r, "idle", "verify")
  /\ UNCHANGED <<count, expires, passed, marks, crashes, door>>

\* guard_lockout lets the attempt in.  One it refuses changes nothing.
Guard(r) ==
  /\ door = "password"
  /\ count < MaxAttempts
  /\ Goto(r, "idle", "verify")
  /\ UNCHANGED <<count, expires, passed, marks, crashes, door>>

WrongPassword(r) ==
  /\ Goto(r, "verify", "incr")
  /\ UNCHANGED <<count, expires, passed, marks, crashes, door>>

\* Right, and the account may be used: the failures are forgotten.
Succeed(r) ==
  /\ Goto(r, "verify", "idle")
  /\ Forget
  /\ marks' = [q \in Request |-> 0]
  /\ UNCHANGED <<crashes, door>>

\* Right, but the operation is refused for another reason: nothing is counted
\* and nothing forgotten.
Refuse(r) ==
  /\ Goto(r, "verify", "idle")
  /\ UNCHANGED <<count, expires, passed, marks, crashes, door>>

-----------------------------------------------------------------------------
(* A quota door.                                                           *)

Ask(r) ==
  /\ door = "quota"
  /\ count < MaxMarks
  /\ Goto(r, "idle", "incr")
  /\ UNCHANGED <<count, expires, passed, marks, crashes, door>>

\* Mutant of Accepts: off by one.
AcceptsOneMore(n) == n <= MaxAttempts + 1

\* guard_limit and guard_reset_limit refuse past the limit.
Accepts(n) == n <= MaxAttempts

-----------------------------------------------------------------------------
\* The answer: the 401 or 400 of a wrong password, or the quota's verdict.
Decide(r) ==
  /\ Goto(r, "decide", "idle")
  /\ passed' = IF door = "quota" /\ marks[r] > 0 /\ Accepts(marks[r])
               THEN passed + 1 ELSE passed
  /\ marks' = [marks EXCEPT ![r] = 0]
  /\ UNCHANGED <<count, expires, crashes, door>>

\* The worker dies, the client goes away or Redis does not answer.
Crash(r) ==
  /\ pc[r] # "idle"
  /\ crashes < MaxCrashes
  /\ crashes' = crashes + 1
  /\ pc' = [pc EXCEPT ![r] = "idle"]
  /\ marks' = [marks EXCEPT ![r] = 0]
  /\ UNCHANGED <<count, expires, passed, door>>

Step(r) ==
  \/ Incr(r) \/ Expire(r) \/ Decide(r)
  \/ WrongPassword(r) \/ Succeed(r) \/ Refuse(r)

Next ==
  \/ WindowEnds
  \/ \E r \in Request : Guard(r) \/ Ask(r) \/ Step(r) \/ Crash(r)

Spec == Init /\ [][Next]_vars

\* A handler that can go on does, and time passes.
FairSpec == Spec /\ WF_vars(WindowEnds) /\ \A r \in Request : WF_vars(Step(r))

-----------------------------------------------------------------------------
(* Properties.                                                             *)

TypeOK ==
  /\ door \in {"password", "quota"}
  /\ count \in Nat
  /\ expires \in BOOLEAN
  /\ expires => count > 0
  /\ passed \in 0..count
  /\ pc \in [Request -> {"idle", "verify", "incr", "expire", "decide"}]
  /\ marks \in [Request -> 0..count]
  /\ crashes \in 0..MaxCrashes

(***************************************************************************)
(* A password door checks the counter before the password and counts       *)
(* after it, so requests that overlap all read it below the limit.  The    *)
(* excess is bounded: a window never sees more wrong attempts than the     *)
(* limit and the other requests being served (guard_lockout,               *)
(* register_failure, CurrentPasswordCheck.verify).                         *)
(***************************************************************************)
BudgetHolds == door = "password" => count < MaxAttempts + Cardinality(Request)

(***************************************************************************)
(* A quota door lets through no more than its limit in a window, however   *)
(* the requests overlap: each gets a mark of its own (guard_limit,         *)
(* guard_reset_limit).                                                     *)
(***************************************************************************)
QuotaHolds == passed <= MaxAttempts

(***************************************************************************)
(* "whoever hits the limit gets out after the configured time instead of   *)
(* being locked out forever" (repositories/rate_limiter.py): for every     *)
(* overlap of requests, resets included, while none dies.  One that dies   *)
(* between the two commands of hit leaves a key that never expires.        *)
(***************************************************************************)
LockEnds == count >= MaxAttempts ~> count < MaxAttempts \/ crashes > 0
=============================================================================
