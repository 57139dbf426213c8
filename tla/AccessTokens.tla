----------------------------- MODULE AccessTokens -----------------------------
(***************************************************************************)
(* The access tokens of one account and the two kinds of key on Redis that *)
(* take them back before they expire: one per token logged out, and one    *)
(* with the instant of the last revoke_all.                                *)
(*                                                                         *)
(* Time passes in ticks shorter than a second.  iat, exp and the cutoff    *)
(* are truncated to the second, a key lives a whole number of seconds from *)
(* the moment it is written, and a handler reads its `now` before it       *)
(* writes the key: a refresh that detects a reuse reads it before it waits *)
(* for the rows of the account.                                            *)
(***************************************************************************)
EXTENDS Naturals

CONSTANTS Token,           \* access tokens the account may be given
          Revoker,         \* requests that revoke being served at once
          TicksPerSecond,  \* how fine the clock is
          Life,            \* access_token_minutes, in seconds
          Horizon          \* bound: the last tick

ASSUME ClockAssumption ==
  /\ TicksPerSecond \in Nat \ {0}
  /\ Life \in Nat \ {0}
  /\ Horizon \in Nat

VARIABLES
  now,          \* the clock
  issued,       \* tokens handed out
  born,         \* the instant each was
  cutoff,       \* revoked:user, in seconds
  cutoffUntil,  \* the tick its key expires at; 0 when never written
  jtiUntil,     \* the same, of each revoked:jti
  step,         \* what each request does next
  stamp,        \* the `now` it has read
  tok,          \* the tokens it logs out: one, or none
  ended,        \* one past the `now` of the last revoke_all that was written
  loggedOut     \* tokens whose logout was answered 204

keys == <<cutoff, cutoffUntil, jtiUntil, ended, loggedOut>>
clockVars == <<now, issued, born, keys, step, stamp, tok>>

Second(t) == t \div TicksPerSecond

ClockInit ==
  /\ now = 0 /\ issued = {} /\ born = [t \in Token |-> 0]
  /\ cutoff = 0 /\ cutoffUntil = 0 /\ jtiUntil = [t \in Token |-> 0]
  /\ step = [r \in Revoker |-> "idle"]
  /\ stamp = [r \in Revoker |-> 0]
  /\ tok = [r \in Revoker |-> {}]
  /\ ended = 0 /\ loggedOut = {}

-----------------------------------------------------------------------------
(* The claims of a token, and get_current_user.                            *)

iat(t) == Second(born[t])
exp(t) == Second(born[t] + TicksPerSecond * Life)

\* decode_access_token does not find it expired.
Decodes(t) == t \in issued /\ now < TicksPerSecond * exp(t)

\* Mutant of Covered: the comparison the comment in get_current_user rules out.
CoveredBefore(t) == now < cutoffUntil /\ iat(t) < cutoff

\* Compared with <= and not <.
Covered(t) == now < cutoffUntil /\ iat(t) <= cutoff

Accepted(t) == Decodes(t) /\ ~(now < jtiUntil[t]) /\ ~Covered(t)

-----------------------------------------------------------------------------
Tick ==
  /\ now < Horizon
  /\ now' = now + 1
  /\ UNCHANGED <<issued, born, keys, step, stamp, tok>>

\* A login or a refresh hands out a token.
IssueSession(t) ==
  /\ t \notin issued
  /\ issued' = issued \cup {t}
  /\ born' = [born EXCEPT ![t] = now]
  /\ UNCHANGED <<now, keys, step, stamp, tok>>

\* A handler reads the clock.
ReadNow(r, label, toks) ==
  /\ step[r] = "idle"
  /\ step' = [step EXCEPT ![r] = label]
  /\ stamp' = [stamp EXCEPT ![r] = now]
  /\ tok' = [tok EXCEPT ![r] = toks]
  /\ UNCHANGED <<now, issued, born, keys>>

Finish(r) ==
  /\ step' = [step EXCEPT ![r] = "idle"]
  /\ stamp' = [stamp EXCEPT ![r] = 0]
  /\ tok' = [tok EXCEPT ![r] = {}]

\* A reuse, a block, a review, a deletion, a change or a reset of password.
StartRevokeAll(r) == ReadNow(r, "revoke_all", {})

\* SET revoked:user, which replaces whatever was there.
RevokeAll(r) ==
  /\ step[r] = "revoke_all"
  /\ cutoff' = Second(stamp[r])
  /\ cutoffUntil' = now + TicksPerSecond * Life
  /\ ended' = stamp[r] + 1
  /\ Finish(r)
  /\ UNCHANGED <<now, issued, born, jtiUntil, loggedOut>>

\* The token may have been revoked already: logout only decodes it.
StartLogout(r, t) ==
  /\ Decodes(t)
  /\ ReadNow(r, "revoke_token", {t})

\* Mutant of TimeLeft: rounded down once more.
TimeLeftShort(r, t) == Second(TicksPerSecond * exp(t) - stamp[r]) - 1

\* int((expires_at - now).total_seconds())
TimeLeft(r, t) == Second(TicksPerSecond * exp(t) - stamp[r])

\* SET revoked:jti.
RevokeToken(r, t) ==
  /\ step[r] = "revoke_token"
  /\ t \in tok[r]
  /\ TimeLeft(r, t) > 0
  /\ jtiUntil' = [jtiUntil EXCEPT ![t] = now + TicksPerSecond * TimeLeft(r, t)]
  /\ loggedOut' = loggedOut \cup {t}
  /\ Finish(r)
  /\ UNCHANGED <<now, issued, born, cutoff, cutoffUntil, ended>>

\* Redis refuses to set a key for no time at all: the answer is a 500, and the
\* rest of the logout does not happen either.
RevokeTokenFails(r, t) ==
  /\ step[r] = "revoke_token"
  /\ t \in tok[r]
  /\ TimeLeft(r, t) = 0
  /\ Finish(r)
  /\ UNCHANGED <<now, issued, born, keys>>

ClockNext ==
  \/ Tick
  \/ \E t \in Token : IssueSession(t)
  \/ \E r \in Revoker :
       \/ StartRevokeAll(r) \/ RevokeAll(r)
       \/ \E t \in Token : StartLogout(r, t) \/ RevokeToken(r, t) \/ RevokeTokenFails(r, t)

ClockSpec == ClockInit /\ [][ClockNext]_clockVars

-----------------------------------------------------------------------------
(* Properties.                                                             *)

(***************************************************************************)
(* Once revoke_all has returned, no token handed out up to the `now` of    *)
(* the handler that wrote last is accepted again, until it expires and     *)
(* after: neither the truncation of iat and of the cutoff nor the expiry   *)
(* of the key lets one through (get_current_user: "a token that was        *)
(* revoked before its own expiry has to be refused here").  It is the last *)
(* to write that counts: one that waited with an older `now` moves the     *)
(* cutoff back.                                                            *)
(***************************************************************************)
EndsEverySession ==
  \A t \in issued : born[t] < ended => ~Accepted(t)

(***************************************************************************)
(* "logging out means recording its jti as revoked until it would have     *)
(* expired anyway" (auth.py, logout), up to the last second before the     *)
(* expiry: the time that is left is truncated, and the truncation costs no *)
(* more than that (session_store.py, revoke_token).                        *)
(***************************************************************************)
LastSecondOnly ==
  \A t \in loggedOut : Accepted(t) => TicksPerSecond * exp(t) - now < TicksPerSecond
===============================================================================
