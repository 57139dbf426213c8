# users-api in TLA+

Models of the users service of UdeSA-X (`src/src/users_api`), the configurations that
check them with TLC, and proofs checked by TLAPS. Paths below are relative to
`src/src/users_api` unless they start with `src/`.

## The system

A FastAPI service with several instances (two overlap in a rolling update). Each request
runs in one transaction of PostgreSQL, READ COMMITTED, opened by `session_scope` and
committed when the handler returns or rolled back when it raises. Redis holds attempt
counters and the marks that take access tokens back; neither takes part in the transaction.
RabbitMQ carries events out of the `outbox` table and, from posts-api, into the audit log.

| Part | State | Operations | What makes it correct | Module |
|---|---|---|---|---|
| Refresh tokens | `refresh_tokens` rows: used, revoked, expired | login, refresh, reuse detection, logout, sign-out | one unspent token per login; a closed session stays closed; revocation reaches every token | `TokenFamilies`, `RefreshTokens` |
| Account row | `users` row | block, review, lift, delete, verify, profile, preferences | a decision stands; status and reason agree; row, audit entry and event agree | `AccountRow` |
| Outbox publisher | `outbox` rows, a wake-up flag, a LISTEN connection | insert, pass, confirm, return, refuse, time out | nothing lost, repeats only after failures, everything delivered | `OutboxPublisher` |
| Event consumer | deliveries, `audit_log` | deliver, insert, commit, ack, nack, reject | acked means logged, once; every message is settled | `EventConsumer` |
| Attempt counters | one Redis key with expiry | count, hit (INCR, EXPIRE), reset | limits hold when requests overlap; a lockout ends | `RateLimiter` |
| Access tokens | `revoked:jti`, `revoked:user` | issue, revoke_token, revoke_all, get_current_user | a revoked token is refused until it expires | `AccessTokens` |
| Passwords and links | hash, flag and deadline; `password_reset_tokens` | create, change, reset by link, new temporary password | the owner's choice stands; a link works once | `Credentials` |
| Sessions of an account | row, refresh tokens and cutoff together | login, refresh, block, review, lift, change, reset | a sign-out ends the sessions it found; a working session knows the current password | `AccountSessions` |
| Registration | `users` with two unique indexes, `email_verification_tokens` | register, create_administrator, seed, verify, resend | keys unique up to case; an account comes whole; there is always a way to get verified | `Registration` |
| Search | cursor, batch, page | fetch, filter, answer | no account repeated or skipped; a request ends | `Search` |

They interact through the database row, the transaction and Redis: block, review, deletion
and both password operations update the account row, call `revoke_all` on the refresh
tokens and `revoke_all` on Redis in one request (`AccountSessions` is that composition);
registration, deletion, preferences and password changes
add an outbox row in the same transaction, which the publisher takes from there.

**What is hard here.** No row has a version and nothing but `consume`, `revoke_*` and the
outbox takes a lock, so a request decides on values that another one replaces; an UPDATE that
waits does not see rows inserted meanwhile; clock readings are taken before waits; Redis
operations of two commands may stop after the first; delivery is at least once on both sides.
`PROJECT.json` lists these hazards line by line with the properties that look at them.

## Modules

**RefreshTokens** — one `pc` per request. `consume` is one UPDATE, so `ConsumeHit` is
enabled only when no other request has the row locked and the row still satisfies the WHERE
(PostgreSQL evaluates it again after a wait). The refusals after the consumption (`Deny`) raise
and roll back. A revoking UPDATE fixes its snapshot (`Scan`) and then takes the rows of it one by
one, in any order, waiting for those that others hold (`LockRow`); `CommitRevoke` is the commit (a
detected reuse is answered and not raised, for that reason). Two revocations that reach the same
rows in opposite orders wait for each other (`Deadlocked`) until PostgreSQL aborts one of them
(`AbortDeadlock`). `Rollback` is any other exception or crash. A token's family and
user are constants: they are written once, and a raw token is random. `late` keeps the fact
that `now` is read when the request starts. **TokenFamilies** is what this is for, with the
transactions taken away: `open` is mapped to the rows that are neither used nor revoked, `dead`
to the others.

**AccountRow** — `Handle` loads the row into a `User` and changes it; `Reread` is the
`session.get` of `update`, which reads again because the first row object is no longer
referenced and the session's identity map is weak; `Flush` writes the columns where the `User`
differs from that second reading (`Written`) and takes the row lock; `Commit` publishes them
with the event and audit entry of the operation. display_name, bio, visibility and timestamps
are left out: no property tells their values apart. A request is `stale` once another one has
changed the row after its load, and `lost` says that a stale request has committed: what the
properties then still promise, and what they do not, is the subject of the module. What posts-api
makes of several `preferences.changed` is left out: the code promises nothing about changes that
overlap, only that each has its event (`NothingSilent`).

**AccountSessions** — RefreshTokens, AccessTokens and AccountRow composed for one account, each
reduced to what a session depends on: the status and password of the row, the set of open refresh
rows, and the set of access tokens issued up to the cutoff (the seconds are in AccessTokens). A
request is at a place `at` of its `Path`: the order in which its handler rereads, flushes, writes the
cutoff and revokes, which differs from one handler to the other because `update` only assigns and
SQLAlchemy flushes before the next statement. `before` is what was issued before the request's
`now`, read where the handler reads it.

**Registration** — an attempt is a request, or a run of the seed, and the row it inserts. The
look-up (`Register`, `CreateAdministrator`, `Seed`), the two index entries (`InsertEmail`,
`InsertHandle`) and the commit (`Create`) are separate steps; an entry of an open transaction makes
the second INSERT wait, one of a committed transaction raises. `Lower` is `strip().lower()`, so a
name may be typed in several ways. Links of an account are told apart only by their state.
`SaveUnverified` is the lost update of AccountRow seen from here.

**OutboxPublisher** — a row is its `created_at`. An `Insert` wakes whoever listens (`Notify`, the
trigger of migration 0004). `LockBatch` takes the oldest rows not held by
another instance (SKIP LOCKED); `Confirm`, `Return`, `Refuse` and `Interrupt` are the four
outcomes of a publish; `CommitBatch` commits the deletes and decides whether a further batch
follows; `Abort` rolls back. A pass may always begin: that is the timer of `run`.
`drain` goes on only while a batch was published whole: one returned row in a full batch ends
the pass, and the rest waits for the timer.

**EventConsumer** — a slot is a delivery and the task that serves it, in any instance. A task
outlives its delivery when the connection drops; one that `close` stops waiting for is cancelled
(`asyncio.gather` under a timeout) and is a `Kill`. `Publish`, `Settle` and `GiveBack` are the broker: a quorum queue
(`docker/docker-compose.dev.yml` runs RabbitMQ 4), which counts returns.

**RateLimiter** — one key and, by `door`, which never changes, one kind of door: a
password door (`Guard`, then `WrongPassword` or `Succeed`/`Refuse`) or a quota door (`Ask`, then `Decide`). `hit` is `Incr` and `Expire`.

**AccessTokens** — a clock in ticks, several to a second; `Second` is the truncation of `iat`,
`exp`, the cutoff and the time left. A handler reads its `now` and writes its key in different
steps; `ended` remembers the `now` of the `revoke_all` written last.

**Credentials** — as AccountRow, for the password columns of an administrator. The account is
not deleted or suspended in this module. `reset_password` looks its link up (`FindLink`) and loads
the account (`ResetPassword`) in two statements, between which others commit. `mark_all_used` reads which links are open when its
UPDATE runs, after the flush of the row. `stale` and `lost` are those of AccountRow, and a request
is stale too when links it may have looked up were marked used.

**Search** — an account is its position in `(created_at, id)`; a cursor is such a position.
Matching, deletions and blocks change at any moment.

`MC*` modules add symmetry sets and the functions that a cfg cannot write. `*Proofs` modules
hold the theorems; two of them extend two components each, which is why the specifications of
`Search` and `AccessTokens` have names of their own (`SearchSpec`, `ClockSpec`). Operators whose comment begins with "Mutant of" are wrong versions of the
operator they name; no specification uses them, and substituting one must break the property
`PROJECT.json` pairs it with.

## Runs

| Run | Bounds | Shows |
|---|---|---|
| `RefreshTokens_chain` | 2 requests, a session of 3 tokens, 2 users | `OneTip`, `ReachedTipEnds` and the refinement of `TokenFamilies` hold; every request ends, deadlocks of two revocations included |
| `RefreshTokens_reuse` (violation) | 2 requests, 2 sessions of one account | a successor inserted during the wait of `revoke_all` survives a detected reuse |
| `AccountRow_overlap` | 2 requests, 2 reasons, 2 languages | no suspension, closing or chosen language without its entry or event; status and reason agree until an update is lost; a suspension or closing that every request under way has in hand is final |
| `AccountSessions_signout` | 2 requests, 2 grants, 2 passwords | a committed sign-out ended every session complete when it arrived; a session that works and crossed no change was opened with the current password |
| `Registration_doors` | 3 attempts, one account followed, 2 emails and 2 handles, the first of each typed in 2 ways | unique keys, accounts born whole, no IntegrityError without an overlap (or the seed), and a way in |
| `OutboxPublisher_delivery` | 3 rows, one unroutable, 2 instances, batches of 2, failures, a listener that is lost | nothing is lost, repeats are failures, no insert is missed, every other event is delivered |
| `OutboxPublisher_starved` (violation) | 2 unroutable rows, batches of 2 | younger events never leave |
| `EventConsumer_failures` | an event sent twice, a nonsense message, failures past the delivery limit | acked is logged, once; only failures past the limit dead-letter a valid event; every message is settled |
| `RateLimiter_doors` | 3 requests, limit 2, a crash, both kinds of door | at most the other requests in flight above the limit; the quota holds; a lockout ends unless a crash came between INCR and EXPIRE |
| `AccessTokens_clock` | 2 tokens, 2 requests, 2 ticks a second, life of 2 s, 7 ticks | a sign-out ends every session it covers, and a logged-out token is accepted at most in its last second |
| `Credentials_overlap` | 2 requests, 2 links, 2 temporary and 2 chosen passwords | flag, deadline and password agree until a stale request commits; the owner's choice stands once every request under way has it; a committed reset closes every link it saw |
| `Search_pages` | 4 accounts, pages of 1, batches of 2 | nothing repeated or skipped; a request ends |

A violation run checks a sentence of the code's own comments; `PROJECT.json` quotes it under
`findings`.

**Conditions.** Some properties that pass carry a condition that the code makes necessary, and
TLC refutes them without it:

- `lost` (`ReasonExplains`, `FlagFollowsPassword`, `LinkWorksOnce`): `update` writes every column
  where the `User` differs from the row it reads again, so a stale request may write a status alone
  over another's status and reason, bring back a flag or a deadline, or use a link a second time.
- every request in hand (`DecisionsStand`, `OwnerKeepsPassword`): for the same reason a request that
  loaded the account before the decision takes back a suspension (`lift_review`: "a suspended one
  keeps what an administrator decided for it"), reopens a closed account, or replaces a password
  the owner has just chosen. The two properties say how far this reaches: only requests that
  loaded before can do it. Once those under way all have the decision in hand it is final,
  whatever was lost before and however later requests overlap.
- `spent = {}` (`FlagFollowsPassword`): a recovery link used on an account that owes a password
  change leaves the flag and the deadline on a password the owner chose (`user.py`: "It stays
  raised until the owner replaces it").
- `crossing` (`UsableIsCurrent`): a login that read the row before a password change, and commits
  its refresh token after the revocation, gives a session that the old password opened.
- `movedBack` (`SignOutEnds`): `reset_password` reads its `now` first of all; written after the
  cutoff of a later sign-out, it gives the access tokens in between back until they expire. A
  session that crossed nothing is covered all the same.
- the seed (`ConflictNeedsOverlap`): it looks for the address alone, so a `SUPERADMIN_HANDLE` that
  somebody has registered raises IntegrityError without any overlap.
- `crashes > 0` (`LockEnds`): a request that dies between INCR and EXPIRE leaves a counter that
  no later mark gives an expiry.
- `ended` (`EndsEverySession`) is the `now` of the `revoke_all` written last: one that read an
  older `now` and is written later moves the cutoff back.
- the last second (`LastSecondOnly`): the truncated lifetime of `revoked:jti` ends up to a second
  before the token.
- failures (`OnlyFailuresKill`, `RepeatsAreFailures`): the delivery limit dead-letters a valid
  event whose handling failed too often, and a publish whose answer was lost is repeated.

A hazard that a condition excludes does not count as covered: `PROJECT.json` lists it without a
property and says in its note what the code does.

**Bounds.** Two requests are enough for each race met here, since every one is between a
request that loaded or waits and one that commits; a third is used where a limit is shared
(`RateLimiter`). Three tokens in a chain allow a refresh before and during a revocation. Batches
of two with three rows give full, partial and second batches. Two ticks to a second put two
events inside one second and on both sides of a boundary; a token's life of two seconds is the
shortest in which a key can end in a second of its own. A page of one and batches of two leave
candidates over, and four accounts need more than one batch. Two languages are the
default and a choice. Two grants are a session and its rotation, or two sessions on both
sides of a cutoff. Three attempts put two rivals and a committed account, or all three doors, side by
side; `Followed` restricts the verification of links to one of them, since accounts share no links. `MaxFailures`, `MaxCrashes`,
`MaxMarks` and `Horizon` only cap counters.

**Deadlock** is checked, except where the model may stop: when the horizon of the clock is
reached (`AccessTokens`), when everything was published and settled (`EventConsumer`), when every
attempt has ended (`Registration`), and when
a counter without expiry, or at `MaxMarks`, has locked everybody out (`RateLimiter`).

**Fairness.** Weak fairness of a handler's, a task's or a publisher's steps: asyncio runs what
is ready and statements return. Strong fairness of the two statements that wait for row locks:
PostgreSQL serves waiters in order (`GetRow`); it also finds every deadlock, so `AbortDeadlock` is a
step like the others. Weak fairness of `WindowEnds` (time passes), of `Reconnect`
(the listener retries for ever) and of the broker's deliveries. Strong fairness of asking for a
link, its commit, opening it and its commit (`WayIn`): the owner insists, and requests do not all
fail. No fairness for arrivals,
failures, crashes or lost connections; that failures end is their bound.

## Proofs

`RefreshTokensProofs`, from `ColumnsAssumption` alone (any tokens, families, users, requests):
the inductive invariant is `TypeOK`, `LockDiscipline` and `OneTip`.
`LockDiscipline` says that the rows of two requests are disjoint and that a request which
consumed holds exactly its token, unspent and unrevoked; without it `OneTip` is not inductive,
since a second request could spend the token between the consumption and the commit. From it
follow the refinement of `TokenFamilies` step by step (`Rotate` is a rotation, `CommitRevoke`
a closing or a stutter, everything else but `Login` a stutter) and `ClosedForGood`.
`WindowCloses` is `ReachedTipEnds`, the bound of the race that `RefreshTokens_reuse` shows: a
revocation that holds the last token of a session is the only one who can end that state, because a
refresh of the session would have to hold the same row.

`BatchProofs` holds the theorems of the two parts that read a table in order and in batches.
`OutboxPublisher`, from `OutboxAssumption` (any rows, one instance or more, any batch size and failures):
`TypeOK`, `NothingLost`, `RepeatsAreFailures` and `NoInsertMissed`. The strengthening `BatchInv` says
that instances hold disjoint rows and that what a transaction deletes is at the broker; `CopyInv` that
a row nobody has deleted was published at most once per failure. `NoInsertMissed` speaks of one quiet
moment and needs `WatchInv` for the way there: until something fails, every row of the table is
held by a publisher, or some publisher is about to look, is woken, has lost its listener, or has a
full batch, after which it looks again. A batch that is not full is safe because it took every free
row, which is `ShortBatchIsAll`, a lemma on `ORDER BY created_at LIMIT n`.
`Search`, from `SearchAssumption` (any accounts, page and batch size): `EachOnce`. The inductive
invariant says where things meet: what was shown ends at the cursor (`PagesMeet`), what
the request has gathered ends where its loop stands (`LoopMeets`), a batch starts there, and an
account that was there and is not in it comes after all of it (`BatchFollows`); the loop stops with
an account past the page or with nobody left (`LoopEnds`). The lemmas on `Newest` (a prefix of the
order, everything when it fits, full when something is left out) carry it through the changes of
the table between the query and its use.

`EventConsumerProofs`, from `ConsumerAssumption` (any messages, events, slots, delivery limit,
failures): `TypeOK`, `AckedIsLogged`, `LoggedOnce` and `OnlyFailuresKill`. What makes them inductive
is what each task in flight knows. `DeliveryInv`: no two tasks hold the same live delivery.
`InsertInv`: a row inserted and not committed is not in the log, and no other open transaction
inserts it; a row skipped or committed is there. `FailureInv`: a failure was counted for each return
of a message, and one more for a message whose task has failed and is about to give it back.

`AccountRowProofs`, from `AccountAssumption` (any requests, reasons, languages): `TypeOK`,
`NothingSilent`, `ReasonExplains` and the action property `DecisionsStand`, with `FinalForGood`,
which says for ever what `DecisionsStand` says of a step. `Accounted` is the strengthening for
`NothingSilent`: what a `User` that a request carries shows was announced before the request loaded
it, or the request is the one that will announce it when it commits. `Decided` is the one for
`ReasonExplains`: a request that is not stale carries the row it would write over but for its own
columns, and still meets the refusals of its handler (`Fresh`), so that its flush is a legal step
from that row. `DecisionsStand` needs neither, and holds of stale requests as well: any mixture of
the columns of a row and of a `User` that are both suspended for a reason, or both closed, is so too,
and no handler that loads such a row lets a request decide otherwise.

`RegistrationProofs`, from `RegistrationAssumption` (any attempts, emails and handles, `Lower`
idempotent): `TypeOK`, `UniqueKeys`, `BornWhole` and `ConflictNeedsOverlap`. `Keys` says that what is
stored is its own lower case and that no two transactions, open or committed, hold the same index
entry: without the open ones two attempts could both pass the index. `LookupStands` says what the
look-up of an attempt is still worth while no rival has committed, and `Mailed` that only registered
accounts are unverified, which is why nobody asks for a link of another one.

`CredentialsProofs`, from `CredentialsAssumption` (any passwords, links, requests): `TypeOK`,
`FlagFollowsPassword`, `LinkWorksOnce` and the action properties `OwnerKeepsPassword` and
`LinksDieTogether`. `Sound` says what a request under way carries: the flag and the date that belong
to the password it brings (`Brings`); the links it saw, used or about to be once it has flushed
(`Marks`); and, while it is not stale, the row it decided on (`Fresh`). `LinksDieTogether` is `Marks`
at the commit; without it nothing says that the links of the UPDATE are the ones that were seen.
`OwnerKeepsPassword` is argued as `DecisionsStand` is, and rests on the types alone.

`AccountSessionsProofs` (any sessions, requests and passwords, no assumption): `SignOutEnds` and
`UsableIsCurrent`. A sign-out ends sessions in two places at two moments. `Signing` follows one along
its `Path`: before the cutoff it still holds every token it has to cover, after it they are covered,
after the scan the rows it has to close are its targets. A cutoff of somebody else undoes none of it
because a session that crosses no request that saves the account was complete when each of them
arrived (`Overlap`). `Opening` says that a session about to be handed out has the password of the
row, unless it crosses such a request.

`RedisProofs` holds the theorems of what is kept on Redis. `RateLimiter`, from `LimiterAssumption`
(any limit, any finite set of requests): `TypeOK`, `BudgetHolds` and `QuotaHolds`. Neither limit is
inductive: `Room` counts the attempts let in and not counted yet, `Ledger` the requests that hold a
mark within the limit along with those already let through. `AccessTokens`, from `ClockAssumption`
(any tokens, requests, fineness of the clock and life of a token): `EndsEverySession` and
`LastSecondOnly`. `CutoffLasts` and `LogoutLasts` say how long a key covers what it was written for;
they rest on `StampsRead`, that a handler writes after it read its `now`, and on three lemmas on
truncation to the second.

Only model-checked are the liveness properties (`EveryRequestEnds`, `Delivered`, `Settled`,
`LockEnds`, `WayIn`, `RequestEnds`) with the fairness they rest on, which is outside the prover's
reach. Every invariant and action property of a passing run is proved as well. The inductive invariants
of `AccountSessions` and `Search`, and `WatchInv`, were model-checked before they were proved.

## Not modelled

Schemas, error formatting, settings, telemetry, health, metrics and other single reads; the checks of
the environment in the seed command; hashing and signing (a password or token is a name, equal only to
itself); the search of the backoffice, which is `Search` with no filter and one batch; the JSON of
events; the refusals by role of the backoffice routes, which are one read each. Deletion is in
`AccountRow`; in `AccountSessions` it would repeat the steps of a review.

## Plan

What is left is to prove: that the account as `AccountSessions` sees it is the one of
`AccountRow`, and its sets of covered tokens the seconds of `AccessTokens`, as refinements.
