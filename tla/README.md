# TLA+ models of the skillquest backend

The program is a FastAPI service over PostgreSQL (async SQLAlchemy).  It has no
background jobs and no queue: every state change happens in an HTTP handler,
every handler is one database transaction (`get_db`, `app/db/session.py`), and
many handlers interleave, in one process and in several.  Its tests mock the
repository and call one handler at a time, so what happens between two handlers
is what these modules are about.

All paths below are relative to `src/`.

## The system

| Component | State | Operations | Interacts with |
| --- | --- | --- | --- |
| Session and renewal tokens (`auth/service.py`, `auth/repository.py`, `admin/service.py`) | `users.session_version`, `refresh_tokens`, the JWTs in clients' cookies | issue (end of every login), refresh, logout, admin logout | called by codes and accounts; read by the middleware |
| One-time codes (`auth/service.py`, `auth/repository.py`, `core/email.py`) | `email_otps`, `users.email_verified`, mails already sent | issue (signup, login, resend), verify | its redemption is a login |
| Accounts (`auth/service.py`, `auth/repository.py`, `auth/seed.py`) | the other columns of `users`, unique indexes on `email` and `google_id` | signup, social login, link Google, verification, seeding at start | social login ends sessions and issues |
| Protected routes (`middleware/auth.py`, `core/dependencies.py`, `instructor/`, `user/`, `admin/`) | `users.is_instructor`, `instructors`; a copy of the user per request | admission, `/user/me`, `/admin/me`, `/admin/users`, `/instructor/become` | reads what logouts write |
| HTTP rate limiter (`middleware/rate_limit.py`) | a table of recent hits per process | one decision per request | before everything else |
| User listing (`admin/repository.py`, `core/pagination.py`) | none | a count and a page | reads accounts |
| Migrations (`alembic/`) | the schema, `alembic_version`, the rows they rewrite | upgrade, downgrade, of one or more revisions | leave the schema everything else starts from |
| JWTs, hashes, cookies (`core/security.py`) | none | sign, decode, hash | used by tokens and codes |
| Same-origin check (`core/dependencies.py`) | none | a test of two headers | before some handlers |
| Email (`core/email.py`, `app/emails/`) | none | render, send, swallow errors | called inside the issuing transaction |
| Wiring, configuration, schemas (`main.py`, `core/config.py`, `*/schemas.py`) | none | the route table, seeding at start | routes every request |

What makes each one correct, and what is hard about it:

- **Tokens.**  A renewal token works once, and its successor belongs to the same
  login.  A logout ends every session of its user, also those of refreshes and
  logins it races with.  Hard: the handlers read the users row without a lock and
  write `session_version` back from what they read; `revoke_all_refresh_tokens`
  sees only the rows committed before its snapshot; a refresh waits between
  decoding its token and reading the user; two logouts can deadlock.
- **Codes.**  One send per cooldown, so many per window, one usable code, and a
  login ends the codes there are.  Hard: each rule is a read at the start of a transaction that
  ends after an SMTP call; the mail cannot be rolled back; nothing locks the rows
  a decision is based on, and a redemption's cookies leave before it is committed.
- **Accounts.**  Addresses and Google accounts are unique, a Google link implies a
  verified address, staff keep their password, no verification, disabling or link is
  dropped.  Hard:
  check-then-insert against unique indexes, check-then-update across a call to
  Google.
- **Protected routes.**  Nobody is served whose session was not current while the
  request was checked; the flag and the profile agree; a profile is written once.
  Hard: the middleware's read and the handler's are two transactions, logouts that
  overlap move the version both ways, and cookies circulate of logins that were
  never committed.
- **Rate limiter.**  No window exceeds its cap although the table is pruned with
  every decision.  Hard: the boundaries of the window, over hits that are dropped,
  kept and not recorded.
- **User listing.**  A client that walks the pages misses nobody who was there when
  it began.  Hard: the total, the page and the other pages are statements with
  snapshots of their own, and a row may appear behind newer ones.
- **Migrations.**  The schema is that of the stamped revision, no script gets stuck
  on the rows it finds, nobody's role is lost.  Hard: they run on databases in use,
  in both directions, and two deployments may run them at once.

## The database in the models

A transaction runs under READ COMMITTED, PostgreSQL's default: each statement
sees what is committed when it starts and what its own transaction has written.
UPDATE, INSERT into a unique index and SELECT FOR UPDATE wait for a row or key
that another transaction has written and lock it until their transaction ends;
PostgreSQL fails one of a cycle of waiting transactions.  A request is a *slot*
(`Requests`): `pc[r]` is the statement its handler is about to execute and
`tx[r]` is what its transaction has read, locked and staged.  One action is one
statement with the Python code around it, up to the next `await` that another
transaction can be noticed at.  Committed state changes only in `Commit` (and in
the actions of operators).  `Abort` lets any transaction fail at any point:
process crash, lost connection, failed commit.

FastAPI (pinned at 0.141.1) runs the exit of a `yield` dependency after the
response has been sent, and `get_db` commits there.  So `Respond` and `Commit`
are two actions where a client's knowledge matters, and `Abort` may come between
them.

## The modules

| Module | What it models |
| --- | --- |
| `SessionTokens` | `_issue_auth_result`, `refresh_session`, `logout`, `admin.logout`, `_invalidate_sessions` |
| `Sessions` | what these promise together: logins that only a logout ends; implemented by `SessionTokens` |
| `OtpCodes` | `_issue_otp`, `verify_otp`, of one user |
| `Accounts` | `signup`, `social_login`, `link_google`, `verify_otp`'s verification, `seed_super_admin` |
| `ProtectedRoutes` | `AuthMiddleware`, `get_current_user`, `require_admin`, the five guarded routes |
| `RateLimit` | `RateLimitMiddleware`, `allow_request` |
| `Routing` | the route table, and the two middlewares' lists of paths; used by both of the above |
| `SlidingWindow` | the abstract limiter that `RateLimit` implements |
| `AdminListing` | `GET /admin/users`: the count, the page, and a client's walk over the pages |
| `Migrations` | the scripts 001 to 006, in both directions, and the processes that run them |
| `Standings` | what the migrations promise: who somebody is; implemented by `Migrations` |
| `*_proofs` | the theorems about the module of that name |
| `MC*` | instances: sets of model values and symmetry |

Definitions named `X_Something` above a definition `X`, commented `Mutation:`,
are plausible bugs in the code of `X`; they are used by no specification and
exist to show that a property would notice them.

### SessionTokens

A *grant* is what one `_issue_auth_result` creates: two JWTs and a
`refresh_tokens` row.  `claims[g]` is what the JWTs say (`sub`, `sv`) and, as
history, the login the grant descends from; `row[g]` is the committed row;
`held` are the grants whose cookies have left the server; `expired` those out of
their lifetime.

- Login: `Login`, `Respond`, `Commit`.  The ends of `verify_otp`, `admin_login`
  and `social_login` (for an account already linked) are the same code.
- Refresh: `BeginRefresh`, `LockRow` or `RefreshUnknown`, `RefreshCheck` or
  `RefreshReject`, `Respond`, `Commit`.  `refresh_session` reads the user only
  after the lock, and compares and signs the version of that one read.
- Logout: `LogoutBySession` (session cookie decodes; no check against
  `session_version`, as in `resolve_session_user`) or `LogoutByRenewal` with
  `Resolve`, `ResolveForbidden`, `ResolveNobody`; then `RevokeSnapshot` and one
  `RevokeRow` per row of the UPDATE, `BumpVersion`, `Respond`, `Commit`.  The rows
  of an UPDATE are visited in any order, which is how two logouts deadlock.
- `Commit` writes `tx.seen + 1` as the new `session_version`: SQLAlchemy stores
  the number that `user.session_version += 1` computed in Python.

### Sessions

The abstract service: a user is logged in by a set of logins, a login adds itself
(or is overtaken by a logout), a logout clears the set, and no login happens twice.
The refinement mapping takes the logins (`root`) of the held grants whose version is
the user's present one.  Rotation, expiry, failed commits and retries are stutters.

### OtpCodes

`otp` are the committed rows, `mailed` the mails that went out.  Issue: `BeginIssue`, `CheckCooldown`/
`RejectCooldown`, `CheckWindow`/`RejectWindow`, `Snapshot`, `InvalidateRow`*,
`Mail`, `Commit`.  Redeem: `BeginVerify`, `Select`/`SelectFails`, `MarkVerified`,
`MarkUsed`, `Snapshot`, `InvalidateRow`*, `Respond`, `Commit`: the cookies leave in
`Respond`, and if the commit then fails (`Abort`) the code is usable again.  Two clocks are kept apart:
`created_at` is the start of the transaction (`now()` in SQL), the cooldown and
the window are measured from Python's `now`.  Two live rows may have the same
code; `scalar_one_or_none` then raises (`SelectFails`).  Every query is restricted
to one user, so the module has one.  `signup` issues in the same way, for a user
who has no code yet and whom nobody else can see.  The user may be verified from the
start, as one that came by Google is.  `knew` and `ended` are history: the rows that
were committed when an issue began, and those that were when a login began that has
committed.

### Accounts

`users` maps primary keys to rows; `tx[r].saw` is the row as the handler loaded
it, `tx[r].op` what it has written.  `MustWait` and `Duplicate` are the unique
indexes: wait for an uncommitted key, fail on a committed one.  `Written` sets
only the columns the handler changed, as SQLAlchemy's UPDATE does, on the row as
it is by then.  `seed_super_admin` runs at every start of every process, so it is
one more concurrent transaction.

### Routing

The route table of the four routers, with what guards each handler, and as
operators the tests of the two middlewares on a request line: `is_skipped` and
`bucket_for` of the limiter, `is_public` of the authentication.  A line carries
whether its path ended in slashes: the middlewares strip them, while the router
redirects such a request and runs no handler.

### ProtectedRoutes

`Arrive` (a line that is not public, with a cookie that decodes) or `ArriveUnknown`
(without one; and a guarded line that is public, of which there is none, would find
no user in `get_current_user`), `Admit`/`Refuse` (the middleware's own database session), `Handle` (the
dependencies and the handler's read), and for the wizard `HandleBecome`, `Write`/
`WriteRefused`, `Respond`, `Commit`.  What the five guarded handlers may answer is
`Outcome`.  `Logout`, `Relink`, `Verify` and `Disable` are the commits of others.  A
logout reads the version and writes it back plus one, and others may commit in
between: `past[u]` are the versions a user's row has had, and `Logout(u, v)` writes
`v + 1` for any of them, so the version moves both ways.  `Issued` are the cookies
clients may have: of every version the user has or had, and of one that is not
committed (yet), which `social_login`'s relinking path hands out before its commit.
`tx.versions` and `tx.able` are history: the versions the user had from the
request's arrival to the middleware's look, and `is_active` at the arrival.
`Legacy` are the users that migration 005 flagged as instructors without a profile.

### RateLimit and SlidingWindow

The middleware does not await between reading the table and writing it back, so
a request is one step.  `SlidingWindow` decides on the complete log of admitted
requests; `RateLimit` keeps the pruned list.  The refinement maps `log` to the
history variable `admitted`.

### AdminListing

`Begin`, `Commit`, `Rollback` of a row stand for signup, first Google login and
seeding: `created_at` is the time the transaction began, so a row may appear behind
newer ones.  `Count` and `Page` are the two statements of one request; `StartWalk`,
`NextPage` and `EndWalk` are a client that asks for page after page.  `Page` may
use any order that agrees with `ORDER BY created_at DESC`, another one each time.
No code deletes an account, and none changes its role.

### Migrations and Standings

A script is a sequence of schema operations; a process keeps the revision it is to
reach, the one it started the script from, and how far in the script it is.
`SchemaAt` describes the schema of each revision, apart from the scripts. `Possible` says when PostgreSQL
accepts one and `Apply` what it does to the database and its rows.  `Begin` reads
the revision, `Step` runs an operation, `Stamp` updates `alembic_version` (which
must match the revision the script started from), `Commit` ends the one transaction
of the command, `Abort` is any failure.  Staged DDL locks its tables, so that
another process's operations, and requests, wait for its end.  `Enroll` and
`BecomeInstructor` put rows into the database by the release that belongs to its
revision.  Of a row only what the scripts rewrite is kept: the role and the flag.
`Standings` has neither: a person is a student, an instructor or staff, and only
the wizard, or giving up the whole database, changes that.  The refinement mapping
is `StandingOf`.

## The runs

| Run | Instance | Shows |
| --- | --- | --- |
| `session_tokens` | 2 users (one staff), 3 grants, 3 slots, 1 of them may log out, `MaxVersion` 2; 2.0 million states | `OneLivePerLogin`, `FamilyVersion`, `CurrentLoginHasLiveRow`, `NoResurrection`, `LogoutEndsSessions`, `ImplementsSessions` |
| `session_two_logouts` | 1 user, 2 slots may log out | a **violation** of `NoResurrection` |
| `session_progress` | 1 staff user, 2 slots, both may log out; `FairSpec` | `EveryRequestAnswered` |
| `otp_races` | 3 rows, 2 equal or different codes, 2 slots that issue and redeem, cooldown 1, window, cap and life 2, clock to 3; 6.5 million states | `CodesSpaced`, `CodesPerWindow`, `OneUsableCode`, `LoginEndsCodes` |
| `otp_cooldown_race` | 2 issue slots | a **violation** of `MailsSpaced` |
| `otp_progress` | 3 rows, 2 codes, 2 slots that issue and redeem; no cooldown, cap 3, `FairSpec`; 512 thousand states | `EveryRequestAnswered` |
| `accounts_races` | 3 rows, 2 addresses (one is `ADMIN_EMAIL`), 2 Google accounts with every address, 3 slots, 2 of them for Google requests; 543 thousand states | `UniqueAccounts`, `LinkedIsVerified`, `StaffKeepPassword`, `NothingUndone` |
| `accounts_autolink` | 2 slots | a **violation** of `NoAutoLink` |
| `routes_serve` | a user, a staff account, a migrated instructor, 2 slots, every guarded route, cookies of either kind, `MaxVersion` 2; 368 thousand states | `FlagMatchesProfile`, `OnlyEntitledServed`, `ProfileWrittenOnce` |
| `rate_limit` | 2 addresses, 9 request lines, caps and windows 2 (auth) and 3 (other), limits on, 5 requests, clock to 4; 150 thousand states | `AtMostMaxPerWindow`, `ImplementsSlidingWindow` |
| `migrations` | 2 accounts, 2 processes, every revision as goal; 171 thousand states | `SchemaMatchesRevision`, `NoStepFails`, `KeepsStandings` |
| `admin_listing` | 5 accounts (one staff), 2 searches, pages of 2, clock to 3; 4.9 million states | `PageHoldsWhatTotalPromises`, `NobodyMissed`, `TotalPagesSuffice` |

Each passing run but the two progress runs also checks its module's `TypeOK`.

What the properties say that their names do not:

- `CodesSpaced`, `CodesPerWindow` and `OneUsableCode` compare a row with the rows
  that were committed when its issue began: the rules as `_issue_otp` can keep them
  without a lock.  Towards overlapping issues there is no such rule, see below.
- `LoginEndsCodes`: once a redemption has committed, every code that was committed
  when it began is used, the one it redeemed and all others.  That is less than one
  login per code: see the next section.
- `OnlyEntitledServed`: whoever gets a 200 from a guarded route had a session JWT of
  the version that was the user's committed one at some moment between the request's
  arrival and the middleware's look, a verified address, and an account that was
  active at the arrival.  What commits between the middleware's read and the
  handler's may still be served.  A session that a logout has ended may be current
  again because a slower logout sets the version back; that is `session_two_logouts`.
- `NothingUndone`: no write takes back a verification or a disabling, and none leaves
  a linked account without a link.  It does not say that a link stays the same one.
- `NobodyMissed` speaks of the client that goes on to an empty page,
  `TotalPagesSuffice` of the one that stops at `total_pages`; the latter needs that
  nothing was committed between the count and the page of its last answer.  Both
  leave out accounts that share their `created_at` with another: the query has no
  tie-break, and such an account may be on no page.
- `SchemaMatchesRevision` includes that the schema after 006 is what the SQLAlchemy
  models declare.  `NoStepFails` leaves out the process whose revision another one
  has changed since it was read: that one has to fail.

### What the code does not keep apart

Nothing in the code makes the requests of one user take turns.  What follows from
that is part of the models, with one exception:

- `LogoutRequests` has one element in `session_tokens`: logouts do not overlap one
  another (they do overlap with everything else).  With two, `session_two_logouts` is
  the counterexample, so four properties of this run hold for serial logouts only.
  The theorems ask less, that the logouts of one user do not overlap.
  `ProtectedRoutes` has overlapping logouts.
- Two overlapping redemptions of one code both log in: `get_valid_email_otp` takes no
  lock and `mark_email_otp_used` does not look at `used_at` again.  So do two that do
  not overlap, when the commit of the first fails after its cookies have left.  Both
  happen in `otp_races`; no document promises one login per code, so there is no run
  that states it, and `LoginEndsCodes` says what is left: a committed login leaves no
  code usable to a request that begins after it.
- Overlapping issues do not see one another: `CodesSpaced`, `CodesPerWindow` and
  `OneUsableCode` speak of the rows that were there when an issue began.
- Two `link_google` of one user, with two Google accounts of the same address, both
  pass the check at `service.py:248`, and the later one replaces the earlier, which
  would be refused with 409 if they did not overlap.  No document speaks of it.
- `/auth/link-google` takes a Google token and `/auth/refresh` a renewal cookie, and
  both are counted in the bucket of the other routes; so says README.md:208.

### What the violations say

- `session_two_logouts`.  Two logouts read version 0.  The first commits 1; a
  login gets tokens of version 1; a third logout commits 2; the second commits
  its 0 + 1, and the tokens of version 1, whose user had logged out, are current
  again.  README.md:87 says that a logout invalidates sessions.  An UPDATE that
  increments in SQL, or a lock on the users row, would repair it.
- `otp_cooldown_race`.  Two requests for a code both see no recent row and both
  mail.  README.md:68 promises one send per 60 seconds per user.
- `accounts_autolink`.  `social_login` reads an unverified account, `verify_otp`
  commits its verification, and `social_login` then links Google to it.
  README.md:219 says that Google is not auto-linked onto a verified account.

### Bounds

Identities (users, rows, grants, slots) are model values.  Two concurrent
requests are the fewest that race; the third is there so that a race can be
observed and acted upon by someone else before it ends.  In `otp_races` two slots suffice for
what it asks: each property is about two rows or a row and a login.  Three grants are
a login, its refresh and a competitor of either.  The three rows of `otp_races` are
one more than its cap of 2, so the window check rejects; in `otp_progress` they are
two usable codes, which only overlapping issues leave, and one more for an issue that
deadlocks with a redemption over them.  `MaxVersion` = 2 lets a version be raised,
raised again, and in `routes_serve` set back to 1.  In `otp_races` the clock passes
the window and the lifetime of a code, so that rows leave the one and codes expire;
in `rate_limit` it exceeds every window.  `otp_progress` stops the clock and has no
limits but the number of rows: only then do two usable codes come up early.
`MaxRequests` = 5 is the sum of the caps.  In `admin_listing` four listed accounts
on pages of two are two full pages and an empty one, and the clock lets all of them
begin at different times.  `migrations` needs no bound but its two accounts and two
processes: the revisions are finite, and one account cannot show that a script
tells two apart.  Windows and caps are small but differ per bucket where that tells them apart.
`SYMMETRY` permutes only values that the specification treats alike (slots of one
kind, rows, grants, codes, answers); the progress runs use none.

Three runs leave out states that differ in nothing that matters:

- `otp_races` has the `VIEW` `WithoutMails`: of the mails only the row keys they use up
  matter to an action (`Fresh`), and no property of the run looks at them.  Its
  `TypeOK` is the exception: it says of `mailed` only its type.
- `otp_progress` has the `VIEW` `WithoutHistories`: no guard reads `ended`, `knew` or
  `tx.knew`, and no step changes only these, so whether a handler is answered does not
  depend on them.  `KeysInOrder` lets new rows take the primary keys in order, as the
  symmetry it cannot use would.
- `routes_serve` has the `CONSTRAINT` `OneUserTouched`: in one behaviour one user's
  session version, `is_active` or profile changes, any one's.  A request depends on
  its own user's rows only.

`CHECK_DEADLOCK FALSE` is set for `SessionTokens` and `OtpCodes`: when every grant
or row of the instance has been used and the clock has reached its bound, nothing
needs to happen any more.  Waiting in a circle, the deadlock that matters, is the
subject of the progress runs.  In the other instances some request can always
come, and TLC checks that.

### Fairness

`FairSpec` (of `SessionTokens` and of `OtpCodes`) asks for each slot:

- `WF(Proceed)`: a handler that can go on does; the event loop starves nobody.
- `SF(Acquire)`: a row lock that is free again and again is obtained in the end;
  PostgreSQL queues the transactions that wait for a row.
- `WF(DeadlockVictim)`: the deadlock detector runs in every waiting transaction.

No request has to come, no time has to pass and nothing has to fail.

## What is proved

TLAPS checks the seven `*_proofs` modules for all values of the constants, from the
named assumptions `ConstantsOK` of the modules, which TLC evaluates in the runs.
They state every safety property that a passing run checks, the three refinements
included; four of `SessionTokens` under a condition on logouts.

| Module | Theorem | Says |
| --- | --- | --- |
| `SessionTokens` | `TypeCorrect` | `[]TypeOK` |
| | `RotationIsExclusive` | `[]OneLivePerLogin` |
| | `RefreshKeepsVersion` | `[]FamilyVersion` |
| | `EndedStaysEnded` | `NoResurrection`, if the logouts of one user take turns |
| | `LogoutsReachEverySession` | `LogoutEndsSessions`, under the same condition |
| | `RevokingIsWhole` | `[]CurrentLoginHasLiveRow`, under the same condition |
| | `TurnsImplementSessions` | `SessionTokens` implements `Sessions`, under the same condition |
| `OtpCodes` | `TypeCorrect` | `[]TypeOK` |
| | `CooldownHolds` | `[]CodesSpaced` |
| | `WindowHolds` | `[]CodesPerWindow` |
| | `IssuingSupersedes` | `[]OneUsableCode` |
| | `LoginsEndCodes` | `[]LoginEndsCodes` |
| `Accounts` | `TypeCorrect` | `[]TypeOK` |
| | `AccountsAreUnique` | `[]UniqueAccounts` |
| | `LinksAreVerified` | `[]LinkedIsVerified` |
| | `PasswordsOfStaffStay` | `[]StaffKeepPassword` |
| | `NothingCommittedIsUndone` | `NothingUndone` |
| `ProtectedRoutes` | `TypeCorrect` | `[]TypeOK` |
| | `OnlyTheEntitledAreServed` | `[]OnlyEntitledServed` |
| | `FlagAndProfileAgree` | `[]FlagMatchesProfile` |
| | `FirstWizardWins` | `ProfileWrittenOnce` |
| `RateLimit` | `TypeCorrect` | `[]TypeOK` |
| | `CapHolds` | `[]AtMostMaxPerWindow` |
| | `PrunedTableImplementsSlidingWindow` | `RateLimit` implements `SlidingWindow` |
| `AdminListing` | `TypeCorrect` | `[]TypeOK` |
| | `TotalsAreHonest` | `[]PageHoldsWhatTotalPromises` |
| | `WalksAreComplete` | `[]NobodyMissed` |
| | `TotalPagesAreEnough` | `[]TotalPagesSuffice` |
| `Migrations` | `TypeCorrect` | `[]TypeOK` |
| | `SchemaFollowsRevision` | `[]SchemaMatchesRevision` |
| | `ScriptsNeverStick` | `[]NoStepFails` |
| | `MigrationsKeepStandings` | `Migrations` implements `Standings` |

The arguments:

- **Types.**  In `SessionTokens`, `TypeOK` alone is not inductive: `claims[tx[r].want].user` is a user
  only if the presented grant was issued.  `TypeInv` adds that held grants are
  issued, that a waiting request waits for a held grant, and that the grants being
  minted are distinct.
- **Rotation.**  `SafeInv` adds that row locks exclude one another (`LockInv`), what
  a transaction knows of the row it is about to replace (`StagingInv`: it is live,
  locked, and of the same family), and that a family exists only once its first
  row is committed (`LineageInv`), which is why the grant of a failed request can
  be forgotten without leaving descendants.
- **Logout.**  While the logouts of one user take turns (`LogoutsTakeTurns`: no two
  requests have read a version of the same user that they may write back), the
  version a logout has read is still the committed one (`LogoutOK`), and no token is
  ahead of the users row (`NotAhead`).  Logouts of different users overlap freely.
  So a commit raises the version, above every token issued so far: one fact for
  `NoResurrection` and `LogoutEndsSessions`.
- **Logins.**  Two steps are visible to `Sessions`.  A response hands out a grant that
  starts a login (`LineageInv`: nobody holds a descendant of it yet) or one of a
  login whose other grants say the same version (`FamilyVersion`); a commit that
  bumps clears the set of its user.
- **Codes.**  `Sound` is what an issue may rely on at each statement: what it checked
  at its start holds of the row it is going to insert, towards the rows it knew.
  That stays so because a stored row keeps its times, and since `used` never goes
  back; `Kept` is the same of the row once it is stored.  For superseding, every
  row an issue knew is used, locked by the issue, or still on its list (`Reached`).
  The same list argument serves a redemption: when it commits, every code that was
  stored when it began is used or locked by it (`Reached`), and `used` never goes
  back, whoever commits later.
- **Accounts.**  `Claims` is the index seen from an uncommitted write (no committed
  row has its keys), `Apart` the same between two of them; both come from the waits
  of the unique indexes.  `Sound` records what a handler loaded that nobody can take
  back: a verification, a role.  Staff are verified from their insertion, so the
  relinking path never finds one.
- **Guarded routes.**  `Request` follows one request: until the middleware looks, the
  user's present version is among those recorded since the arrival, whichever way
  logouts move it (`Recorded`); so if the middleware finds the JWT's equal to it, that
  one is recorded too.  Verifications are never taken back and no account is enabled
  again (`Kept`).  A wizard that has
  written holds the users row, so `OneWriter`, so no profile appears before its own.
- **Rate limiter.**  A hit that was let through and is no longer in the table has
  left the window for good, since the clock only grows (`Pruned`); so the pruned
  list and the recent part of the complete log are the same set.
- **User listing.**  An account that is alone with its `created_at` comes, in every
  order the query may use, right after the newer ones; there are only ever more of
  these.  So one that a page did not show has at least as many before it as the
  next page's offset (`UnseenAreAhead`), and an empty page leaves no room for it.

- **Migrations.**  What a script does to a schema does not depend on the rows: an
  operation and forgetting the rows commute (`ApplySchema`), so what each of the
  twelve scripts makes of the schema it starts from is computed once, and the scripts
  compose (`Runs`).  The invariant places every migrator: what it has staged is
  what its script so far makes of the schema of the revision it read (`OnCourse`), or
  another process has stamped since (`Overtaken`); then its own stamp finds no
  row, so it never commits.  Staged DDL excludes other stagers.  An operation that the
  schema allows may still fail on the rows; it does not, because rows of a revision
  fit its constraints (`RowFits`) and because nobody is an instructor by role alone
  once 005 has set the flags (`AfterFlagging`).  The last fact is also why dropping
  the role keeps everybody's standing.

Only model-checked: liveness, that is `EveryRequestAnswered` of `SessionTokens` and of
`OtpCodes` (fairness and ENABLED are outside what the prover handles).

## Not modelled

- `social_login`'s relinking path in `SessionTokens`: it ends sessions and issues
  in one transaction.  `Accounts` has the path, with the `session_version` it writes,
  but no tokens; `ProtectedRoutes` has its commit and the cookies it hands out before.  Its tokens carry a version that is not committed when they leave,
  so a failing commit would have to be followed through every theorem of the module.
- The same-origin check: a test of two headers, without state.
- JWT signing, bcrypt, SHA-256, SMTP, templates, schemas, error bodies,
  configuration: no state, or library code.  The models use what these promise.
- Cookies in browsers and their attributes: a client may present any cookie it was
  ever sent.
- CORS and the order of the middlewares, alembic's offline mode (which prints SQL).
- What a search text matches: `Matches` in `AdminListing` is a constant, so an
  account whose name or phone number changes is not covered; no code changes one.
- Values of the columns that migration 003 adds: a downgrade below it and an upgrade
  set every `session_version` to 0 and every address to verified.

## Planned

`SessionTokens`: the relinking path as one more login that also bumps, with the
condition its theorems then need.
