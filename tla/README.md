# Whatsodo backend: TLA+ models, checks and proofs

The repository is a FastAPI backend (SQLAlchemy async sessions on PostgreSQL)
with two areas of stateful logic: accounts with refresh-token sessions, and
workspaces with members and invitations, the latter guarded by row-level
security policies. This directory holds TLA+ models of that logic, the TLC
configurations that check them on small instances, and TLAPS proofs, for every
size, of each safety property that the checks state, and of the two refinements.

## 1. Inventory

| Component | Source | State | Operations |
|---|---|---|---|
| Sessions | `app/services/auth_service.py:74-205`, `app/api/v1/auth.py:69-112` | tables `refresh_tokens`, `password_resets`, `users.password_hash` | login, refresh (rotation, reuse detection), logout, forgot-password, reset-password |
| WorkspaceMembership | `app/services/workspace_service.py`, `app/api/v1/workspaces.py`, `app/api/deps.py:46-79` | tables `workspaces`, `workspace_members`, `workspace_invitations` | create, authorize, invite, accept, change role, remove; lists (read only) |
| Rbac | `app/core/rbac.py` | none (a constant matrix) | `role_has_permission` |
| Accounts | `auth_service.py:32-71`, `auth.py:55-66` | `users`, `email_verifications` | register, verify-email |
| BrowserSession | `auth.py:25-42,69-102` | the client's cookie jar, `settings.cookie_domain` | set and delete cookies, present them |
| RowLevelSecurity | `alembic/versions/0003_enable_rls.py`, `core/db.py:12-52`, `deps.py:35` | the connection pool, `SET LOCAL` settings of open transactions, the server's database role | bind a transaction, run each endpoint's statements under the policies of four tables, commit, go on unbound |
| RequestContext | `middleware/request_context.py`, `core/logging.py` | three context variables | access log |
| AuditTrail | `services/audit_service.py` | table `audit_logs`, append only | one row in the transaction of the operation |
| EmailSender | `services/email_service.py` | none | logs the link that carries a raw token |
| Health, Schema, Configuration, Schemas | `api/v1/health.py`, `alembic/`, `core/config.py`, `schemas/` | none that changes at run time | probes, migrations, wiring, body shapes |

**How they interact.** Every request gets one `AsyncSession` (`get_db`), so one
open PostgreSQL transaction at a time, at READ COMMITTED. Routes behind
authentication run `get_current_user`, those of a workspace
`get_current_workspace` and `require_permission`, and then a service function
that reads rows, decides, adds an audit row and commits; mails go out after the
commit. Handlers of different requests, in one event loop or in several worker
processes, meet only in the database. There are no background jobs, no retries
and no in-process shared state. Clients hold raw refresh tokens (cookies) and
raw single-use tokens (mail links); the database has their hashes.

**What is hard.** Every service function is a check-then-act over an `await`:
the row that was tested is not locked and not tested again when the ORM writes
it by primary key. Some operations are several transactions (login), or a
transaction and a mail. A handler may die anywhere. What has to hold:

- *Sessions*: families of tokens stay chains of one user; a token that is
  presented twice ends its family; a password reset ends the user's sessions; a
  reset token works once; no request waits for ever for a row lock.
- *WorkspaceMembership*: nobody gets in uninvited; a row changes only the way a
  manager's request that saw this row decided; an invitation works once; owners
  are not removed; lost authority is lost at once.
- *Accounts*: one account per address, also for concurrent registrations, and
  one that does come about; no mail for an account that does not exist; only the
  own mail verifies; no INSERT waits for ever.
- *BrowserSession*: logout leaves no usable token and no cookie; an honest client
  is not mistaken for a thief.
- *RowLevelSecurity*: nothing of another tenant is visible or writable, whatever
  the application layer does; a binding never reaches another user's request on
  a pooled connection; what the application layer allows, the policies allow.
- *RequestContext*: the access log names the user of the request.

`PROJECT.json` lists each hazard at its line with the properties that would catch
it, or a note why none does.

## 2. Modules

| Module | What it is |
|---|---|
| `RefreshTokens` | the session endpoints as concurrent requests over the tables |
| `SessionFamilies` | what rotation promises: one current token per open session |
| `RefreshTokensRefinement` | the tables mapped to `SessionFamilies` |
| `RefreshTokensProofs` | proofs about `RefreshTokens` under every overlap |
| `RefreshTokensSerialProofs` | proofs about it without overlap, and of its refinement |
| `Rbac` | roles and permissions |
| `WorkspaceMembership` | the workspace endpoints as concurrent requests |
| `WorkspaceRoster` | what membership promises: a roster changed by current managers, and offers used once |
| `WorkspaceMembershipRefinement` | the tables mapped to `WorkspaceRoster` |
| `WorkspaceMembershipProofs` | proofs about `WorkspaceMembership` under every overlap |
| `WorkspaceMembershipSerialProofs` | proofs about it without overlap, and of its refinement |
| `BrowserSession` | `RefreshTokens` composed with browsers, their cookies, and other holders of a token |
| `BrowserSessionProofs` | proofs that the composition is one that `RefreshTokens` allows, and about jars and alarms |
| `Accounts` | registration and verification as concurrent requests over the tables |
| `AccountsProofs` | proofs about `Accounts` |
| `RowLevelSecurity` | the policies, and each endpoint's statements under them |
| `RowLevelSecurityProofs` | proofs about `RowLevelSecurity` |
| `RequestContext` | the context variables between middleware and endpoint |
| `MCRefreshTokens`, `MCWorkspaceMembership`, `MCRowLevelSecurity` | the modules TLC runs, with their symmetry sets |
| `MCBrowserSession` | the module TLC runs for `BrowserSession`, which puts the refinement of `SessionFamilies` under the browsers |

### How code becomes actions

- A *request slot* `req[r]` holds the suspended handler: its place `pc` and the
  values it read. A step is what happens between two points at which another
  request can change what this one will use: each SELECT whose result is used
  after another await, and each flush + COMMIT. Early returns and errors before
  the first write change no table and are left out where no later step depends
  on them; where they release a handler (`Refuse`, `JoinConflict`,
  `ChangeStale`) they are actions.
- *A flush and its commit are one step.* Uncommitted rows are invisible to other
  transactions, and the UPDATEs carry constants and address a primary key, so an
  UPDATE that waited for a row lock applies to the row as it then is. The one
  place where a lock taken by a flush outlives an await that matters is
  `reset_password`: the SELECT at line 198 autoflushes the UPDATE of `users`.
  `ResetScan` takes that lock, `ResetCommit` releases it, and login's UPDATE of
  `last_login_at` and other resets wait for it (`Locked`).
- *Deadlock of row locks* among the flushes of two requests is not modelled: the
  unit of work sorts the rows of a table by primary key and the tables in one
  fixed order.
- Rows are named by their position in commit order. A token family is named by
  the row its login inserted (the code draws a uuid4 there), a raw token by its
  row. `revoked_at`, `used_at`, `accepted_at` are only tested against None and
  are booleans. In `WorkspaceMembership` an e-mail address is named by the user
  who registered it; the column is unique and case-insensitive and the code
  compares lower-cased strings.
- `is_active` of users is a constant set (`ActiveUsers`), because no code writes
  the column; `InvitationStatus.REVOKED` is likewise never written.
- A role change to the role that was read emits no UPDATE: the ORM sees no
  difference. It ends in `Refuse`.
- `Crash(r)` covers a dying worker, a dropped connection and a cancelled
  handler: the open transaction rolls back, committed work stays, and a raw
  token or mail that was not delivered is lost.
- `purged`, `wiped` and `managers` are history variables: they only record
  which rows a detection or a reset had in front of it, and who ever could
  manage members. No guard reads them.

- *Accounts.* Between the flush of the user and the end of the transaction the
  row is "open": others do not see it, but its key is in the unique index, so
  that `InsertUser` of the same address is disabled until it is committed
  (`InsertConflict`, the 500) or rolled back (`Crash`, and the waiter takes
  over). Password hashes are left to `RefreshTokens`, whose users are all
  registered.
- *BrowserSession* adds to each step of `RefreshTokens` what it does to a jar. A
  browser presents what its jar holds; the raw tokens in `held` may be presented
  by anyone else (`OtherPresents`). The histories `undelivered`, `shared`,
  `crossed` and `left` say of a family that one of its responses was lost, that
  another client took part, that a token of it was presented before the last
  answer had arrived (two tabs of one browser refresh at once), that its browser
  logged out; no guard reads them.
- *RowLevelSecurity* has a request as the list of statements its endpoint sends
  (`Scripts`), dependencies first, in the order in which the unit of work
  flushes them: members and invitations before the audit row in the two
  endpoints that flush explicitly, either order in `remove_member`. Each
  statement runs alone, on a connection, under the binding that this connection
  then has. One address may have several invitations to a workspace. Roles of
  members, expiry and the status of an invitation decide nothing about policies:
  what they refuse is `End`, and an invitation that can still be used is one in
  `mailed`. The script `raw`, an endpoint with a bug,
  only reads. A raw INSERT of the own membership that returns nothing would be
  admitted by `workspace_members_insert` for any workspace, but no code sends
  one, and it is not tried.
- In *RequestContext* each request has two contexts, because starlette's
  `BaseHTTPMiddleware` runs the endpoint in a task of its own.

### What is taken as given about the surroundings

PostgreSQL at READ COMMITTED with row locks served in order of arrival; unique
constraints checked at the INSERT, which waits for an uncommitted entry of the
same key; SQLAlchemy's autoflush before a SELECT, its `StaleDataError` for an
UPDATE that matches no row, its mere warning for such a DELETE, a connection
given back to the pool at each commit; hashes that do not collide; a clock that
does not run backwards.

Of row-level security: the owner of a table is exempt unless FORCE is set; a row
that an INSERT returns, and a row that an UPDATE or DELETE has to read, must pass
the SELECT policies too; a STABLE function in a policy does not see the row that
its own statement is inserting; a setting that was once set locally is the empty
string afterwards, and `''::uuid` is an error, while a setting never used is
NULL. The ids are server defaults (`models/base.py`), which is why every INSERT
returns something.

Of browsers: a cookie with a Domain and one without are two cookies (RFC 6265,
5.3).

`SET LOCAL ... = :bind` (`core/db.py:38-52`) is taken to do what its docstring
says, so that the binding in `Arrive` always succeeds; PostgreSQL's extended
protocol does not accept parameters in SET, which is worth a test against a real
server.

## 3. What TLC checks

| Run | Shows | Bounds |
|---|---|---|
| `SessionsSafety` | `TypeOK`, `FamiliesAreLineages`, `ReuseKillsEarlierTokens`, `ResetKillsEarlierTokens` under overlapping requests, and under fairness `RequestsFinish` | 1 user, 2 requests, 3 token rows, 1 reset that both requests may hold |
| `SessionsSerial` | without overlap: refinement of `SessionFamilies`, `DetectedReuseEndsFamily`, `ResetRevokesOutstandingTokens`, `AlarmHasCause`, `LogoutEndsSession` | 1 user, 1 browser, any other holder of its tokens, 1 request, 3 tokens, 1 reset, 1 tick, with a cookie domain and without |
| `MembershipSafety` | `TypeOK`, `MembersAreInvited`, `RowsChangeAsRead` under overlapping requests | 2 users, 2 workspaces, 2 requests, 3 rows, 2 invitations, roles owner, agent |
| `MembershipSerial` | without overlap: refinement of `WorkspaceRoster`, `InvitationJoinsOnce` | 2 users, 1 request, 3 rows, 2 invitations, roles owner, admin, agent, expiry |
| `Accounts` | `TypeOK`, `OneAccountPerAddress`, `MailsNameAccounts`, `VerifiedByOwnToken`, and under fairness `RegistrationSucceeds`, `RequestsFinish` | 2 addresses, 3 requests, 2 crashes, 4 rows, 1 tick |
| `TenantPolicies` | `TypeOK`, `PoliciesConfine`, `BindingEndsWithTransaction` | 2 users, 1 workspace, 2 requests, 2 connections, both roles |

Why the bounds are enough to be interesting: two requests are what every race
of a check and its act needs; three token rows are a login, its rotation and a
second rotation or login beside it; one user is enough for sessions, because
what a handler reads and writes is of a single user, and the theorems are for
any number. Three membership rows with two invitations are two creators and a
member, or a creator, a member, and that member removed and joined again while
an older request still holds the first row. A TTL of 0 and one tick make every
token expire in the middle of whatever is under way; `SessionsSafety` and
`MembershipSafety` have no clock, since expiry only takes steps away from them.
In `Accounts` three requests of one address are two waiters behind one open row,
each of which may be the one that dies; `MaxUsers` is one commit per address and
one rolled back row per crash, so that the bound never disables an INSERT. In
`TenantPolicies` one workspace suffices because every policy and every statement
is about the rows of a single workspace, and a user without a part in it exists;
the role can be changed from owning to bound (`Redeploy`), since under a bound
role alone no workspace ever comes about. The membership runs do not check
deadlock: the last manager may demote themselves, the clock ends, and then the
bounded system has nothing left to do.

**Fairness.** `FairSpec` of `RefreshTokens` gives weak fairness to the
continuation of each request (the event loop resumes a handler whose await has
completed) and strong fairness to the two steps that wait for the `users` row
(PostgreSQL queues the waiters of a row). Its clock stands still: a tick only
lets rows expire, and a suspended handler has looked at the expiry of its row
already. `FairSpec` of `Accounts` does the same
for an INSERT that waits for a key. No request has to arrive, no crash has to
happen and the clock need not move. `RequestsFinish` of `RefreshTokens` exempts a
request that needs a row of the bounded token table when the table is full.

### Disagreements between text and code

Each of these is a run that TLC ends with a counterexample.

| Run | The text | The code |
|---|---|---|
| `ReuseRace` | "whole family theft-detection" (`tests/integration/test_auth_flow.py:89-90`) | a rotation that overlaps the detection leaves a live successor |
| `RotatedTwice` | "Reuse of an already-rotated (revoked) token revokes the entire token family" (`auth_service.py:107-108`) | two refreshes that read one token as live both rotate it, nothing is detected, both successors live |
| `CreatorRemoved` | "Cannot remove the workspace owner" (`workspace_service.py:190`) | the owner's role can be changed, then the row removed, without any overlap |
| `PoliciesBypassed` | "even if the app-layer membership check has a bug, a raw query against these tables cannot return rows the current session user isn't entitled to" (`0003_enable_rls.py:7-11`) | `render.yaml` runs migrations and server with one `DATABASE_URL`; the owner of a table is exempt |
| `SelfInsert` | "Insert is allowed either for yourself (workspace creation, invitation acceptance)" (`0003_enable_rls.py:81-82`; also `0003_enable_rls.py:16-18`, `workspace_service.py:30-33`, `test_rls.py:41-50`) | the INSERT returns its row, which must pass the SELECT policy, which asks for the membership that is being inserted: under a bound role nobody creates or joins a workspace |
| `AccessLog` | "included automatically if set" (`request_context.py:13-15`) | the line is written in a context in which the dependencies have set nothing |

More promises of the text do not hold, each for one of the reasons above, and
have no run of their own. The first four fail as soon as two requests overlap;
the serial runs check two of them for requests that do not.

| The text | The code |
|---|---|
| "Revoke all outstanding refresh tokens on password reset." (`auth_service.py:197`) | tokens committed between its SELECT and its commit survive; `ResetRevokesOutstandingTokens` fails with `Requests = {r1, r2}` |
| "Invalid or already-used invitation" (`workspace_service.py:115`) | an acceptance that read the invitation as pending joins again after a removal; `InvitationJoinsOnce` fails with `Requests = {r1, r2}` |
| "Single-use tokens" (`core/security.py:63`) | two resets that read a token as unused both change the password; without overlap the test of `used_at` is enough |
| "a role change or removal takes effect immediately" (`core/security.py:28-30`) | the caller's role is read once, before the handler: a request whose caller is demoted after that goes on |
| `me_after_logout.status_code == 401` (`tests/integration/test_auth_flow.py:58-59`, under the default domain) | cookies set with a Domain are deleted without one: with `COOKIE_DOMAIN` configured the browser keeps both, and its access token is good until it expires |
| arming `app.user_id` "once per request" is enough to create a workspace (`workspace_service.py:28-33`); its creator then reads it (`tests/integration/test_rls.py:49-50`) | the refresh after the commit runs unbound: under a bound role it finds no row (theorem `CommitEndsTheRequest`); the fixture's savepoint keeps the test in one transaction |

What does hold under every overlap is the weaker guarantee that the safety
runs and the proofs state: whatever a detection or a reset *had in front of it*
stays dead, and a membership row is only touched by requests that read it.

Under a role that the policies bind, the server would thus not work: nobody
could create or join a workspace, and an invitation would be committed but not
mailed. The policies and the code can both be right only while the policies are
not in force.

One more thing the runs show, which no text contradicts: a password reset
revokes the tokens of every browser of the user. The next refresh of each of
them presents a revoked token and counts as reuse, in the audit log too.
`AlarmHasCause` has to name this case.

## 4. What is proved

Every theorem is for all values of the constants: any sets of users,
workspaces, browsers, connections and request slots, any bounds on rows and
time. The assumptions are the modules' `ConstantsAssumption`s, which TLC
evaluates in every run. They say that `None` (and the empty setting `Blank`) are
no user, workspace, role or connection, that bounds and TTLs are numbers, that
active users are users, and that payload roles are among the five roles and
database roles among the two. One hypothesis occurs besides, always in the
statement of the theorem: that requests do not overlap (`[]NoOverlap`).

Each module has the same argument: an invariant `IInv` with `Init => IInv`
(`InitIInv`), a lemma per action (`StepInsertUser`, `StepJoinCommit`, ...), and
`StepIInv`, which puts them together; the properties follow from `IInv`. The
properties are not inductive by themselves, because a step writes by what a
suspended handler remembers. What `IInv` adds is therefore what each handler
may rely on, in spite of the commits that others make in between.

### With overlapping requests

| Theorem | Property | Module |
|---|---|---|
| `TypeCorrect` | `TypeOK` | `RefreshTokensProofs` |
| `LineagesHold` | `FamiliesAreLineages` | |
| `ReuseDetectionKills` | `ReuseKillsEarlierTokens` | |
| `PasswordResetKills` | `ResetKillsEarlierTokens` | |
| `BrowsersAreAllowed` | `BrowserSpec => Spec` | `BrowserSessionProofs` |
| `SessionsHoldBehindBrowsers` | the four above, of `BrowserSpec` | |
| `JarsHoldDelivered` | `JarsOK` | |
| `JarInvariant` | `BInv` | |
| `LogoutEnds` | `LogoutEndsSession` | |
| `AlarmsHaveCauses` | `AlarmHasCause` | |
| `TypeCorrect` | `TypeOK` | `WorkspaceMembershipProofs` |
| `NobodyUninvited` | `MembersAreInvited` | |
| `ChangesReachTheRowRead` | `RowsChangeAsRead` | |
| `TypeCorrect` | `TypeOK` | `AccountsProofs` |
| `AddressesAreUnique` | `OneAccountPerAddress` | |
| `MailsFollowCommits` | `MailsNameAccounts` | |
| `VerificationIsOwn` | `VerifiedByOwnToken` | |
| `TypeCorrect` | `TypeOK` | `RowLevelSecurityProofs` |
| `BindingsDoNotLeak` | `BindingEndsWithTransaction` | |
| `TenantsAreConfined` | `PoliciesConfine` | |
| `CommitEndsTheRequest` | `NothingAfterCommit`, stated there | |
| `MembershipIsClosed` | `NobodyJoinsWhenBound`, stated there | |

- *Sessions.* `RowsExist`: the row a handler remembers is an issued row, of the
  handler's user where it has one. `PurgeComplete` and `WipeComplete`: every
  token up to the handler's mark that belongs to the family (the user) and is
  still live is among its victims. This survives other requests' commits
  because, as `StepRowsOnlyAge` says, an inserted row never loses `revoked`,
  never changes its user or family, and new rows get numbers above every mark.
  `MarksOK` bounds the history by the rows issued. At the commit the victims are
  revoked and the history moves to the mark, which is what the two "kills"
  properties need.
- *Browsers.* Each step of the composition is a step of `RefreshTokens` or moves
  a cookie only. This needs `JarsOK`: a jar holds a token that a response
  delivered, so that presenting it is something `RefreshTokens` lets a client do.
- *Logout and alarms.* `LogoutEndsSession` and `AlarmHasCause` hold for any
  number of browsers and whatever overlaps: requests of other sessions, logins
  of the same browser, resets, other holders. The one overlap that breaks them
  is of two requests for the *same* session, and both properties name it
  (`crossed`): then a refresh can leave a live successor behind a logout, and
  two tabs that refresh at once can set off the alarm. `BInv` is the invariant.
  `OneBrowser`: two browsers never have tokens of one family, in the jar or on
  the way there. `HandsApart` and `OneLive`: where nothing crossed, one handler
  at a time has tokens of a family in hand, and one token of it is live.
  `JarHasTheLiveToken`: it is the one in the jar, unless another client took
  part. `DeadTokensExplained`: a dead token in a jar has a cause, or the
  response that replaces it is under way. `ClientsOK` is what each suspended
  handler relies on. Because most steps touch few of these, `QuietStep` proves
  all of `BInv` once, from what a step says of the rows it inserts (`Births`),
  kills (`Deaths`), the families it takes in hand (`Takes`), and the responses,
  logouts and purges it makes (`Drops`, `Leaves`, `Purges`); each action then
  only has to show these.
- *Membership.* `InvitationsOK`: an invitation names a user, a workspace, and
  somebody who could manage its members. `ManagersNoted`: who can manage members
  now is on record, and only in a workspace that exists. `HandlersOK`: a handler
  that goes on to write was authorized by such a manager, the row it read is one
  of those inserted, an acceptance is of its invitation's workspace and user.
  `OnlyGrows` is why this stands: rows and managers are added, and an invitation
  changes in nothing but its status. `RowsChangeAsRead` is an action property
  that follows from `IInv` step by step: the ids of rows are never used again, so
  that the row with the remembered id is the row that was read.
- *Accounts.* `KeysUnique` says uniqueness of all rows in the index, open ones
  included; `OneAccountPerAddress` alone is not inductive, since a commit would
  make it false of an open row. `HandlersOK` has that no two handlers have the
  same open row, and that a token that was read or is about to be mailed is of a
  committed row.
- *Row-level security.* `HandlersOK` is about the statements still to come: who
  has one is a user in a workspace; members are only inserted for the caller; a
  mail comes after an INSERT and a commit of its invitation, and under a bound
  role after a SELECT that follows the commit. As no binding outlives the first
  transaction (`BindingEndsWithTransaction`), that SELECT finds nothing, which is
  `NothingAfterCommit`. `BoundStatement` computes for each kind of statement whose
  rows the policies let it touch.

### Without overlap

`RefreshTokensSerialProofs` and `WorkspaceMembershipSerialProofs` prove, of any
number of slots but under `[]NoOverlap`, that at most one handler is suspended
at a time:

| Theorem | Property |
|---|---|
| `DetectedReuseEnds` | `DetectedReuseEndsFamily` |
| `ResetRevokesAll` | `ResetRevokesOutstandingTokens` |
| `SerialSessionsImplement` | `ImplementsSessionFamilies` |
| `InvitationsJoinOnce` | `InvitationJoinsOnce` |
| `SerialRequestsImplement` | `ImplementsWorkspaceRoster` |

The hypothesis is needed: section 3 tells how these fail when two handlers
overlap. Behaviours that satisfy it are those of a server that
finishes one request before it starts the next, with crashes, lost responses
and the clock still anywhere. The invariant is `SerialInv`. Its core is
`ReadsAreFresh`: what the one suspended handler has read is what is there, so
that its decision is good at the commit. For the sessions it adds that a family
has at most one live token (`OneLivePerFamily`) and that nothing is live in a
family that was purged; for membership, that a pending invitation is unused.

The refinements go step by step. A login is `Open`, a rotation `Rotate`; logout
and detected reuse are `End`, a reset is `EndAll`; everything else leaves the
families as they are. The current token of a family is chosen (CHOOSE) among its
live ones, which `OneLivePerFamily` makes unique: that is where the refinement
would fail with overlap. Creating a workspace is `Found`, an invitation is
`Invite`, its expiry `Lapse`, an acceptance by whoever is or is not yet a member
`Join`; role changes and removals are `SetRole` and `Remove`, whose guard
(whoever acts decides *now*) is what `ReadsAreFresh` gives.

### Only model-checked

- Liveness, out of the prover's reach: `RequestsFinish` of `RefreshTokens` and of
  `Accounts`, `RegistrationSucceeds`.
- The six runs that end with a counterexample, among them everything about
  `RequestContext`.

## 5. Not modelled

`PROJECT.json` gives the reason per component. In short: Health, Configuration,
Schemas and the first two migrations keep no state that changes; the constraints
of the migrations are part of the modules that use the tables. AuditTrail is
written and never read: only the INSERT of a workspace's row under its policy is
modelled. EmailSender is the three steps that deliver a token. Within the
modelled components these are left out: read-only endpoints (except under the
policies), the columns that no decision reads (names, slugs, user agents,
addresses), the expiry of access tokens, which no server state depends on, the
policy `workspace_update` and the setting `app.workspace_id`, which no endpoint
uses, audit rows without a workspace, and the table `auth_identities`, which no
code writes.

## 6. Plan

1. (done) `RefreshTokens`, its abstraction, and the proofs about it.
2. (done) `WorkspaceMembership` with `Rbac`, and its abstraction.
3. (done) `Accounts`, `BrowserSession`, `RowLevelSecurity`, `RequestContext`.
4. (done) The safety properties of these as theorems, with overlap where they
   hold with overlap, else without; both refinements.
5. (done) `AlarmHasCause` and `LogoutEndsSession` under every overlap, with the
   requests that cross within a session named in them.
6. What remains true of the serial promises when requests do overlap, stated
   about the overlap itself: for instance that an invitation joins twice only if
   two acceptances read it as pending before either committed.
