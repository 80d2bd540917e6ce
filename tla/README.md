# Specifications of the Roleblank backend

TLA+ modules, TLC configurations and TLAPS proofs for the Rust backend in
`src/backend` (axum, sqlx, PostgreSQL). Everything the backend keeps is in
PostgreSQL or in the memory of one process; what goes wrong in it goes wrong
between two statements, so the modules follow transactions statement by
statement and not functions call by call.

1. [The system](#1-the-system): parts, state, operations, what is hard
2. [Modules](#2-modules) and how they correspond to the code
3. [Runs](#3-runs): what TLC checks, with which bounds
4. [Proofs](#4-proofs): what TLAPS proves, from what, and how
5. [Where code and documents disagree](#5-where-code-and-documents-disagree)
6. [Limits](#6-limits): what is only checked, what is not modelled
7. [Plan](#7-plan)

To parse, check and prove one module:

    tlasany Sessions.tla
    tlc -workers 2 -config family.cfg MCSessions.tla
    tlapm Sessions_proofs.tla

## 1. The system

An API for one company: an owner, internal users with delegated authority,
client users with a portal. One process runs the HTTP server and one outbox
worker; several replicas may share the database.

| Component (`src/backend/src/...`) | State | Operations that change it | Interacts with |
|---|---|---|---|
| Sessions: `modules/authentication/{service,sessions,repo}` | `sessions`, `session_refresh_tokens` | login, refresh, logout, logout-all, revoke one | account status (identity), audit, `principal.rs` on every request |
| Passwords and reset links: same files | `credentials`, `password_reset_tokens` | change, request a link, confirm | sessions (revokes them), outbox (the mail) |
| MFA: `modules/authentication/mfa` | `mfa_factors`, `mfa_recovery_codes`, MFA columns of `users` and `sessions` | set up, activate, verify, recover, regenerate, disable | step-up of every dangerous operation; mandated by authorization |
| Authorization: `modules/authorization` | `roles`, `role_permissions`, `user_role_assignments`, `user_permission_overrides`, `users.security_version` | create/update/delete role, assign, unassign, create/delete override | `principal.rs` loads it on every request; invitations assign roles |
| Identity: `modules/identity`, `modules/bootstrap` | `users`, `system_ownership`, `invitations` | bootstrap the owner, register, invite, revoke, accept, update, suspend, reactivate, archive | sessions, roles, departments, clients |
| Outbox: `modules/outbox/mod`, `mail` | `outbox_events`; the batch in a worker's memory | enqueue (in the caller's transaction), claim, deliver, mark, release | SMTP; shut down by `cli.rs` |
| Idempotency: `modules/outbox/idempotency`, `platform/http/idempotency` | `idempotency_records` | begin, complete, abandon, sweep | wraps the create handlers; swept by the outbox worker |
| Audit: `modules/audit` | `audit_events`, `audit_chain_head` | append (in every transaction), verify | every component: one advisory and row lock for all |
| Departments and client accounts: `modules/{departments,clients}` | their tables, memberships | create, update, archive, join/leave, add/activate/remove | projects refer to them; `principal.rs` counts the active ones; `users.security_version` |
| Projects and tasks: `modules/{projects,tasks}` | `projects`, members, shares, `tasks`, assignees | create, update, archive, add/remove members, share, open/edit/cancel a task, assign | departments and clients by foreign key; memberships confer scopes; `users.security_version` |
| Listings: `projects/visibility`, the `repo`s, `shared/pagination` | none of their own; a cursor in the client's hands | none: pages of a collection | authorization (the same decision, as a WHERE clause) |
| Settings, feature flags | `system_settings`, `feature_flags` | versioned update | registration mode |
| Rate limiter: `platform/http/rate_limit` | a map of token buckets in memory | check, reset, evict | login, MFA, registration, every request |
| Connection pool: `platform/database` | N connections | acquire, release | everybody |

What is hard, and what makes each component correct:

* **Sessions.** Several handlers work on one account at READ COMMITTED. A
  statement sees the committed state of its own instant; a row lock taken late
  shows a newer row than the statement before. Correct means: a token family
  never forks; a reuse kills it; a revocation is final whatever was running; no
  deadline passes the ceiling; the cap holds; a suspended account has no session.
* **Passwords.** Verification happens before the transaction. Correct means: a
  link works once; a new link kills older ones; sessions of an old password end.
* **Roles.** An actor decides on a snapshot of its authority. Correct means:
  authority goes back to the owner without ever widening; a client can detect a
  change by the security version; nobody holds a deleted role; edits are not lost.
* **Outbox.** Crashes between the mail and the database, leases, retries.
  Correct means: a row is in one batch until a lease is outlived; no mail is lost;
  a second copy has a cause.
* **Idempotency.** Retries race the request they repeat; requests are dropped at
  any await. Correct means: the work is done once, replays are true and agree,
  reservations end.
* **Audit.** Everybody appends; the actor's row is locked by the foreign key
  while an administrator may hold it. Correct means: the order of the chain is
  the order of commits; what is verified as intact is what was written; an
  untouched chain raises no alarm; every transaction ends.
* **MFA.** UPDATEs that wait look again at the rows they found and at no others.
  Correct means: a code is accepted once; nobody is enrolled without a factor;
  only a stepped-up session takes a factor away.
* **Accounts.** An invitation is read, waited for and decided upon with an
  authority read earlier. Correct means: one account for an invitation, none for
  a revoked one; a status change rests on the status its author saw; a place that
  an invitation names is decided on under that place's lock.
* **Departments, clients, projects, tasks.** Something is decided on one row and
  written to another. Correct means: nothing joins what is archived; no
  department is archived over live projects; a writer still has the authority at
  the write; no edit is lost; lock orders admit no cycle.
* **Listings.** The evaluator's decision is written a second time, in SQL, and
  read in pages while rows move. Correct means: a list shows what a GET would;
  what stays put is listed exactly once.

`PROJECT.json` lists every component with its status, and every hazard at the
line where it bites with the properties that cover it.

## 2. Modules

Common to the modules over database transactions (`Sessions`, `Credentials`,
`Roles`, `Projects`, `Organisation`, `AuditChain`, `Accounts`, `Mfa`): a
handler `w` has a record `tx[w]` (operation, statement it is at, what it has
read). Every statement that may wait for a lock is an action of its
own, in the order of the code; row locks are variables; writes become visible
at the commit, which is one action that also releases the locks. `Abort(w)` is
enabled at every statement: an error return, a deadlock victim, the
`statement_timeout`, a dropped request and a crash all look like this to the
database. `Projects`, `Organisation`, `Accounts` and `Mfa`, where all writes of a
request are its commit and nothing outlives it, have no such action: an aborted
request leaves the tables as if it had not been made, which the module allows as
well. Each request type a handler is sent is a constant
(`Serves`, `Sent`), so that an instance can divide the work.

### Sessions (with the abstract TokenFamily)

The sessions of one account. `sess` and `rt`/`rtExp` are the two tables;
`sLock`, `rtLock`, `userLock`, `userShare` and `headLock` the row locks (the
last one is the audit chain head, which an audited transaction takes and
keeps to its commit; it is taken after the rows it audits, except in a login
that evicts). The clock is explicit: deadlines are numbers.

| Action | Code |
|---|---|
| `LoginVerify`, `LoginCount`, `LoginOldest`, `LoginEvict*`, `LoginInsert`, `CommitLogin` | `login`, `issue_session`; KEY SHARE on the account by the foreign key |
| `RefreshBegin`, `RefreshLockToken`, `RefreshLockSession`, `RefreshRejected`, `RefreshRotate`, `CommitRotate` | `refresh`, `lock_refresh_token` (two row locks, re-evaluated), `rotate_access_token` |
| `RefreshFamily`, `RefreshFamilyLock`, `CommitReuse` | the reuse branch: `consume_family`, `revoke_session` |
| `RevokeBegin`, `RevokeStatement`, `RevokeNotFound`, `LogoutAllBegin`, `RevokeAll*`, `CommitRevoke` | `logout`, `revoke_own_session`, `logout_all` |
| `ChangeStatus*`, `CommitStatus` | `suspend`/`reactivate` of identity |

A refresh token is its session and generation; the access token is named by the
generation it was minted with. Operators of `sessions.rs` (`Surplus`, `Verdict`,
`NewRow`, `RotatedRow`, `RefreshExpiry`, `CanAdvance`) are pure functions.
`TokenFamily` says what rotation promises without transactions: open, exchange
for the one successor, close. `ImplementsFamily` is the refinement.

### Credentials

One account's password, sessions and reset links. A password is the number of
its change. `LoginVerify` and `ChangeVerify` read the hash on the pool,
`LoginCommit` and `ChangeCommit` act on it later. `ConfirmLock` is
`lock_reset_token`; `RequestConsume`/`RequestLock` are the UPDATE that consumes
live links, whose rows are found first and locked one by one.
Two history fields support the properties: `late` of a session (a change
committed between its verification and its insert) and `seen` of a link (those
issued when it was requested).

### Outbox (with the abstract Mailbox)

Workers, one per replica. Each statement is its own transaction and one step.
Time is kept as what *remains* (of a lease, of a delay, of the provider's
timeout), so that `Tick` needs no bound. Statements take no time; a delivery
takes up to `SendTime`, and nothing relates that to the lease: the defaults (60
s for a batch of 20, each up to 15 s) let it lapse under a worker. `Tick` counts
this in `overruns` (history), message by message; then a second worker may claim
the row, and whichever marks last is what the row says. `Claim` takes up to
`BatchSize` due rows and leases them together; `Attempt`/`Answer`/`Mark` go
through the batch one by one; `MarkError` and `Crash` are the faults, with an
answer that is lost; `Shutdown`, `Release` and `Stop` the orderly end, which is
no fault and pays for no duplicate; `Restart` follows either. `Mailbox` has no
workers: enqueue, reach, settle, fail, refuse; and what became late (`Overdue`)
may be given another outcome, by the mark of an attempt that should have ended
(`Open`).

### Idempotency

One key of one principal and operation. `Insert` is the INSERT that reserves it,
`Select` the second statement of `begin` after a conflict (with its one retry
when the record is gone), `Work` the guarded handler (commits, fails, or commits
without an answer), `Complete`, `CompleteFails`, `Abandon`, `Drop` (timeout layer
or client gone, anywhere), `Sweep`.

### Roles

Roles, assignments, overrides. `Authenticate` reads the security version and
`LoadActor` later the grants, both on the pool; the request then decides on that
snapshot. `LockForEdit`, `ReadHolders`, `BumpHolder`, `CommitEdit` are
`update_role` (`rename` is the request that leaves the contents alone);
`LockForDelete`/`CommitDelete` are `delete_role`; `LockSubject`, `ReadRole`,
`InsertAssignment`, `CommitAssign`, `CommitUnassign`, `CommitOverride`,
`CommitLift` the operations on users. `EffectiveScopes`, `Derivable`,
`MayGrant`, `MayAuthor`, `MayAlter`, `MayTarget` are `evaluator.rs` and
`delegation.rs`. `origin` (history) holds the grants that were seeded or made
by the owner. A RESOURCE scope is named by its user; an override's expiry is
the action `Expire`.

### Projects

Projects with members and shares, tasks with assignees. `Arrive` is the request
with what its client has seen; `LockProject`, `LockProjectToWrite`, `LockTask`
and `LockUser` are the `FOR UPDATE` statements in the order of the code (a task
before its project, a user after both); `Decide`/`Refuse` the checks made under
them (`UpdateAllowed` ... `AssignAllowed`, and `May`, the evaluator over the
memberships); then one writing action per operation (`Create`, `Update`,
`Archive`, `AddMember`, ..., `UnassignTask`). `ProjectMayBecome`,
`TaskMayBecome`, `ProjectBecomes` and `TaskBecomes` are the transition tables
and derived timestamps of `dto.rs`. A status is optional in a PATCH (`Unsaid`,
`NextStatus`), and one without it is not asked about the status: an archived project
may still be renamed, moved to another department and given a new version, so what
its archiving settles is its status, its dates, its members, its clients and its
tasks (`ArchivedGainsNothing`). `AccountArchived` is the client account
that is archived beside (sharing reads its status and does not lock it). The history field
`saw` of a request is the row its client had when it asked.

### Organisation

Departments and client accounts are *units* with a status and a version;
`staff` the members of a department, `tie` the memberships of an account
(`PENDING`, `ACTIVE`, `REMOVED`). `unitLock` is `FOR UPDATE`, `unitShare` the
`KEY SHARE` that inserting or moving a project takes through its foreign key
(`ReferToUnit`), which excludes the lock but does not look at the status.
`ArchiveDepartment` counts the live projects under its lock.

An invitation may name a unit: `Invite` is its creation under the unit's lock
(`authorize_placement`), `WithdrawInvitation` its revocation or expiry,
`LockInvitation`, `RefuseInvitation`, `InsertInvitee` and `AcceptInvitation` the
acceptance, which makes an account (`known`) and an ACTIVE membership. Its foreign
key waits for a lock on the unit and then asks nothing of it. `ArchivedGainsNobody`
therefore leaves out those who were invited while the unit was active, and says that
nobody more is invited; that they come in at all is a finding (`placement_late`).

### AuditChain

`rows` and `head`; `LockHead` is `lock_audit_chain` with the head's row,
`InsertEntry` an entry with the `KEY SHARE` on the acting user, `LockSubject` the
`FOR UPDATE` of an administrator's transaction. The two waits can form a cycle;
`BreakDeadlock` is PostgreSQL ending one of its transactions. `StartCheck`,
`CheckHead`, `CheckBefore`, `CheckRows`, `EndCheck` are the statements of the two
verifications (`cli.rs verify-audit` reads rows, then head; the endpoint the
head, the entry before the window, then the window); `VerifyRun` and `Fault` are
`chain.rs`. `Damage` is somebody at the database: entries lost, altered or
exchanged. A digest is the sequence of what it is computed over, which is
injective and cannot be made without the key. `written` (history) is what was
appended, in the order of commits.

### Accounts

Accounts with address, status and version; invitations with status and inviter;
the registration mode. `LockBootstrap`/`CreateRoot` are the owner's bootstrap
under its advisory lock, `FindEmail`/`CreateInvitation` and
`LockInvitation`/`RevokeInvitation` the inviter's side, `ReadAuthority`,
`LockForAcceptance`, `CheckInviter`, `AcceptInvitation` the acceptance in its
four stages, `ReadMode`/`Register` self-registration, `LockUser`,
`UpdateProfile`, `ChangeStatus` the administrator's. `Lapse` is the expiry of an
invitation, `MoveAuthority` a change of the set `able` of accounts that could
confer what invitations confer (Roles has what authority is). History fields of
an acceptance: `could` (who was able at some moment since it was asked for),
`active` (who was ACTIVE at some moment while it held the lock); of a status
change: `seen` (the status its author had).

### Reading

One kind of collection at a time (projects, tasks, departments, client accounts,
users, the two of the portal, roles, invitations, audit events), the permission
to read it as allowed and denied scopes, and the rows with what the scopes look
at. `Covers`/`May` are `evaluator.rs`; `ScopeFilter`, `DepartmentFilter`,
`ClientFilter`, `UserFilter`, `ListPortalProjects`, `ListPortalTasks` the WHERE
clauses. A reader asks (`Ask`), and each `Page` authenticates and then reads
`limit + 1` rows beyond the cursor; `Insert`, `Edit`, `Rehome`, `Remove`,
`Relate`, `Archive`, `Reveal`, `Authorise`, `AuthoriseParent` happen beside it. The
tasks of a portal project are listed with two permissions: their own, and the one to
read that project (`parentAllows`, `parentDenies`; `ClientGetsProject`), which a GET of
one task does not ask for. Time of a row is a
number and its id breaks ties. History: `still` are the records whose sort key
has not changed since the first page was asked for, `steady` those that were
visible all the while, too. `Differs` names the four places in which the two
decisions are known to disagree; everywhere else they must agree. Three contradict a
comment (section 5). The fourth is this second permission: a client who holds
`client.portal.tasks.read` and is denied `client.portal.projects.read`, or lacks it,
gets a task whose listing is a 404. The comment at tasks/service.rs:734-737 wants the
project to be visible first, so that is deliberate and no finding.

### Mfa

Factors with status and watermark, batches of recovery codes, the flags of the
account, the level of the sessions. A statement that updates rows is `Wait`
(which keeps the rows found, `snapshot`) or the step itself, over the rows that
were found and still qualify (`Rows`). `CheckNoneActive`, `DropLive`,
`DropPending`, `InsertPending` are `totp_setup`; `LockFactor` and `JudgeCode` the
verification of a code under the factor's lock; `Spend`, `ConsumeCode`,
`ConsumeBatch`, `RetireFactors` the updates; `CommitActivate` ...
`CommitDisable` the commits with what they write last. `Login`, `Revoke`,
`StepUpLapses`, `Mandate`, `Tick` are the rest of the system. The code of a
factor at a step is the pair of them. `uses` (history) counts acceptances.

### MC and proof modules

`MC<Module>` declares the model values and the instance's definitions.
`<Module>_proofs` extends the module and TLAPS; `Outbox_proofs` also has the
proofs about `Idempotency` and `Mfa`, and `Reading_proofs` those about
`AuditChain`. These three name their specification `KeySpec`, `MfaSpec` and
`LogSpec` (and `Init`, `Next` and the invariant accordingly), so that a proof
module can extend two of them. The operators marked *Slip* are
what the code would be with a plausible mistake; each property of a passing run
is violated once its slip is put in the place of the definition (`mutants` in
`PROJECT.json`).

## 3. Runs

| Run | Shows | States | Time |
|---|---|---|---|
| `family` | one handler signs in and refreshes, the other refreshes, revokes, logs out, suspends and reactivates; two sessions under a cap of one, generations to 2: the family never forks, reuse kills it, revocation is final, deadlines stay under the ceiling, the cap holds while logins do not overlap, a suspension leaves no live session, `TokenFamily` is implemented | 1.7 M | 2 min |
| `outbox` | two workers, two messages, batches of two, two attempts, one fault, one shutdown, a lease of 2 for a batch of two deliveries of up to 1, so that it may lapse under a worker: shared rows and duplicates only for a cause, every message settles, `Mailbox` is implemented | 0.28 M | 50 s |
| `idempotency` | three tries and one other body under a key, one failure, one sweep: the work is done once, replays are true and agree, no reservation lasts | 0.36 M | 35 s |
| `credentials` | three handlers, two sessions, three links, two changes: links work once, new ones kill older ones, only overlapping logins survive a change | 1.6 M | 2.5 min |
| `roles` | the owner, a delegate with a built-in role and a third user; a custom role that is created, edited, renamed, deleted, assigned; overrides and their expiry | 1.1 M | 1.9 min |
| `projects` | a manager and a member of one department; two projects, two tasks, three requests of eleven kinds: an archived project keeps its status and dates and nothing joins it, writers have authority at the write, edits replace what was seen, every request ends | 0.44 M | 2.2 min |
| `organisation` | one account, two departments, two projects, an internal and an external user and one of each who is yet to be invited, six requests: no department is archived over live projects, archived units gain nobody who was not invited before | 1.5 M | 1.2 min |
| `accounts` | four accounts, one invitation, three addresses, three requests, one change of authority: one account for an invitation, on recent authority, status changes rest on what was seen | 0.6 M | 35 s |
| `reading` | ten collections, three records, pages of one and two, two changes beside the reader, every single scope and every change of one, of either portal permission: the listing agrees with GET, steady rows are listed once | 2.0 M | 1.9 min |
| `audit` | two administrators' transactions, one accident, one verification of either kind and any window: intact means whole, alarms are real, every transaction ends | 78 k | 22 s |
| `audit_alarm` | *violation*: nobody touched the log, and a verification beside an append fails | | s |
| `mfa` | two handlers, one session, two factors, three batches, four requests, two steps of the clock: codes work once, enrolment has its factor, active factors go only by a disablement | 1.2 M | 1.9 min |

The runs leave the type and inductive invariants out: TLAPS proves them for all
instances (section 4), and a run may list them to see them hold in one.

Why the bounds are enough for what is asked. *family*: a fork or a resurrection
needs two writers on one session and a third statement that ends it; three
generations let a token be stale by two; a login evicts and inserts with one live
session and a cap of one. Access deadlines are reached; the idle deadline does not,
because a refresh whose clock is older than the login's makes a session live
again that the login did not count (hazard list; `NoLateRefresh`, the condition
under which the cap is proved). *credentials*: a link, the one
that kills it, and one that overlaps. *roles*: with two handlers every pair of
operations overlaps; grants and edits stop at security version 2 (taking a grant
back goes one further) and role versions at 3, which a stale actor and an edit of
an edit need. *outbox*: two workers race for two rows; budgets of two distinguish
the last attempt from the others; the lease lapses exactly when both deliveries take
their full time, so both cases occur. *idempotency*: three equal requests have one at
work, one that lost the INSERT and one that arrives after a release. *projects*:
two requests overlap and the third, before or after, changes what they decided
on. *organisation*: six requests create a unit, fill it, begin a project in it,
archive it and try again, or invite somebody into
it, archive it and accept. *accounts*: an acceptance overlaps a revocation, another
acceptance, a suspension of the inviter or a change of authority, and the third
request made the invitation. *reading*: two changes move the boundary of a page
and a row across it; two of the records have equal times. *audit*: two writers
and one reader are what its statements can interleave; the accident comes before,
between or after them. *mfa*: a batch, its successor and the one that overlaps;
a setup over an active factor and one over a pending one; a code at its step and
at the next.

Symmetry: the handlers that are sent the same operations, in `credentials` (with
sessions and links), `roles`, `organisation` and `mfa` (with factors and
batches); none of these has a liveness property. Deadlock is checked in
`family`, `outbox`, `credentials` and `roles`, where an idle handler can always
start, abort or age. The others stop: their requests are bounded and end.

**Fairness.** `Outbox!FairSpec`: weak fairness of each worker's own steps and of
`Tick`. `run` polls for ever, logs errors and goes round again; `cli.rs` and the
supervisor restart a replica; a delivery ends at the provider's timeout; time
passes. Faults and shutdowns are not fair, and bounded by `MaxFaults` and
`MaxShutdowns`: a worker that crashes for ever before it marks delivers nothing.
Overruns are not bounded, and `Settles` holds over them.
`Idempotency!KeyFairSpec`: a request is driven to its end or dropped (the 30 s
timeout layer), and the outbox worker sweeps. `Projects!FairSpec` and
`AuditChain!LogFairSpec`: weak fairness of each handler's next statement. A
statement that is not blocked returns, and a transaction that holds a lock goes
on; nothing else may be starved for ever, as requests are finitely many.
`Projects` needs no more, so the property says that its lock order is free of
cycles. `AuditChain` also has weak fairness of `BreakDeadlock`: its cycle is
real, and PostgreSQL's `deadlock_timeout` ends it. No fairness is assumed of the
other modules: where their waits are ended by the detector and
`statement_timeout`, a liveness property would be one of `Abort`.

**Divergences reproduced by hand.** Seven configurations are not among the runs.
Each stops at the counterexample of one finding of `PROJECT.json`, and is run
with `tlc -config <cfg> <module>.tla`:

| Configuration | Module | Violated | What happens |
|---|---|---|---|
| `cap_race` | `MCSessions` | `SessionCapHolds` | two logins overlap, the cap is exceeded |
| `suspend_race` | `MCSessions` | `SuspendedHasNoLiveSession` | a login straddles a suspension |
| `reset_race` | `MCCredentials` | `NoSupersededSession` | a login straddles a reset |
| `roles_mfa` | `MCRoles` | `DangerousHoldersMustEnrol` | a held role becomes dangerous, nobody mandates MFA |
| `outbox_lease` | `MCOutbox` | `ClaimsAreExclusive` | two deliveries of 2 in a lease of 3, no fault: a row in two batches |
| `placement_late` | `MCOrganisation` | `ArchivedIsReadOnly` | an invitation into a department is accepted after the department was archived |
| `idempotency_error` | `MCIdempotency` | `NoFailureAfterTheWork` | `complete` fails and the client is told 500 |

Further properties that the code does not keep are stated in their modules, each
with the finding it belongs to, and can be put in the place of a run's own:
`RolesListedOnce` and `NothingListedTwice` (`reading`), `VersionTellsReach`
(`organisation`), `AcceptedOnAuthorityOfThen` (`accounts`), `OneLiveBatch`,
`CodesDieWithTheFactor` and `MandateHolds` (`mfa`).

## 4. Proofs

Every theorem holds for all values of the constants under the `ASSUME`s of the
module, which say that the sets and bounds are what their names say. The
argument is the same in each module: an inductive invariant `IndInv`, proved by
one lemma per action, of which the properties are conjuncts or consequences.

* **Sessions_proofs.** `IndInv` = types, `TxInv` (a handler between
  `lock_refresh_token` and its commit holds both rows, and they are as it read
  them; every row it is going to revoke is locked and live) and `TableInv`
  (generations above the live one do not exist; the stored access token belongs
  to the live generation; a reused family is dead). It is needed because
  `OneLiveGeneration` is not inductive: without the locks a second handler
  could be past the check. Proved from it: `TypeCorrect`, `NoSecondChain`,
  `ReuseKillsFamily`, `PairMintedTogether`, `RevocationFinal` (an action
  property), `CeilingNeverExtended` (with an invariant of its own) and the
  refinement `FamilyImplemented`: every commit maps to one step of
  `TokenFamily`, everything else to a stutter.
  The cap needs two conditions, which behaviours of the code may break:
  `CapHoldsApart` is about those in which the account's logins do not overlap
  (`LoginsApart`; `cap_race` shows what happens otherwise) and no session lapses
  while its refresh commits (`NoLateRefresh`). Its invariant `CapInv` counts: a
  login at work (`RoomMade`) has left out enough of the sessions that were live
  when it counted, and `OnlyLoginsAdd` says that nothing else adds to the
  sessions live at an instant that has passed, so that revocations and refreshes
  between its statements only leave more room.
  `SuspensionIsComplete` is an action property: a suspension commits over no live
  session. `SuspendInv` is the reason: from its lock of the account to its commit
  every live session is on its list or locked by it, for the foreign key makes an
  insert wait, and nothing but a login opens a session (`OnlyLoginsOpen`).
  `SuspendedStaysOut` concludes that a login under way when the suspension commits
  (`NoLoginStraddles` excludes it, `suspend_race` shows it) is the only way to a
  live session of a suspended account.
* **Credentials_proofs.** `IndInv` says that a confirming handler holds the lock
  of the link it will consume, a changing one the row of the password, and that
  past its revocations every live session is on its list or overlapped it.
  Theorems `ResetOnce`, `LinksOverlap`, `ChangeEvicts`.
* **Roles_proofs.** `IndInv`: who edits or deletes holds the role's lock and
  the role is live; the holders of an edited role are listed or bumped; who adds
  an assignment shares the role's row; what a request saw of a role is what it
  still says while the versions agree. `DelegationNeverWidens` rests on two facts
  about `Derivable` (what is handed on from a derived grant is derived from the
  same origin, and an actor's snapshot was derived when it was read, and `origin`
  only grows). `VersionTellsStaleness`, `DeletedRolesAreUnheld`, `NoLostEdit`.
* **Outbox_proofs.** No assumption relates lease, batch and timeout. `IndInv` says
  that a claim which has not been outlived is as its worker took it (`Covered`: the
  row is pending and leased for at least what the worker still needs, less what a
  batch may need beyond a lease), that a row in two batches has been outlived, and
  that only a batch whose deliveries may take as long as a lease is. From it:
  `TypeCorrect`; `ExclusiveUntilOverrun`, a claim is exclusive up to the first lease
  that lapses under its worker, whatever crashes and is retried;
  `OnlyLongBatchesOverrun`, which is the condition a deployment needs and the
  defaults do not meet (`outbox_lease`); `MailboxImplemented`, the refinement of
  `Mailbox`, where outcomes are final up to the same moment and nothing is called
  sent that was not accepted even after it; and `DuplicatesArePaidFor`, which counts
  faults and overruns against acceptances, with an invariant of its own.
* **Outbox_proofs, on Idempotency.** `KeyIndInv`: a request at work is the one the record
  names; a "created" was told about committed work of the same body.
  `WorkDoneOnce`, `ReplayIsTrue`, `AnswersAgree`.
* **Organisation_proofs.** `IndInv`: who is past its lock holds the unit's row
  (or shares it), what it decided under the lock is still so, and no project
  appears in a department that is held. `ArchivedWhenEmpty` follows because the
  count was made under a lock that excludes every reference; an acceptance past its
  checks holds its invitation, which is still PENDING, and that is all that
  `ArchivedGainsNobody` lets in. Theorems `NothingOrphaned`, `NobodyGained`,
  `OrganisationTypes`.
* **Accounts_proofs.** `OneAccountPerInvitation` is not inductive: an acceptance
  past its checks must know that the invitation is locked by it, is still
  PENDING, and has no account. `IndInv` says so (`AcceptOK`, `HeldOK`), with the
  uniqueness of addresses (`RowsOK`). Each step is split in what it does to the
  tables (lemmas on inserting, editing and settling a row) and in what it leaves
  to every other handler (`Keeps`), which is the same small statement for all of
  them. Theorems `OneAccount`, `RecentAuthority`, `WhatWasSeen`, `AccountsTypes`.
* **Reading_proofs.** `Agreement` needs no behaviour: for every actor, every kind
  and any sound tables the WHERE clause shows a row exactly if the evaluator
  would return it, outside `Differs`; one lemma per listing. `TablesAreSound` is
  the invariant it rests on, and `ListingsAgree` joins the two.
  `NothingSkippedOrRepeated` is about the pages: keys are totally ordered, so the
  first `n` of a finite set are closed downwards and end at the last of them
  (`LastPage`, `PageEnds`, by the cardinality of what comes before a record), and
  the invariant `PagesOK` says that what has not moved was returned exactly if it
  does not lie past the cursor.
* **Projects_proofs.** `IndInv`: a handler holds the rows it has locked so far
  (`LocksOK`); what it has decided on is still so at the write (`DecidedOK`); a
  row with the version its client saw is the row he saw (`SeenOK`); archived and
  finished rows have their timestamps and a task has its project (`RowsOK`).
  `DecidedOK` is the delicate part: the decision is made on a project and its
  members, on a task and its assignees, and other handlers change all of these.
  It is preserved because every such change needs the lock of the project or the
  task that the decision holds. Theorems `WorkInvariant`, `NothingJoinsTheArchive`,
  `AuthorityAtTheWrite`, `NoBlindWrite`; the last three are action properties, of
  any number of handlers, projects, tasks, users and requests.
* **Reading_proofs, on AuditChain.** `ChainIndInv`: the log that was written is
  linked and the head names its end (`LogOK`), only the holder of the head has
  entries and they follow it (`TxOK`), and what a verification has read fits
  (`CheckOK`). `IntactLogIsWhole` says that a run found intact is a stretch of
  what was written. An induction over the run would be out of reach; instead the
  least entry at fault is looked at: its digest is one of a written entry, and
  what the digest was computed over contradicts the fault
  (`IntactRunIsWritten`, `NumberedInOrder`). `AlarmsHaveACause` is the other
  direction: without damage every statement reads a prefix of the log, however
  many appends lie between, so nothing but the comparison with the head can fail
  (`audit_alarm` shows that this one does). `ChainInvariant` is the invariant.
* **Outbox_proofs, on Mfa.** `CodesWorkOnce` is not inductive: a verification past
  its check must know that the factor is locked by it, still has its status and a
  watermark below the step (`CallerOK`), that there is one live factor at most
  (`FactorsOK`), and that what was accepted is behind the watermark or consumed
  (`UsesOK`). `MfaIndInv` joins these with `EnrolledHasFactor`. Theorems
  `MfaInvariant`, `OneUsePerCode`, `NobodyLockedOut` and `OnlyDisablementRemoves`
  (an action property). `MfaAssumption` says that the names of codes and of
  factors differ, as the two tables do.

## 5. Where code and documents disagree

Every finding of `PROJECT.json` quotes the sentence it disagrees with. One has a
run (`audit_alarm`), seven a configuration (section 3); of the others the module
named here states what does hold next to it.

| Said | Done | Where |
|---|---|---|
| the cap holds after the insert | two logins may each see room | `cap_race`; `SessionCapHolds` when they do not overlap |
| suspension and reset end every session | a login that verified before inserts after | `suspend_race`, `reset_race`; `SuspensionLeavesNothing`, `SupersededSessionsAreOut` |
| the claim is exclusive | a batch may outlast its lease, and a late mark overwrites the row by its id | `outbox_lease`; `SharedOnlyAfterOverrun`, `OnlyLongBatchesOverrun`, `Mailbox` |
| an archived unit is read-only; placement cannot go stale | an acceptance asks neither the unit nor the inviter's placement permission again | `placement_late`; `ArchivedGainsNobody` for everybody else |
| a failing `complete` is not the client's failure | it is answered as 500 | `idempotency_error` |
| a dangerous permission mandates MFA | editing a held role does not look | `roles_mfa` |
| nobody modifies its own privileges | a holder may edit a custom role it holds | `Roles` |
| changed authority shows in the security version | an override's expiry, and archiving a department or an account, leave it | `AuthorityIsCurrent` with its exception; `VersionTellsReach` |
| one live reset link | overlapping requests leave two | `NewLinkKillsOlder` |
| no second connection inside a transaction | `load_locked_subject` and two department operations take one | no module: it follows from the calls |
| a failing `verify-audit` is tampering | rows and head are two statements; an append between them fails it | `audit_alarm`; `AlarmsAreReal` |
| the role listing cannot skip or repeat | its boundary is read again from the row of the cursor, which moves or goes | `RolesListedOnce` |
| a mutable sort column skips and repeats, so none is used | projects, tasks and users sort by `updated_at` | `NothingListedTwice`; `SteadyRowsListedOnce` |
| a listing is the evaluator's decision | ASSIGNED on archived departments, DEPARTMENT on users, narrow scopes and denials in the portal | `Differs` of `Reading`; `ListAgreesWithGet` elsewhere |
| archiving a department orphans no work | a project can be begun in, or moved to, one that is archived | `ArchivedWhenEmpty` at the archiving |
| an acceptance is checked against authority as it stands then | the authority is read before the transaction | `AcceptedOnAuthorityOfThen`; `AcceptedOnRecentAuthority` |
| a new batch of codes invalidates the last; none outlives its factor; a mandated factor cannot be disabled | regenerations overlap; a batch is inserted after a disablement; the mandate is the principal's | `OneLiveBatch`, `CodesDieWithTheFactor`, `MandateHolds` |

## 6. Limits

* **Only model-checked:** the liveness properties `Settles`,
  `NotReservedForEver` and the two `EveryRequestEnds` (liveness under fairness is
  out of the prover's reach). Every safety and action property of a passing run
  has a theorem; `SessionCapHolds` under `LoginsApart` and `NoLateRefresh`, both of
  which the run `family` meets by its instance.
* **Sessions:** MFA columns (in `Mfa`), `last_seen_at`, the archive transition
  (which revokes as a suspension does) and the password change (in `Credentials`)
  are left out.
* **Credentials:** expiry of links and the account's status only refuse more.
* **Roles:** the principal-type envelope, the step-up window and archived
  subjects only refuse more, so what holds without them holds with them;
  department and client memberships decide what a scope reaches, not which
  scopes are held.
* **Outbox:** statements take no time, so `BatchSize * SendTime < LeaseTime` is the
  least a deployment has to satisfy for exclusive claims.
* **Accounts:** what an invitation confers is one thing that its inviter can or
  cannot confer. The membership in a department or client account given at the
  acceptance is in `Organisation`; the roles given there are in no other module
  (`Roles` has the assignments of its own operations). The triggers that protect
  the owner only refuse.
* **Organisation:** of an invitation it has the unit, the addressee and the status;
  inviter, roles and expiry are in `Accounts`.
* **Projects:** an archived project remains editable by a PATCH that names no status
  (projects/service.rs:437-438). The test `archive_is_terminal`
  (tests/integration/projects.rs:370) claims only that nothing leaves ARCHIVED, so it
  is not listed as a divergence.
* **Organisation, Projects:** authorisation and the second factor of the first
  only refuse; of the second, denials of a permission are in `Reading`. A task's
  dates, texts and priority are written like its status.
* **Reading:** free-text and column filters a caller adds, which only narrow; the
  encoding of a cursor, which is opaque.
* **Mfa:** secrets and their sealing; rate limits, which only refuse.

**Not modelled**, and why:

* *Rate limiter.* A sequential function of one table under one mutex, over
  floating-point token counts: nothing interleaves with it and its arithmetic is
  outside TLC. What reading it showed: the second stage of `evict_if_needed`
  measures every bucket with the quota of the caller. Everywhere else a limit only
  refuses.
* *Connection pool.* A transaction has its connection or waits. The one behaviour
  that matters, a handler that asks for a second one while it holds the first, is
  a counting argument and listed as a finding.
* *Cryptography.* Tokens are the identities of what they were issued for, digests
  are injective.
* *Routing, errors, validation; observability, configuration, health.* Stateless,
  or counters nothing depends on. Validation refuses requests, and the modules
  enumerate those that pass it.
* *Other settings and feature flags.* Nothing that the modules have reads them
  between two steps; `registration.mode` is in `Accounts`.

## 7. Plan

Done, in this order: `Sessions` with `TokenFamily`, `Outbox` with `Mailbox`,
`Idempotency`, `Credentials`, `Roles`, `Projects`, `Organisation`, `AuditChain`,
`Accounts`, `Reading`, `Mfa`, and the proofs of all of them.

What is left, in the order of its worth:

1. What holds next to the divergences, as theorems with their condition, like
   `CapHoldsApart` and `SuspendedStaysOut`: one live batch of codes if
   regenerations do not overlap, no code without a factor if none straddles the
   disablement.
2. An abstract specification of the audit log (append only, in the order of
   commits) that `AuditChain` implements without damage.
3. Composition of `Sessions` with `Mfa` (the pending login that a verification
   completes), and of `Accounts` with `Roles` at the acceptance.
