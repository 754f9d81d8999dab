# Verification of the ComplicatedAuth backend

TLA+ models of the ComplicatedAuth backend (Go, PostgreSQL), the TLC runs that
check them on small instances, and TLAPS proofs of the core safety properties.
`PROJECT.json` has the machine-readable version of what is below: components,
runs, the lines of source each definition stands for, hazards, findings,
theorems.

## The system

One Go service, any number of replicas, one PostgreSQL database. There is no
state in the processes that matters after a crash: everything is rows, and every
interaction between requests, workers and replicas goes through them. The hard
part is therefore what happens **between two statements** of a handler, and what
a row lock, a version, a lease or a single-row `UPDATE ... WHERE` protects.

| Component | Source (under `src/`) | State | Operations | Talks to |
|---|---|---|---|---|
| Background jobs | `internal/store/background_jobs.go`, `internal/api/background_jobs.go`, `cmd/jobctl` | rows of `background_jobs`: status, attempts, availability, lease | enqueue, Claim, Complete, Retry, Reschedule, Replay, cleanup; the worker loop over its queues | every enqueuer and handler |
| Idempotency records | `internal/store/idempotency.go`, `internal/api/idempotency_http.go` | `idempotency_records`: hash, lease, response, expiry | Begin, Complete/CompleteTx, DeleteExpired | every mutation with an Idempotency-Key |
| Support cases | `internal/api/support_case*.go`, `external_integrations.go` | case, messages, attachments, references, version, retention | create, submit, PATCH with If-Match, append, attach, reference, purge | jobs, idempotency |
| Tenant Member authentication and recovery | `tenant_member_webauthn.go`, `tenant_member_recovery.go`, session middleware of `server.go` | attempts, ceremonies, credentials, sessions, one-time proofs | start, verify password, begin/finish login and enrolment, delete, logout, reset | membership, OAuth, email |
| Membership, invitations | `tenant_members.go` | members, roles, invitations | update, remove, invite, accept | authentication, idempotency |
| OAuth authorization server | `oauth_authorization.go` | requests, codes, tokens, consents | authorize, decide, exchange, revoke | membership, registry, keys |
| OAuth registry | `oauth_applications.go`, `authorization_resources.go`, `authorization_decisions.go` | versioned rows, client secrets, `policy_version` | create, change, delete, decide | OAuth |
| Signing keys | `oauth_signing.go`, `internal/auth/keyring.go` | keys with their status and end of publication | rotate at start-up, sign, publish | OAuth |
| Projects | `projects.go` | RP ID and its lock, Origins, status | create, change, add/delete Origin | login |
| Project User login | `login_flow.go`, `fido_flow.go`, `users.go` | attempts, factors, ceremonies, credentials, sessions | start, verify factors, enrol, complete | rate limiter, biometrics |
| Biometrics | `biometrics.go`, `biometric_provider.go` | row and the provider's template | enrol, delete, verify | the provider |
| Service accounts, external credentials | `service_accounts.go`, `external_credentials.go` | accounts, credentials | issue, revoke, disable | idempotency |
| Rate limiter | `internal/store/rate_limits.go` | fixed-window buckets | Take, Reset, DeleteExpired | all public endpoints |
| Email delivery | `email_delivery.go` | `email_deliveries` | schedule, deliver | jobs, SMTP |
| Maintenance | `maintenance.go` | none of its own | bounded deletions, comes back | jobs, all tables |
| Lists | `pagination.go` and the list handlers | the client's cursor | sixteen lists, page by page | all tables |
| Migrations | `internal/store/migrations.go` | applied versions and checksums | Migrate | start-up |

Files without a directory are in `internal/api`.

What is hard to test, and what makes each component correct:

* **Jobs.** Two workers and one row; a worker that outlives its lease and reports
  late; a job re-armed or replayed while it runs; a process that dies on the last
  attempt; a queue that hides another. Correct when at most one worker can report
  on a job, an unexpired lease is respected, the attempt budget holds on every
  path, and no job starves.
* **Idempotency.** A handler that outlives its lease while a retry reclaims the
  key; a response lost after the commit; expiry and cleanup. Correct when a
  committed mutation is exactly what a retry replays.
* **Handlers of jobs.** A case closed, reopened and closed again while the purge job
  of the first close runs; a mail accepted and the answer lost; a batch that was full
  in the third of sixteen statements. Correct when a closed case always has its job
  and is purged only after a whole retention in one piece, a duplicate mail has a cause,
  a backlog brings the next run forward, and each drains in the end.
* **Authentication, of members and of Project Users.** Handlers read, consume a
  ceremony and write in separate steps, and a reset or another request fits in
  between. Correct when one attempt gives one session, from a ceremony of its own,
  assurance follows credentials, and the last credential stays.
* **Membership.** Requests authorised with a role that has changed since. Correct
  when an active owner remains and only owners change owners.
* **OAuth.** A decision and an exchange that wait for a reset; rotations by replicas
  with clocks that differ; edits from stale views. Correct when a code gives one
  token, no token outlives the reset that should have revoked it, a token can be
  verified until it expires, no update is lost, and a decision is never labelled with
  a policy newer than what it read.
* **Projects, biometrics, service accounts, case limits.** Values read before they are
  used, two systems changed by separate calls, counts under one lock of several.
* **Rate limits, lists, migrations.** Edges of windows, equal instants, releases that
  start together.

## Modules

| Module | What it models |
|---|---|
| `BackgroundJobs` | the job table, the worker loop, operators, cleanup |
| `Idempotency` | the records, the callers with their retries, cleanup |
| `SupportCases`, `EmailDelivery`, `Maintenance` | the three handlers of jobs with what they work on, each composed with `BackgroundJobs` |
| `CaseIntake` | opening cases against the tenant's limit |
| `TenantMemberAuth` | one member's login, enrolment, sessions, recovery |
| `TenantMembership` | the members and invitations of a tenant |
| `OAuthAuthorization` | requests, decisions, codes, exchanges, tokens, resets |
| `OAuthRegistry` | applications, secrets, resource servers, scopes, grants, decisions |
| `SigningKeys` | rotation, signing, publication, the key ring |
| `ProjectConfig` | RP ID, its lock, Origins |
| `ProjectUserLogin` | attempts, factors, ceremonies, enrolment, sessions of a Project User |
| `Biometrics` | facial enrolment against the provider |
| `ServiceCredentials` | service accounts and both kinds of credentials |
| `RateLimiter` | Take, Reset and the deletion of buckets |
| `Migrations` | start-up migrations by replicas of different releases |
| `ListPaging` | the lists, their cursors, rows that change between pages |
| `BackgroundJobsProofs`, `HandlersProofs`, `StoresProofs`, `TenantMembershipProofs`, `TenantMemberAuthProofs`, `OAuthProofs`, `SigningKeysProofs`, `TenantProofs` | inductive invariants and theorems |
| `MC...` | instances for TLC |

Definitions whose comment says *Faulty variant* (and, in `TenantMemberAuth`, those
named `...Unchecked`, `SessionsKept`, `SetStatusDropsCredentials`) are not used by
the specifications. Each is what a plausible mistake in the code would make of the
definition after it; substituting it must violate the property `PROJECT.json`
names, which shows that the property depends on that line of the code.

### Conventions

* An action is one transaction, one autocommitted statement, or one step of a
  process between two of them. Row locks taken by a transaction
  (`FOR UPDATE`, or the share lock of a foreign key) are why it is one action; where
  a transaction reads without a lock and another can commit before it writes, it is
  several, and the handler has a `pc`.
* Times are distances to the database clock (`wait`, `ttl`, `exp`, `retention`),
  cut off at 0; `Tick` shortens them all. `SigningKeys` and `RateLimiter`, whose
  properties are about instants, count them.
* A `WITH x AS (SELECT ... LIMIT n) DELETE ... USING x` is **two** actions: under READ
  COMMITTED PostgreSQL evaluates `x` on the statement's snapshot, and when the DELETE
  meets a row changed since, it re-checks the join condition against the new row
  version, not the predicate inside `x`.
* A request may end at any point (`Abandon`, `Rollback`): the connection is lost, the
  process dies, the database aborts a deadlock.
* Identities of rows are given out once, except where nothing refers to a row any more.
  Those of templates are the provider's choice, which may repeat itself.

### BackgroundJobs

`job[j]` is the row of job `j` (identified by queue and deduplication key, as the
unique index does), `worker[w]` the local variables of `runBackgroundJobWorker`,
`cursor[w]` its queue rotation, `ahead` the order by `available_at` that `Claim` uses.
`ClaimJob` is the whole of `Claim`: it dead-letters an abandoned last attempt, then
takes the first row that is pending or whose lease ran out; SKIP LOCKED may make
it pass over rows another transaction holds. `HandlerReturns` is any outcome of a
handler; `Complete`, `Retry` and `Reschedule` are fenced by the lease and do nothing
when it is lost. `Schedule` covers both enqueuers (ON CONFLICT DO NOTHING, and the
re-arming DO UPDATE of support cases), `Replay` is `jobctl replay`, `Crash` and
`ClaimFails` are the process and the database going away. The backoff is that of
`backgroundJobRetryDelay`, with its jitter as a choice; a tick stands for its second,
and leases and delays of other jobs are scaled down to a few ticks, which keeps every
order in which deadlines can pass.

### Idempotency

`rec[k]` is the record of a key (tenant, operation and key together), `req[c]` a
caller with its request. `Begin` has its four results (claim or reclaim, conflict,
replay, in progress); `Commit` is `CompleteTx` in the same transaction as the mutation;
`CommitLost` is the handler that lost its lease and rolls back. `effects[k]` is history:
the mutations of a key that committed and are within their retention. `lost` marks keys
whose completed record a cleanup removed too early (see Findings), so that the other
properties are stated of the rest.

### SupportCases, EmailDelivery, Maintenance

Each has `INSTANCE BackgroundJobs` for the job side, and each handler's transaction
changes its own rows and the job in one step where the code does.

* `SupportCases`: `ChangeStatus` re-arms the job when it closes a case;
  `purgeSupportCase` is `Purge`, `Defer` or `Skip`, and `HandleFails`. `closedFor` is history: how
  long a case has been closed without a break, whatever `retention_until` says.
* `EmailDelivery`: `deliverEmail` is three steps, loading the row, the SMTP dialogue (whose
  answer may be lost) and the UPDATE. `doubts` counts the attempts that may leave an accepted
  mail unrecorded; nothing cancels a worker whose lease ran out.
* `Maintenance`: `runMaintenanceCleanup` statement by statement, in the order of the code, with
  `batchWasFull`; a failed statement ends the run. Each statement chooses its rows (`ChooseRows`) and
  deletes those that are still there (`DeleteRows`), so overlapping runs may choose the same rows, and
  `RowsAffected` counts what is left of them. `Expire` gives a table something to delete, `Vanish` takes
  a row away without a cleanup (a cascade, or the statement of a worker that crashed). `left` is history:
  tables that a run had to leave rows in although none of those it chose was gone.

`ImplementsJobs` states that each composition uses the job store only as `BackgroundJobs`
allows (a refinement, checked as a property), so what is proved there holds here as well.

### CaseIntake

`createSupportCase` and `createSupportSubmission` lock their Project (or the tenant's row),
count the active cases of the whole tenant and insert: `Begin`, `CountActive`,
`Create...`, or `CompleteSupportProblem` at the limit. `reopened` counts the cases that PATCH
brought back, which no limit holds back.

### TenantMemberAuth

All state of one Tenant Member (members do not share any here). A request is a
handler with a program counter: `Resolve` (the SELECT of the attempt, or the session
middleware), `VerifyCeremony` (the UPDATE that consumes a ceremony, then loading the
member), and the transaction: `CompleteLogin`, `PersistInitial`, `PersistSession` or
`DeleteCredential`. Password verification is `ReadPasswordHash`, `MarkVerified`, `Rehash`. Begin
handlers are one step: they insert one row after reads that every finish handler repeats
or that make no difference to it. Passwords are numbered by resets; the `proof` of an
attempt is the password that was verified for it.

The transactions of login and reset are atomic although they lock rows in different
orders: a login inserts a session, whose foreign key needs the member's row, which the
reset holds from its first statement. When both wait, PostgreSQL aborts one, which is
`Abandon`. `Init` is a member created by signup or by accepting an invitation, with its one
bootstrap session, and a password hash with current or older parameters.

### TenantMembership

`Authorize` is the middleware and `consoleAuthorized`, which read the caller's role; the
handler acts later with that role. `UpdateMember` and `RemoveMember` lock every member row of
the tenant, so each is one step. Creating an invitation looks for a member without a lock
and inserts in a second statement. `AcceptInvitation` is its transaction; `SignupElsewhere` takes an
address in another tenant (`email_normalized` is unique over all). A DELETE that the CHECK of
`tenant_invitations` refuses is answered `check_violation` (see Findings).

### OAuthAuthorization, OAuthRegistry, SigningKeys

`OAuthAuthorization` follows one member and one application. A decision holds its request's
row, an exchange its code's, a reset the member's; a code or token is inserted with a share
lock on the member, so the steps that wait for each other are steps of their own, and a
deadlock aborts one (`AbortReset`, `Abandon`). `doomed` is what the reset's UPDATE of the tokens
reached.

`OAuthRegistry` has the versioned rows of one application and one resource server. Console
clients hold the representation they read (`held`) and send its version; grants are created
and changed after reads without a lock; secrets are counted under the lock of the
application; `CreateAccessEvaluation` reads `policy_version` first and the capabilities after. The
member a token acts for is active, disabled or removed (`SetMember`, `RemoveMember`): both the middleware
and the capabilities ask for an active one (`PrincipalActive`), and neither change moves
`policy_version`.

`SigningKeys` has rotation at start-up under an advisory lock by replicas whose clocks are
within `Skew` of the database's, and tokens summarised by the latest expiry a key has signed.
A replica whose ring lacks the version a key is sealed with cannot sign with it.

### ProjectConfig, ProjectUserLogin, Biometrics, ServiceCredentials

`ProjectConfig`: a request reads the Project and writes in one later statement. Domain names
of one branch stand for their number of labels, so "lies under" is `<=`.

`ProjectUserLogin`: a handler is a sequence of statements; what it read of its attempt is what
it acts on. `completeLogin` and the insertions of credentials are the transactions. What the
tenant does to the user meanwhile (status, password, sessions, deletion of a credential) is
an action each.

`Biometrics`: the provider's POST and DELETE and the statements on the row are steps that may
each fail, and whichever fails may have taken effect: a save that reports an error may be committed, and
its template is taken back all the same (`SaveFails`, `TakeBack`). The provider may give out an id again,
also the one in force, and the read of the old template may fail, which counts as none. `removed` and
`contested` are history: templates that were deleted for the user or taken back, and templates that were
given out while another enrolment was replacing them.

`ServiceCredentials`: issuing locks the account's row, counts and inserts; disabling and
deleting an account wait for that lock and revoke.

### RateLimiter, Migrations, ListPaging

`RateLimiter`: `Take` reads `clock_timestamp()` once per column, so its CASEs may see two
instants (`later`). `granted` is history: what was let through at each instant.

`Migrations`: a release is a set of versions with contents; `Migrate` is lock, read, refuse,
seal records without a checksum, apply each file in a transaction with its record, serve.

`ListPaging`: the sixteen lists as records (order, column, rows shown, loaded at once or one by
one). A page is one SELECT of limit+1 rows; `ReadingFails` is a read that breaks off and that no handler
notices; `SelectProjects` and `LoadProjects` are the two halves of `listProjects`.

## Runs

Components that share no state are checked side by side: the variable `part` of an MC
module says which of them a behaviour follows, and the others' variables stay at a fixed
value. The states of a run are then the sum of those of its parts, not their product.
Symmetry is over the identities of rows, workers, callers and requests, which no
definition tells apart (not in `progress`, where symmetry is unsound).

| Run | Module | Parts and bounds | Shows |
|---|---|---|---|
| `jobs_safety` | `MCBackgroundJobs` | 2 workers, 2 jobs in 2 queues, 2 attempts, lease of 2 ticks | `TypeOK`, `AttemptBudget`, `SoleOwner`, `LeaseRespected` |
| `handlers_safety` | `MCHandlers` | support: 1 case, 1 editor, 4 versions; email: 1 mail, 3 copies; maintenance: 2 tables of 2 rows, batches of 1; 2 workers each | `ClosedIsScheduled`, `KeptForRetention`, `DecidedAsSeen`, `DuplicatesExplained`, `BacklogSoon`, `ImplementsJobs` |
| `stores_safety` | `MCStores` | idempotency: 3 callers, 1 key, 2 bodies; rates: 2 buckets, limit 2, window 2, 5 instants; migrations: 2 replicas, 2 versions of 2 contents, 4 starts; list: 3 rows, 2 instants, pages of 1 or 2 | `CommittedIffReplayable`, `AnswersAgree`, `ClaimRespected`, `GrantsBounded`, `AppliedOnce`, `ServesItsSchema`, `PagedExactly` |
| `member_safety` | `MCTenantMemberAuth` | 2 requests, 1 attempt, 3 ceremonies, 3 credentials (limit 2), 1 reset | `AssuranceMatchesCredentials`, `OneSessionPerAttempt`, `LastCredentialKept` |
| `oauth_safety` | `MCOAuth` | keys: 2 replicas, 3 keys, 5 instants; authorization: 2 sessions, 2 decisions, 2 exchanges, 2 codes, 1 reset; registry three times: 2 editors with 3 versions of a row, 2 decisions with 5 policy versions, 3 secrets | `TokensVerifiable`, `OneTokenPerRequest`, `ResetCutsExchanges`, `NoLostUpdate`, `DecisionHolds`, `SecretsBounded` |
| `tenant_safety` | `MCTenant` | membership: 3 members, 2 requests, 2 invitations; login twice (2 requests with one mode, 1 request with 2 attempts and all modes); config: 2 requests; biometrics: 2 requests, 3 templates; service: 2 issuers, 3 credentials (limit 2); intake: 3 requests, 4 cases, limit 1 | `HasActiveOwner`, `OwnersChangedByOwners`, `OneSessionPerAttempt`, `SessionOfItsCeremony`, `SecondFactor`, `RpIdPermanent`, `EnrolledTemplateHeld`, `DisabledHasNone`, `IntakeBounded` |
| `progress` | `MCProgress` | queue: 3 jobs in 2 queues; the three handlers; keys: 2 callers; 1 worker | `NoStarvation`, `ClosedIsPurged`, `MailsSettle`, `BacklogDrains`, `KeysSettle` |
| `idempotency_cleanup` | `Idempotency` | 2 callers | `OncePerKey` is **violated** |
| `member_rehash` | `TenantMemberAuth` | 1 request, 1 reset | `ResetPasswordInForce` is **violated** |
| `membership_removal` | `TenantMembership` | 1 request, 2 invitations | `RemovalCarriedOut` is **violated** |
| `project_user_login_password` | `ProjectUserLogin` | 2 attempts, 2 modes | `PasswordBehindEverySession` is **violated** |
| `oauth_authorization_reset` | `OAuthAuthorization` | 1 decision, 1 reset | `ResetConsumesCodes` is **violated** |

Why the bounds suffice. Workers, callers and requests interact through one row at a time,
so two of them (three callers: the owner, the one that reclaims, one that replays; three
requests at a limit that two locks guard) produce every kind of race. Two attempts are the
least with a first, a retry and an exhausted budget. Lease and record identities are
reused once nothing refers to them, so histories are not bounded by their number. One case
is enough because cases share no state but the order of the queue, which `jobs_safety` and
`progress` cover; four versions allow create, close, reopen and close again. Two rows that expire
in each of two tables, with batches of one, let a batch be full with a row left over, in the first table or the
second, and let two runs choose the same row. Three versions of a registry row let an editor read it, another
change it, and the first send what it holds by then. Five policy versions are what a
server, a scope, a grant, its end and one change more come to. Three templates and two requests are one
in force, one that replaces it and one given out again. Three
ceremonies of a member allow a session enrolment, an initial enrolment and a login to be
under way before a reset. Three keys are two rotations, so a key is retired while its
successor is already retiring. The margin of the instance is exactly `3*Skew + Delay`: with
one tick less `TokensVerifiable` fails, and the proof needs no more. Five instants with
windows of two are two whole windows and the edge between them. Three rows with two instants
are a tie and a row beyond it, and pages of one and two end inside and after the tie. In
`progress` keys have three record identities: the current owner, one that lost its lease, and one free.

`CHECK_DEADLOCK FALSE` is said where the system may really stop: identities of rows or
instants are used up.

### Fairness

All of it is in `MCProgress`.

* `WorkersRun`: workers keep polling, handlers return, reports are sent, time passes. The
  loop of `runBackgroundJobWorker` never blocks except in a handler; the SMTP dialogue has a
  deadline and the other handlers are bounded transactions. A replica starts once, so the
  maintenance job is inserted. Weak fairness on each.
* `WorkersRecover`: crashes and failed claims stop eventually (`<>[][...]`): a process that
  crashes for ever settles nothing. A failure that has the same effect as a proper step (a
  failed claim and an empty queue) is not excluded, so the assumption is no stronger than it
  must be.
* `CallersRetry`: callers repeat what was not answered, and handlers do not for ever fail or
  outlive their leases of thirty seconds; if each did, each would supersede the one before.
* Nothing is assumed of what handlers of the queue return, of operators, of the cleanup, or of
  how often a caller sends new requests. There is one worker: with two, a job may be passed over by
  SKIP LOCKED for as long as the other keeps locking it, which the code cannot rule out
  without a bound on how long that lock is held.

## Proofs

Each theorem holds for every value of the constants that satisfies the named assumptions of its
module. They ask for finite sets, for bounds that are positive where the code's are, for values that
stand for "none" to differ from the identities, and for these facts of the code: the retention of
an idempotency record is longer than its lease (`validateIdempotencyRequest`), the founder of a tenant
is a member, the margin of `publish_until` covers three skews and one delay. The number of workers,
requests, rows and instants is nowhere bounded. The theorems about composed parts are about the `MCSpec` of their MC module, whose constants are
left open: what the run checks for one instance is what is proved for all.

Invariants are conjunctions of types, of what a process in flight knows of the rows
(fields it read that cannot have changed since, locks it holds) and of the property itself. There is
one lemma for each handler or group of actions; facts several actions need are lemmas of their own.

**`BackgroundJobsProofs`.** `IInv == TypeOK /\ StateCheck /\ AttemptBudget /\ LeaseInv`. `StateCheck` and
`AttemptBudget` are preserved row by row. `SoleOwner` is not inductive: to see that a claim does not
give a second worker the row, one must know that the new lease is held by nobody, that no two
workers share a lease, and that a worker whose lease is on a row works on that row with its attempt
number. That is `LeaseInv`.

* `TypeCorrect`, `StateCheckHolds`, `AttemptBudgetHolds`, `SoleOwnerHolds`.
* `LeaseRespectedHolds`, an action property: a report that changes the row comes from its owner, a claim
  needs an expired lease.

**`HandlersProofs`**, on top of it, for the three handlers of jobs.

* `ClosedIsScheduledHolds`: a purge that is under way works on a case that was due when it was read, so the
  job of a closed case can only complete by purging it, by deferring it to the end of its retention, or by
  finding it open; the re-arming UPDATE of the close restores the job in each.
* `DuplicatesExplainedHolds`: copies of a mail are counted against `doubts`; the invariant adds the copy of
  the worker that has sent and not yet recorded.
* `BacklogSoonHolds` (`MaintenanceInv`): a table that a run left rows in has given a full batch, or is the one whose
  chosen rows, a whole batch, are still to be deleted; once they are deleted and none of them was gone, `RowsAffected`
  is the batch. A table whose chosen rows were partly gone leaves `left`, which is the exception the property states.
* `KeptForRetentionHolds`, an action property (`ClosedInv`): what is left of `retention_until` and the time a case has
  been closed without a break add up to the retention at least. It needs the reset of the deadline at every close,
  and holds whichever job and worker come to the purge.
* `DecidedAsSeenHolds`, an action property, because a version identifies the view an editor holds.
* `ImplementsJobsHolds`: each step of each handler is a step of `BackgroundJobs` or leaves the job table
  alone, so the theorems above carry over.

**`StoresProofs`.** Of idempotency records: `IInv == TypeOK /\ CommittedIffReplayable /\ CompletedHasEffect /\ LeaseInv`. When a
handler commits, `CommittedIffReplayable` needs that no other mutation of the key is retained, which
holds because the record it owns is in processing; that the record is its own, with the hash of its
request, is `LeaseInv` (no two handlers at work share a lease). `CompletedHasEffect` says the same of
the keys in `lost`, so that a key can leave that set.

* `TypeCorrect`, `CommittedIffReplayableHolds`.
* `AnswersAgreeHolds`: with the invariant that an answer a caller holds, for a key within its retention, is the record's.
* `ClaimRespectedHolds`, an action property.

Of the other stores, `StoresInv`, with one invariant for each.

* `GrantsBoundedHolds` (`RateInv`): an open window accounts for what was let through since it began, and the one
  before it for one limit more; when none is open, the last window's length saw one limit and this instant
  none; a deletion of a live bucket moves one limit from the first account to the excess. The case of two readings
  of the clock on either side of an expiry is where the old count bounds what the window before let through.
* `AppliedOnceHolds`, `ServesItsSchemaHolds` (`MigrationInv`): between the lock and the end of `Migrate` a replica is the holder,
  so nobody else writes; what it found is of its release or not sealed yet; and a record that has a checksum never changes,
  so a replica that serves keeps its schema.
* `PagedExactlyHolds` (`ListInv`): of the rows that stay in place, those given are not beyond the cursor, and those still to
  be given are, or are on the page that is being loaded or after all of it. That a page has the first rows and the
  cursor is the position of the last of them (`FirstOf`, `PositionOf`) is proved by counting the rows before and after a row,
  and the induction is replaced by the least of these numbers (`LeastOf`).

**`TenantMembershipProofs`.** `IInv == TypeOK /\ HasActiveOwner /\ ManagersAct`. `HasActiveOwner` survives a
change or a removal because the handler found another active owner under the lock, and an acceptance
because it turns only an unused row into a member. `ManagersAct` (a request in flight was authorised
with a role that manages the tenant) is what makes a request that is not an admin's an owner's.

* `TypeCorrect`, `OwnerRemains`; `OwnersOnlyByOwners`, an action property.

**`TenantMemberAuthProofs`.** `AuthInv` adds to the properties: the number of credentials under the limit; the
attempt or session a request works on; and that the only bootstrap session is the signup's, that while
it is usable nobody has logged in, and that a session of an attempt is strong and its attempt closed. Without the last
two a first enrolment could leave a weak session behind that no UPDATE reaches.

* `TypeCorrect` (with the limit on credentials), `AssuranceHolds`, `OneSessionHolds`;
  `LastCredentialKeptHolds`, an action property.

**`OAuthProofs`.** `OAuthInv` has one invariant for each part. The authorization's says that two decisions never
approve the same request, that a request has one code and a code one token, that an exchange that signs
holds the one outstanding code, and which codes a reset that is under way has still to reach. The policy's says
that no decision carries a version still to come, and that the grants allow what a decision allowed while the version
is the one it carries (`DecisionsInv`). That the application and the member are active is no part of it: both
can be disabled and enabled again without a count, so it is stated of the grants alone and `DecisionHolds` follows
while both are active. `UncountedInv` is about the first version, which `createResourceServer` sets. The clients' counts active secrets together with the requests that have counted them.
The editors' says that a view with the row's version is the row.

* `OneTokenPerRequestHolds`, `ResetCutsExchangesHolds`, `SecretsBoundedHolds`, `DecisionHoldsHolds`;
  `NoLostUpdateHolds`, an action property.

**`SigningKeysProofs`.** `IInv == TypeOK /\ KeysCover /\ ClocksRecent`. `TokensVerifiable` is not inductive:
a rotation must know how late the tokens of the key it retires can expire. `KeysCover` says so for each
status of a key: within `Skew + TTL` of now while it is active, `Skew` before the end of its publication
while it is published after that, by now once it is retired. The step from the first to the second uses that
the clock reading the rotation sets `publish_until` from is recent (`ClocksRecent`), and it is here that
`3*Skew + Delay <= Margin` is used up: one skew for the replica that signs, one for the replica that rotates,
one for the replica that retires the key later.

* `TypeCorrect`, `TokensStayVerifiable`.

**`TenantProofs`.** `TenantInv` has one invariant for each part.

* `OneSessionHolds` (`LoginInv`): a session names an attempt, which is consumed, so a request that still finds its
  attempt open gives it its first session.
* `SessionOfItsCeremonyHolds`, `SecondFactorHolds` (`FactorsInv`): what a request knows stays true, because attempts
  stay verified and a ceremony keeps its type and attempt (`Grows`); each state of a request says what it
  has shown so far (`StateHolds`). The ceremony of every credential is a registration, and one that belongs to
  an attempt belongs to a verified one.
* `RpIdPermanentHolds` (`ConfigInv`), an action property: a Project with a credential is locked.
* `EnrolledTemplateHeldHolds` (`BioInv`): a template that was given out and is not in the row yet is at the
  provider or accounted for (`PendingInv`); one that an enrolment obtained and another replaces is contested
  (`ContestInv`); so what a saved enrolment is about to delete is not the template in force, although the row
  may have changed since it was read, unless that one came back (`ReplacedInv`).
* `DisabledHasNoneHolds` (`ServiceInv`): from the lock on, the account of an issuing request is active.
* `IntakeBoundedHolds` (`IntakeInv`): requests that have counted hold different locks, so they are no more than the rows
  there are to lock; cases and these requests together stay under the bound (`Reserved`).

Only model-checked: liveness (`MCProgress`), which is out of the prover's reach. Every invariant and every action
property of the other passing runs is stated by a theorem.

## Findings

* `idempotency_cleanup`: a record that was reclaimed and completed between the snapshot and the
  DELETE of `DeleteExpired` is deleted within its new retention, and a retry executes again.
* `member_rehash`: replacing a hash with old parameters is an unconditional UPDATE; a reset that
  commits just before it is overwritten.
* `membership_removal`: the foreign key's ON DELETE SET NULL contradicts the CHECK on accepted
  invitations, so a member who accepted one cannot be removed until the invitation is cleaned up.
* `oauth_authorization_reset`: a decision that waited for a password reset inserts a code after it,
  for a session the reset revoked.
* `project_user_login_password`: a security key logs in without the password that `README.md` says every
  login session requires.

## Observations

Behaviours that the models have, that a reviewer may want to know of, and that no document of the
repository rules out clearly enough to be a finding. They limit what the properties say.

* **Cleanup and re-armed jobs.** A completed purge job that is re-armed between the cleanup's snapshot and its
  DELETE is deleted while pending, so its case is not purged. `SupportCases` calls such cases `orphaned` and
  `ClosedIsScheduled` excludes them. The rate limiter's cleanup deletes a renewed bucket likewise (`lost`), which
  costs one more limit in `GrantsBounded`.
* **Enrolment after a reset.** The enrolment transactions of a Tenant Member read neither the session nor the
  attempt again that they were authorised by: an enrolment under way during a password reset leaves a credential
  after it.
* **Two first enrolments.** `finishFirstFidoEnrollment` counts the credentials of a Project User without a lock;
  two of them both insert. Only one completes the attempt (`OneSessionPerAttempt`).
* **Origins.** Two deletions of different Origins, each of which counted two, leave a Project with none; and an
  Origin added while the RP ID changes need not lie under the new one.
* **Fixed windows.** Two windows meet in any stretch of one window's length, so twice the limit can pass;
  `Take` may renew the counter at one reading of the clock and keep the expiry at the other.
* **Attempts of a recurring job.** `Reschedule` gives back the attempt of its own run and no other, so the failures of
  the maintenance job add up over its life: the last one that its attempts allow dead-letters it, however many runs
  succeeded in between, and then nothing re-arms it but `jobctl replay`. `BacklogDrains` excepts that case.
* **Lists.** No list handler checks `rows.Err()`: a read that breaks off is answered as a page, without a next
  cursor when the broken page is not full. `listProjects` leaves out Projects it cannot load, which ends the
  list early in the same way. `listSupportCases` is ordered by `updated_at`, so a case that changes between two pages is missed or
  repeated. `PagedExactly` is stated of what is left.
* **Pool.** `listProjects` keeps a connection for its open rows while it waits for a second: as many such
  requests as the pool has connections wait for each other until a context ends.
* **Limit on active cases.** Counted under the lock of one Project (or the tenant's row), so each further one can exceed it by
  one case; reopening is not counted. `IntakeBounded` is the bound that holds.
* **Templates.** An enrolment whose answer is lost, or that another one overtakes, leaves a template at the
  provider that no row names. `EnrolledTemplateHeld` is about the one in force, and that one can be lost too:
  `enrollBiometric` deletes the new template after any error of its upsert, also when the upsert was committed and
  only its answer was lost, or when the provider had given the id that is in force already; and an id that the provider gives again
  while another enrolment is replacing it is deleted by that one. Both leave a row that names a template which is gone.
* **Overlapping cleanups.** A run that lost its lease and the next one may choose the same rows. The one that deletes
  later affects less than a batch, takes that for the end of the backlog and comes back after an hour, not a minute, though rows
  remain. `BacklogSoon` excepts tables whose chosen rows were gone; `BacklogDrains` does not.
* **Disabled members.** Disabling a member takes every capability from its tokens at once, without raising
  `policy_version` and without revoking them: enabled again, the member's unexpired tokens work as before. A decision that is
  kept under its version may therefore allow what would be refused now; `DecisionHolds` is stated while the member is active.

## Not modelled

* Password hashing, tokens and encryption (`internal/auth`), the WebAuthn library, SMTP and the biometric
  provider's protocol: cryptography and wire formats, modelled by what callers rely on.
* `internal/contract/contract.gen.go` (generated), `contract_adapter.go`, routing, decoding, configuration, audit
  records, logging, presentation of rows.
* Email verification of a member (no effect on authentication), renaming of a credential, kinds of a member's
  credentials.
* `runtimePassword`, `beginRegistration`, `finishRegistration`, `beginAuthentication`, `finishAuthentication` and
  `consumeCeremony` of `webauthn.go`: no route reaches them.
* The connection pool (see Observations); the lock-out of a Project User's attempt after failed passwords, which
  is a rate limit.
* Validation and encryption of a support submission's contents.

## Plan

What is left to prove: refinements between parts other than `ImplementsJobs` (what the stores promise their callers, as
specifications of their own), and the type invariants of the modules whose proofs use only the part of them that they
need.
