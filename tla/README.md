# Verification of PairDBase

This directory specifies the backend of PairDBase (`src/crates/app`, Rust, axum, sqlx, Redis) in TLA+.
Small instances are model-checked with TLC, and theorems about every instance are proved with TLAPS.
The server lets teams share connections to databases of their own, look at their schemas and run statements.
Almost everything that can go wrong in it beyond a single call goes wrong *between* statements: handlers run
concurrently, each SQL statement is its own transaction unless the code opens one, and several server processes
share one PostgreSQL and one Redis.  The modules are therefore written at the grain of one statement (or one
lock-protected map access, Redis command, or external call) per step.

Paths below are relative to `src/crates/app/src/` unless they start with `src/`.

## 1. Inventory

| Component | State it keeps | Operations | Interacts with |
|---|---|---|---|
| outbox (`services/outbox/`) | rows of `TBL_OUTBOX_EVENTS`; per worker task the claimed batch | `publish`, `publish_in_tx`, `run`/`process_batch` (claim, dispatch, `mark_done`, `mark_failed`, `reschedule`) | published into by workspaces, organizations and accounts; calls the email service |
| server process (`main.rs`, `db.rs`, `redis.rs`, `config.rs`, `state.rs`) | the running tasks | construct everything, serve, start the worker | all |
| query sessions and execution (`features/query/{session,pool,use_case,executor,repository}.rs`) | two DashMaps of `SessionRegistry`, `ExecutionPoolRegistry`, rows of `TBL_QUERY_HISTORY` | `open_session`, `close_session`, `execute`, listings | connections (`get_full`), guard, the user's database |
| query guard (`features/query/guard.rs`) | none | `evaluate`, `get_permission` | called by `execute` |
| workspaces (`features/workspace/`) | `TBL_WORKSPACES`, `TBL_WORKSPACE_MEMBERS` | create, update, delete, invite, change role, remove, list | outbox, the connection pool of sqlx |
| organizations (`features/organization/`) | `TBL_ORGANIZATIONS`, `_MEMBERS`, `_INVITATIONS` | create, update, invite, revoke, accept, change role, remove, consume AI credits, usage | outbox; created by accounts too |
| accounts and OAuth (`features/auth/`) | users, identities, one-time OAuth states, `TBL_REFRESH_TOKENS` | register, login, OAuth redirect and callback with four providers, refresh (rotate), logout, logout_all | organizations, workspaces, outbox, the providers |
| connections and schema cache (`features/connections/{handler,use_cases,pool,repository,domain}.rs`) | rows of `TBL_DB_CONNECTIONS`, `schema_cache:<id>` in Redis, a DashMap of drivers per process | create, update, delete, list, test, schema, refresh_schema | vault, drivers, Redis |
| database drivers (`features/connections/drivers/`) | a pool and the server's capabilities each | connect (version, capabilities), `fetch_schema` | the user's databases |
| Oracle connection pool (`drivers/oracle/pool.rs`) | idle connections and a counter under mutexes, a condition variable | `new`, `get`, return by `Drop` | blocking threads of the Oracle driver |
| vault, email service, HTTP layer, shared ids | none | encryption, delivery, routing, newtypes | |

What is hard about each, and what makes it correct:

* **Outbox.** Several workers, crashes between claim and record, answers that are lost.  A row is in one worker's
  hands at most; duplicates only where the provider's answer was lost; final states tell the truth; retries end.
* **Query sessions and execution.** Concurrent opens of one session, expiry between lookup and use, a client that goes
  away in the middle, a connection deleted under a pool, seven executors that each cut and convert rows in a way of
  their own.  Every session has a pool, a request works under its own session, the answer tells what happened and
  what was logged, the events add up to the result, a closed session stays closed.
* **Workspaces and organizations.** Every rule about roles is a read in one statement and a write in a later one.
  Ownership never moves; membership only by invitation; credits stay within the plan; requests do not starve on the
  connection pool; what a broken-off creation leaves behind stays harmless.
* **Accounts.** Emails and identities are looked up in one statement and inserted in another, a callback makes a
  user and its link in two.  What a race or a failure may cost is bounded; a state serves one callback; rotation
  retires the old token.
* **Connections and schema cache.** Eviction races with requests that are still fetching, names are unique by a list
  followed by an INSERT.  What is deleted leaves the cache, and gains drivers only from requests under way.
* **Drivers.** A dozen queries without a transaction, in an order of its own for each engine, some only from a version
  on, while the database changes.  Nothing foreign is reported, nothing that was there throughout is lost, but
  for what is named as lost.
* **Oracle pool.** A counter, a vector and a condition variable under two mutexes.  Slots add up; no wakeup is lost.

The full list of hazards, each at its line with the properties that watch it, is `hazards` of `PROJECT.json`.

## 2. Modules

| Module | Models | State ↔ code |
|---|---|---|
| `OutboxContract` | the abstract promise to publishers: at most `MaxAttempts` attempts, one email per attempt at most, nothing attempted after it ended | no workers, rows or errors |
| `Outbox` | `publisher.rs`, `worker.rs` | `status`, `attempts`, `due` are the columns; `pc`, `todo`, `cur`, `outcome` the task in `process_batch` ("sending" while it awaits the provider); `mails`, `unheard` are history |
| `ServerMain` | the order of `main()` around the outbox (EXTENDS `Outbox`) | `main[w]`: where `main()` of process `w` stands |
| `Execution` | `guard.rs`, `executor.rs` and the cutting of rows into events, as operators | a statement is the record of what these tell apart |
| `QuerySessions` | `session.rs`, `pool.rs`, `use_case.rs` of the query feature (EXTENDS `Execution`) | `registry` + `user`, `conn`, `fresh` are the session map; `byUser` the per-user lists; `pools` the pool registry; `loose` the connections with an Oracle statement in a blocking thread that no request awaits; `pc`, `held`, `asked`, `ran`, `result`, `logged`, `sent`, `reply` the requests |
| `Workspace` | `use_case.rs`, `repository.rs` of workspaces, and the sqlx pool they share | `rows[u]`: roles of the user's active membership rows (a sequence: no index makes them unique); `Free`: connections left |
| `Organization` | `use_case.rs`, `repository.rs` of organizations | `members[u]`: role in the one active row (the partial unique index); `invites`, `expired`, `mailed`; `credits` |
| `RefreshTokens` | issue, rotation and revocation | `owner`, `revoked`, `expired` are columns; `parent` is history |
| `Accounts` | `handler.rs`, `use_cases.rs`, `repository.rs`, `oauth/` of auth (EXTENDS `RefreshTokens`) | `email`, `secret`, `identity`, `state` are the tables; `work` a request before it issues a token; `used`, `left` are history |
| `SchemaCache` | one connection's row, its Redis entry, the driver registries | `row`, `cache`, `drivers`; `schema` is the version the user's database has, `req` holds the one a request fetched |
| `Connections` | create, update, delete and list of a workspace's connections (EXTENDS `SchemaCache`) | `status`, `data` are the rows, `SchemaCache`'s `row` being that of `Target`; `work` the requests |
| `Versions` | `versions.rs` and each driver's `detect_version`, as operators | a banner is the sequence of its groups of digits |
| `Catalogs` | each engine's `queries.rs`, `schema.rs` and `fetch_schema`, as operators (EXTENDS `Versions`) | an object is kind, schema, name, owner table and keys; a chain is one future of `try_join!`; `<Engine>Files` says under which table a row is filed |
| `Drivers` | `connect` and `fetch_schema` (EXTENDS `Catalogs`) | `todo` are the chains still to run, `got` the rows read, `answer` the metadata; `seen`, `stable`, `skipped` are history |
| `OraclePool` | `drivers/oracle/pool.rs` | `idle`, `opened` are the fields, `at` where each thread stands |
| `OutboxProofs` (with `ServerMain`), `AccountsProofs` (with `RefreshTokens`), `ConnectionsProofs` (with `SchemaCache`), `QuerySessionsProofs` (with `Execution`), `DriversProofs` (with `Catalogs`), `WorkspaceProofs`, `OrganizationProofs`, `OraclePoolProofs` | theorems | |
| `MC*` | instances for TLC | |

Each handler is a chain of actions named after its statements (`Invite`, `InviteCheck`, `Begin`, `InviteAdd`, ...);
a request record says where it stands and carries exactly what it has read that a later step uses.  `Fail` (and
`Disconnect` in `QuerySessions`) ends a request at any await: a failing statement, or axum dropping the future of a
client that went away.  Operators whose comment calls them a *wrong variant* are not part of the models: each is a
plausible slip in that code, and for every property of a passing run one of them is shown to break it (`mutants` of
`PROJECT.json`).

**Composition.**  `Accounts` adds its tables to `RefreshTokens`: a request that has come through login, registration or
a callback goes on as `RefreshTokens`' request that issues a token, and each step of one part leaves the other alone.
`Connections` adds the rows to `SchemaCache` in the same way: `Target` is the connection whose cache entry and
drivers that module follows.  `QuerySessions` applies the operators of `Execution` at the steps where `execute` calls
the guard, the executor and the sender of events.  `Drivers` does so with `Versions` and `Catalogs`.  `Outbox` is shown to
implement `OutboxContract`.

### Modelling decisions

* A request that is refused at its first statement changes nothing and is not a step.  The role check by which most
  handlers begin and the arguments they got are one action.
* `Reschedule` forgets how long the backoff is: `ComesDue` may happen at any later moment.  In the same way expiry
  (`TimeRunsOut`, `Expire`, `CacheExpires`) may happen at any moment.
* A claim returns any set of due rows up to `BATCH_SIZE`: the ORDER BY is left open, and SKIP LOCKED may pass over rows.
* A statement of the outbox worker can fail without effect or take effect unheard; so can the email provider.  A call to
  the provider is two steps, the request and what comes back, and the second may never happen: neither
  `worker.rs:88` nor the HTTP clients of `services/email/provider.rs` (lines 228 and 295) have a timeout.
* The executor's timeout and a client that goes away end the waiting for a statement: it has not reached the database,
  or it has, or, for Oracle, it still will.  The closure of `spawn_blocking` (`executor.rs:365`) cannot be cancelled
  and may itself wait for a connection; its connection is in `loose` until then.  `loose` is a set: one member
  stands for any number of such statements, and `LooseEnds` for the end of the last.
* `accept_invitation` of the organization repository is one step: its SELECT ... FOR UPDATE locks the row that the
  statements after it write, and the unique index settles concurrent inserts of one user.
* `get_for_connection` walks the user's list under that entry's lock and is one step.
* The role "member" of `Workspace` stands for member and viewer: no modelled rule tells them apart.
* A result has one column in `Execution`: what the executors do to a row, they do to each of its cells.
* What sqlparser makes of a text, and whether it matches an injection pattern, are properties of the statement
  (`kind`, `where`, `suspect`); the guard's decisions over them are modelled.
* `Accounts` takes an identity to keep one email for as long as the model looks (`AccountsAssumption`): a user who
  changes the email at the provider is outside.  Password hashing and token signing are the identity on the values
  they are applied to.
* The requests of `Connections` are those of the connections' creator: update and delete refuse the others at
  their first statement.
* One metadata query of a driver is one step that sees the catalogue of that moment; the rows of a query never fail
  one by one.  Redis' `SCAN` may answer a key more than once.  MongoDB's `$sample` answers with all documents of a
  collection no larger than the sample (`SampleDocs`, 100 in the code), else with any choice of that many, repeated ones
  included.
* Attaching a row to its table is modelled by what each driver compares.  Oracle's rows carry the owner of an index
  or a trigger where those of the other engines carry the schema of the table (`OracleFiles`).
* `build_driver` answers `SQLite not yet supported`, so the SQLite driver is never built in this version; its code is
  modelled as it is.
* The migrations and the statements disagree in places: tables are called by names the migrations do not create
  (`users`, `oauth_accounts` against `tbl_users`, `tbl_oauth_accounts`), `CREATED_BY` of an owner's organization
  membership is bound to NULL against a NOT NULL column, `expires_at` of an OAuth state is NOT NULL without a default
  and `store_oauth_state` does not set it, and some RETURNING lists lack columns their row types need.  The models
  take each statement by its text, and any statement may fail, so a safety property that holds here holds whichever
  of them fail in a given schema; constraints are modelled where a migration declares them for the table a statement
  means.
* `Organization` and `Workspace` hold one organization and one workspace.  Rules that relate several of them (slugs,
  the requester's memberships elsewhere, but for `Elsewhere` in `Workspace`) are outside.

## 3. Runs

| Run | Asks | Instance |
|---|---|---|
| `outbox` | exclusive claims, duplicates, stranding, progress, and that it implements `OutboxContract` | 3 rows, one undecodable; 2 workers; batches of 2; 3 attempts |
| `query_sessions` | own session and pool, truthful answers, answers that add up, no resurrection, quiet after deletion | 2 users, 2 connections, 2 sessions ever, 2 requests; both connections PostgreSQL, both SQL Server, or one Oracle and one Redis, which cannot be opened; events of 2 rows, a cap of 3 |
| `workspace` | what role checks made before the write are worth at the write, and that requests end | 3 users, 2 requests, pool of 2; at most 2 rows for the founder, 1 for the others |
| `accounts` | what races of registration and callback may cost, states used once, orderly rotation | 2 users, 2 requests, 2 tokens, 2 states, 1 email; six provider answers |
| `connections` | what outlives a deletion, name clashes, rows that cannot be read back | 2 processes, 2 requests, 2 connections, 2 names, 2 schema versions; Redis may fail |
| `organization` | joining, credits and ownership under overlap, failure and expiry | 3 users, 2 invitations, 2 requests, plan of 2 members and 1 credit |
| `drivers` | what the metadata of a changing database says, what it loses, and that the fetch ends | 13 servers of seven engines, around the version gates; 1 or 2 objects created or dropped; 1 failing query; samples of 2 keys and 2 documents |
| `oracle_pool` | slots add up, leaks shrink the pool no further than to what it was opened with, nobody is stuck, connections come back | 5 threads, 3 connections, 3 failing connects |
| `server_main` | violated: a published event is eventually attempted | 1 row, processes without crashes |
| `workspace_once` | violated: a user is a member once | 2 users, 2 requests |
| `organization_admins` | violated: admins do not change other admins | 3 users, 2 invitations, 2 requests |
| `token_reuse` | violated: a token is good for one refresh | 2 users, 3 tokens, 3 requests |

**Why the bounds are enough.**  The races of this code are between two requests about one row, so two concurrent
requests reach each of them; `token_reuse` gets three, so that a logout_all and two refreshes overlap.  Three users
are needed where a rule speaks of a requester, a target and an owner.  Three attempts make a first, a middle and a
last one; a batch of two out of three rows has a row in hand, one waiting and one left to the other worker.  With
`MaxMembers = 2` and three users the limit is reached, and exceeded by an invitation that was still pending.  A credit
limit of one makes two overlapping requests compete for the last one.  Results of up to four rows against a cap of
three and events of two reach the row too many, a full and a half-filled event; an assumption in `MCQuerySessions`
evaluates all seven executors on every short result of four types.  In `drivers` each server has an object on
either side of what its queries keep, and one that appears or goes: an index of HR on APP's table beside a table of the
same name in HR, an index on expressions, a procedure on PostgreSQL 13, a sequence alone in its schema, a field twice in
one document and not in the other, a collection of three documents with a sample of two.  Five threads over three connections leave
two that wait when all slots are in use.  Histories (`mails`) and counters need no bound of their own: attempts
bound them.  `MaxRows`, `MaxVersion`, `MaxFaults`, `MaxFailures`, `ddl` and the numbers of `SessionIds`, `Tokens`, `States` and
`Invitations` are bounds of the instances and named as such in the modules.

**Deadlock** is checked except where a system really may stop: in `workspace` a deletion or an owner who was never
recorded leaves nothing to ask for, in `organization` an ownerless organization without credits, in `connections`
deleted connections and used-up names, in `server_main` a server that waits for requests.  Elsewhere somebody can
always be killed and restarted, or requests keep coming.

**Fairness.**  `Outbox`: weak fairness of a running worker's dispatch and record steps (a tokio task that is not
blocked runs), of the clock and of restarts by whoever supervises the process; strong fairness of the claim, which
says that a worker that keeps being killed survives to its next five-second tick now and then.  The record step assumes
that the server's own database answers a statement or fails it.  Nothing is assumed of the provider: a call may never
return, and `EveryEventResolved` promises nothing for the row such a worker sends and the rest of its batch, nor once every
worker awaits such a call, but it does promise that the other rows are settled by the other workers.  Nor is anything
assumed about faults: crashes and lost answers may happen for ever, and the property allows for the rows they strand.
`Workspace`: strong fairness of the steps of a request, since sqlx's pool serves waiters in order, and weak fairness
of `acquire_timeout`, a timer.  `Connections`: weak fairness of the schema requests' steps and of SETEX expiry.
`Drivers`: weak fairness of each fetch's next query and of its end; `OraclePool`: of each thread's next step, as the
operating system schedules them; nothing says who gets the mutex first.  `ServerMain` assumes that whatever `main()`
has come to start runs, but not that `axum::serve` returns: it has no shutdown signal.

### What the runs found

* `main()` awaits `axum::serve`, which does not return, before it starts the outbox worker (`main.rs:172-176`): no
  event is ever sent (`server_main`).
* The "already a member" check of a workspace invitation is not backed by an index (`workspace_once`).
* `refresh` does not look at whether its revocation found a row, so two overlapping refreshes of one token both
  succeed, against "prevents token reuse" (`token_reuse`).
* An admin's role change overlapping the owner's promotion of the same member demotes an admin, against "Admins
  cannot change other admins" (`organization_admins`).

Several properties of the passing runs say how far a weakness goes, not that there is none: `StrandedOnlyByFault`,
`UnreachableOnlyByRace`, `TakenEmailGainsNoUser`, `TakenNameGainsNoClash`, `UnreadableBlocks`, `OrphanStays`,
`EveryEventResolved`, `DeletedThenQuiet`, `ReportedExisted`, `StableIsReported`, `RequiredIsEverywhere`.
A row stays in 'processing' after a crash, or for as long as a provider does not answer; two registrations may take one
email, two creations one name; a connection of type "redis" makes its workspace's list fail from then on; a statement left
to one of Oracle's blocking threads may reach the database after the request was answered, and after the connection was
deleted.  Each failed connect leaks a slot of an Oracle pool, which shrinks to the connections `new` opened; it never gets
stuck (`NeverStuck`), because `new` opens at least one and these are recycled.  The metadata of the drivers

* files an index or a trigger of Oracle whose owner is not its table's under that owner's table of the same name, or
  drops it (`oracle/queries.rs:61,195`, `oracle/schema.rs:119,236`; `Misfiled`);

and loses, of what is there throughout (`KnownLoss`),

* procedures on PostgreSQL 11 to 13: `versions.rs:95` asks for them from 14 on, while the comment at
  `postgres/queries.rs:226` says that those below 11 have none;
* PostgreSQL's indexes on expressions alone, which the join with the columns drops (`postgres/queries.rs:91-92`);
* what is in a schema without a table, view or other naming kind: sequences, types, materialized views alone in a
  schema of PostgreSQL, for example (`postgres/schema.rs:401-404`, and `group_by_schema` of Oracle and SQL Server);
* those parts of a MongoDB collection that a failing command should have answered, and the Redis keys beyond the sample.

A field of a MongoDB collection with more documents than the sample of 100 is called required when the sample has it
everywhere, and one that an array repeats may be called required though a document lacks it.

Seen on reading, without a run of its own:

* Sessions: `remove_expired` has no caller, so sessions past their time stay in memory and the `Expired` event is not sent
  for them.  An UPDATE on PostgreSQL or MySQL answers `rows_affected` 0: it is the number of rows returned
  (`query/use_case.rs:204`).  A tinyint or smallint of SQL Server is read with `row.get::<i32>`, which panics
  (`executor.rs:672`), after the statement has run.
* Workspaces: in `invite_member` (`use_case.rs:246-247`) the name of the workspace is passed as `org_name` and the other way
  round; an admin may not invite an admin but may promote a member to one.
* Organizations: `update` writes `ai_credits_used` back as it read it (`repository.rs:255`); the member limit is compared when
  an invitation is made, not when it is accepted (`use_case.rs:248`).
* Accounts: the unique index is on organization and email, and each registration makes a new organization, so it never
  applies; `auth/mod.rs` calls `AuthUseCases::new` with two of its four arguments.
* Connections: `refresh_schema` says "cache is cold so this always hits the database" (`handler.rs:287`), but another request may
  fill the cache between the invalidation and the read.  `update` answers pool sizes it does not write and lets a rename
  take a name in use; no code writes `TBL_CONNECTION_PERMISSIONS`, so the guard always applies its default.
* Drivers: the columns of Oracle's indexes come out empty; columns of a composite foreign key of PostgreSQL come as a
  cross product.  Some queries ask for more than their version checks do, and then the whole fetch fails: PostgreSQL's
  functions are selected by `prokind`, which came with 11, and by `proisagg`, which went with it
  (`postgres/queries.rs:207,217`), SQL Server's indexes by STRING_AGG (2017), Oracle's by LISTAGG (11.2).

## 4. Proofs

All theorems hold for any constants that satisfy the modules' named assumptions, which TLC evaluates in each run.
In every module the invariants to be proved are not inductive as they stand, because a step writes what an earlier
step of the same request has read; the strengthening says what each request knows wherever it stands.  The step
lemmas go through the actions one at a time.

* **Outbox** (`OutboxAssumption`).  `OutboxInv` strengthens the checked invariants by what the worker's program counter
  implies (`TaskShape`), that held rows are 'processing' (`Holding`), that no two workers hold one row (`Apart`), and how
  emails, unheard emails, status and attempts of a row relate while it is waiting, in hand and settled (`RowHistory`,
  `TaskHistory`).  `FinalStatusTruthful` needs to know what the worker that records the status has sent, and
  `DuplicateOnlyIfUnheard` that a second worker cannot hold the row.  Proved from it: `TypeCorrect`, `ClaimIsExclusive`,
  `PendingIsAlive`, `NoDuplicateOfItsOwn`, `FinalStatusIsTruthful`, the action properties `StrandedStaysStranded` and
  `StrandedByFault`, and the refinement `OutboxKeepsContract`: the mapping reads a row's phase off its status, its budget off
  its attempts, and whether its attempt is still open off the batches.  A publication maps to `Accept`, a claim to
  `Attempt`, the end of a provider call and a row that cannot be decoded to `Try`, a written outcome to `Conclude`, a crash and
  a failed write to `Drop`, the rest to stutters.  An attempt is open until its call has ended (`Untried`).
  That a dropped batch closes no other worker's attempts is `Apart` again (`ClosedRows`).
* **Server process** (`OutboxAssumption`).  `MainRunsTheOutbox` shows that what `main()` does is a step of the outbox or none, so
  the theorems above hold of it.  `NothingIsSentWhileServing` is the finding of `server_main` for any number of processes:
  as long as no `axum::serve` has returned, nothing is claimed and nothing is sent.  Its invariant `MainInv` says that no task
  runs before `worker.start()`, and that rows are then as they were published.
* **Refresh tokens** (`TokensAssumption`; in `AccountsProofs`).  `RotationInv` adds to `TypeOK` and `RotationRetiresOld` that a refresh works for the
  owner of the token it found and has revoked it once it is past `Revoke` (`RefreshesInOrder`), and that only issued
  tokens have parents.  Proved: `TokensTypeCorrect`, `RotationIsOrderly`, and `RevokedStaysUnused`, by counting the requests
  that hold a revoked token together with its successors.
* **Accounts** (`AccountsAssumption`, `TokensAssumption`).  `AccountsImplementTokens` shows that every step of `Accounts` is a step
  of `RefreshTokens` or leaves its variables alone, so the theorems about tokens carry over (`AccountsRotateInOrder`,
  `AccountsKeepRevoked`).  `AccountsInv` says what each request has found where it stands (`WorkSound`), whom identities are
  linked to (`LinksSound`), that a state which let a callback through is gone (`StatesSound`), and who may be without a way
  in (`LeftSound`).  Proved: `AccountsTypeCorrect`, `StatesServeOnce`, `OnlyRacesStrand`, `TakenEmailStays`.
* **Connections** (`ConnectionsAssumption`, `CacheAssumption`).  `ConnectionsInv` joins the types with what each request is entitled to
  write where it stands.  Proved: `ConnectionsTypeCorrect`, `NamesGainNoClash`, `UnreadableForGood`, `DeletedConnectsNoMore`, and
  `ConnectionsImplementCache`, that the composition refines `SchemaCache`.
* **Workspace** (`WorkspaceAssumption`).  `WorkspaceInv` says that the founder owns by one row, or nobody has a row and only
  one creation is under way (`FounderOwns`), with the bounds on rows and pool connections.  That is why writes which do
  not look at the role they overwrite spare the owner.  Proved: `WorkspaceTypeCorrect`, `OwnershipStays`, `OrphansStay`.
* **Organization** (`OrganizationAssumption`).  `OrganizationInv` says what a request has prepared wherever it writes
  (`Prepared`), that invitations give no ownership away (`FounderOwns`), and that until the founder is owner there is
  nobody and nothing else (`OwnerFirst`): a target checked before there was an owner would not be safe, and there is none.
  Proved: `OrganizationTypeCorrect`, `CreditsStayWithinLimit`, `OwnerStaysOwner`, `JoiningIsByInvitation`.
* **Query sessions** (`SessionsAssumption`, `ExecutionAssumption`).  `SessionsInv` relates the registry, the lists and the pools
  (`WorldSound`), says that a request holds a session of its own user and connection (`HoldsOwn`), and that what it noted of
  the run, the history and the answer agree where it stands (`NotesTrue`).  Proved: `SessionsTypeCorrect`, `SessionsHavePools`,
  `SessionsAreOwn`, `RepliesAreTrue`, `ClosedForGood`, `DeletedIsQuiet`.  A connection is quiet only when
  no blocking thread holds a statement of it (`loose`); only a request that is running one leaves one, and quiet has none.
  `AnswersAddUp` joins the machine with the algorithms: `AnswersInv` says that from the executor's return on a request holds
  exactly what its engine's executor computes from its statement, and its events once they are sent (`Faithful`).  That the
  events of any such result add up is a lemma about each executor (`DispatchReports`) over one about cutting rows into
  batches by division (`Batches` has no recursion, so this needs no induction).  The assumption on the constants is that a
  statement's rows are a finite sequence.
* **Oracle pool** (`PoolAssumption`).  `Inductive`: slots add up over the threads' places (`SlotsAccounted`), a thread waits beside
  an idle connection only while a notified one is on its way (`NoLostWakeup`), and threads wait only once all slots are
  opened (`FullWhenWaiting`).  From the sum of the slots and the connections `new` opened follows that nobody is
  stuck.  Proved: `TypeCorrect`, `Accounted`, `WakeupKept`, `NeverStuckHolds`.
* **Drivers** (`DriversAssumption`: a server's possible objects are finitely many and well formed, only parts belong to
  something, samples are not empty; a part has its table's database in MySQL and, but for indexes and triggers, its table's
  owner in Oracle; releases have no kind of object that came later).  The proof of `NothingStableIsLost` has two halves.
  The first speaks of what the queries list and the rows keep (`Meant`, grouped: `Reportable`).  That none of it is lost cannot
  be seen from the rows read so far: `DriversInv` therefore
  says of each object of `Meant` that has been there throughout that its row was read (`Answered`), or that
  a failed command or a full sample excuses it (`Excused`), or that some query still to come serves it (`Awaited`): directly,
  or by asking for the table, collection or SCAN that leads to that query (`Serves`).  A part's query keeps its row only if the
  table's row is there, so the invariant adds that on the engines that match rows in memory the tables of each chain come
  before their parts (`TablesFirst`), and a table asked for no more has been read.  Every row read is that of an object seen in
  this fetch (`Known`).  Per engine, a lemma shows that the chains its `fetch_schema` starts with have this form; per action, one
  shows that it is kept, DDL included, which shrinks what is meant.  What is meant only shrinks because what a query lists and
  keeps is monotone in the catalogue (`MeantMonotone`, `GroupedMonotone`).
  The second half says that what the property speaks of, in terms of the database alone, is no more than that: every kind a
  driver describes is asked for unless a version gate stands before it (`DescribedIsAsked`, for which the invariant holds the
  capabilities to be those of the banner), and an object in scope that `KnownLoss` does not name is listed, kept and grouped
  (`TopIsMeant`, `PartIsMeant`, `ScopeIsReportable`).
  Proved: `DriversTypeCorrect`, `MetadataExisted` (a row is an object's own, or Oracle's `Misfiled`), `NothingStableIsLost`,
  and `RequiredFieldsHold`, by pigeonhole: as many places as documents, none of them two in one document, leave no document
  out (`CountedEverywhere`); it says nothing of collections that exceed the sample.

**Model-checked only.**  Liveness under fairness: `EveryEventResolved`, `RequestsEnd`, `DeletedLeavesCache`, `FetchEnds` and
`ConnectionsComeBack`, which is out of the prover's reach, and for the same reason the fairness half of what `server_main`
shows.  Every other property of a passing run is proved for all instances.  The four violated properties need no proof: TLC's
counterexample refutes them.

## 5. Not modelled, and why

* Vault, shared ids, routing, response envelopes and OpenAPI documentation: no state.  Email rendering and delivery:
  external, the environment of `Outbox`.
* Configuration and start-up other than its order: they run once, before anything else.
* `update` of a workspace (name, description, color), and listings other than that of connections: no rule relates
  them to the rest.
* In drivers: the fields of a metadata row beyond names, keys and tables, `test_connection`, which keeps nothing,
  capabilities that no metadata query reads (those of MongoDB, Oracle and SQL Server among them), and SQL Server's
  `fetch_temporal_tables`, `register_new_oauth_user` of accounts and `remove_expired` of sessions, which nothing calls.
* A poisoned mutex of the Oracle pool: nothing panics while it holds one.
* The growth of `byUser` and the member limit at acceptance are hazards without a property: the first is a use of
  memory that no answer depends on, the second a rule the code does not claim.

## 6. Plan

Done, in this order: the outbox and its contract; query sessions, workspaces, refresh tokens, schema cache;
organizations; the guard and the executors inside `execute`; catalogues, versions and drivers; accounts over refresh
tokens; connections over the schema cache; the Oracle pool; proofs of all state machines, and of all safety
and action properties the runs check.  Left: a module for
several organizations and workspaces of one user, which slugs and the default workspace would need; and the
composition of `Accounts` with the organization a registration creates.
