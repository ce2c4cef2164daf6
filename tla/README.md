# Formal model of the FX trading API

TLA+ specifications of the backend in `src/`, TLC configurations that check them
on small instances, and TLAPS proofs. Line numbers refer to the files under
`src/src/`.

## 1. The system

A NestJS API over PostgreSQL (TypeORM), Redis (cache-manager) and RabbitMQ
(amqp-connection-manager). Several instances can run side by side: nothing but
the database, the cache and the queues is shared. Inside one instance every
`await` is a point where another request goes on.

| Component | State | Operations | Interacts with | What makes it correct |
|---|---|---|---|---|
| **Wallets** `wallets/wallets.service.ts` | `wallet` rows: user, currency, integer balance | `fundWallet`, `convertCurrency`, `trade`, built from `create`, `debit`, `credit`, `update` | transactions (rows), countries (rates), RabbitMQ (activity after the commit) | an order is one atomic double-entry posting or none; balances agree with the transaction rows; one wallet for a user and currency; the answer tells the truth |
| **Transactions** `transactions/transactions.service.ts` | `transaction` rows | `create`; searches | called by wallets | a row exists exactly when the money moved |
| **Exchange rates** `countries/countries.service.ts` | `country.exchange_rate`; Redis keys `exchangeRates`, `countryData_<code>`, `countryData_<from>_<to>` | `updateExchangeRate`, `getExchangeRate`, `convertCurrency`, `getFxRates` | currencyapi, Redis, wallets | a quote has a bounded age and comes of one generation of rates |
| **Cron and lock** `cron/services/localisation.service.ts`, `distributed-lock/services/distributed-lock.service.ts` | the Redis lock key and its TTL | `updateExchangeRate` job, `acquireLock`, `releaseLock` | countries | one instance runs the job; the lock becomes free again |
| **Auth** `auth/auth.service.ts` | columns of users and admins: status, `login_attempts`, the email code and its expiry | `signUp`, `signIn`, `resendEmailConfirmationOtp`, `verifyEmail` | users, admins, RabbitMQ | failures lock an account, and nothing else does; a deleted account stays deleted, a code confirms the user it was sent to |
| **Users** `users/users.service.ts` | `users` rows | `create` (with the NGN wallet), `updateProfile`, `changePassword`, `deleteAccount` | wallets, RabbitMQ | one update does not undo another |
| **Admins** `admins/admins.service.ts` | `admin` rows | `inviteAdmin`, `completeSignup`, `updateProfile`, `changePassword` | roles, RabbitMQ | an invitation is completed once and mailed only when stored |
| **Roles, permissions** `roles/`, `permissions/` | `role`, `permission` rows and their join table | create, update, remove | admins | the default role does not change; concurrent updates keep both changes |
| **Publisher** `rabbitmq/rabbitmq.service.ts` | the confirm channel | `publishMessage` | used by all services | a promise that resolves means the broker has the message |
| **Queue workers** `consumers/activities/`, `consumers/notifications/` | a channel with one outstanding delivery; retry queues with a TTL | `setupChannel`, `handleMessage`, `retryMessage` | RabbitMQ, PostgreSQL, the mail service | a message is not lost, its work is done once, retries end |
| **Seeder** `seeder/seeder.service.ts` | permissions, the super-admin role and admin, countries | `seed` at start-up | all tables | instances that start together all come up |
| **Access control** `common/guards/`, `common/decorators/`, `auth/jwt.strategy.ts`, the controllers | none: the token's user, and the permissions of the caller's role | the guards in front of every handler | users, admins, roles | money moves only for a verified email; every handler can be reached by somebody |
| **Validation and answers** `*/dto/`, `common/filters/`, `common/interceptors/`, `main.ts` | none | `ValidationPipe`, the exception filter, the response interceptor | every handler | what is stored can be used again: a password set is one that signs in |
| **Searches and lists** `findAll`, `getTransactions`, `getUsers`, `getAdmins`, `common/helpers/index.ts` | none: they read | filters, `skip`/`take`, `paginateResult` | all tables | a user's token is answered with rows of that user only; following `next_page` misses no row |

What is hard here: SQL transactions at READ COMMITTED whose reads take no lock
and whose writes overwrite; row locks taken in opposite orders; crashes between
the commit, the publication and the answer; messages rejected before they are
published again; handlers that outlive their channel; a lock made of a get and a
set; runs of a cron job that nobody is there for; caches above caches; an INSERT that is not awaited beside a publication;
entities read outside the transaction that saves them whole; lists read page by
page while rows come in. `PROJECT.json` lists these hazards one by one with
their lines and the properties that cover them.

## 2. Modules

| Module | Models | Role |
|---|---|---|
| `Exchange` | `CountriesService.convertCurrency` (142-165), the cost of a BUY (`trade`, 391-409) | pure operators: the *set* of amounts that double arithmetic can yield, so both neighbours of a rounding boundary |
| `Wallets` | all of `wallets.service.ts`, `TransactionsService.create`, the publication | one action per SQL statement; requests interleave |
| `Ledger` | what the operations promise | abstract specification: `PostingSpec`, and `ExactSpec` which also fixes the balances |
| `MCWallets` | | the instances TLC checks |
| `Worker` | `activities.worker.service.ts`, `notification.worker.service.ts` | broker, channels, handlers, faults |
| `Rates` | `localisation.service.ts`, `distributed-lock.service.ts`, `countries.service.ts` (`updateExchangeRate`, `getFxRates`, `getExchangeRate`, `fetchCountryData`), `seedExchangeRates` | the job, the lock, the refreshes and three layers of caches over time |
| `Accounts` | `auth.service.ts`, the updates of `users.service.ts`, the check of `jwt.strategy.ts` | requests on user accounts, whole-entity saves, the pool |
| `Lifecycle` | what these promise | abstract specification of an account: each operation is one atomic step |
| `MCRates` | | the instances of `Rates`: with and without quotes |
| `StaffTables` | the tables of the administration, their keys and foreign keys; a request under way; the end of a process | what the next three share |
| `Admins` | `admins.service.ts` | one action per statement |
| `Roles` | `roles.service.ts`, `permissions.service.ts` | one action per statement |
| `Seeder` | `seeder.service.ts` | the seeding of a process that starts |
| `Staff` | | composes the three over one database, with the guards of `Access` and a client of `getAdmins` |
| `MCStaff` | | its instance |
| `Pagination` | `paginateResult` | pure operator |
| `Listing` | what a client of any paged list sees | abstract specification: insertions, ties, pages |
| `Access` | the permissions constants, the decorators of every controller, the guards, `jwt.strategy.ts` | tables and operators without state |
| `Payloads` | the DTOs, the exception filter | each DTO as the predicate its decorators make |
| `Queries` | the searches, the single rows, the statistics, the rates for another base | operators over tables as sets of rows |
| `MCQueries` | | these three evaluated on small inputs |
| `WalletsProofs`, `SerialProofs`, `WorkerProofs`, `AccountsProofs`, `RatesProofs`, `ListingProofs`, `StaffProofs`, `OperatorProofs` | | the theorems, see section 5 |

`Wallets` extends `Exchange` and instantiates `Ledger` under the identity
mapping: the abstract variables are the tables and the orders, and everything
else (program counters, locks, staged writes) is hidden. `Staff` extends `Admins`,
`Roles` and `Seeder` and instantiates `Listing` with its own table of admins in
creation order as the list.

### Wallets: state and actions

`owner` and `balance` are the `wallet` table; the `transaction` table is kept as
the sums of its CREDIT and DEBIT rows for each wallet (`credited`, `debited`) and
the flows each request has rows of (`posted`). `opened`, `locked`/`staged` and
`legs` are the uncommitted INSERTs and UPDATEs of each request's transaction;
`locked` rows are also row locks. `pc` follows the awaits:

| `pc` | Code | Action |
|---|---|---|
| `idle` | validated payload, rate lookups, rounding | `FundWallet`, `ConvertCurrency`, `Trade`, `RefuseOrder` |
| `find_from` | `manager.findOne` of the source wallet | `FindFrom`, `NoSourceWallet` |
| `find_to` | `manager.findOne` of the target, `create` | `FindTo`, `OpenWallet` |
| `read` | `findOne` in `debit`/`credit` and the funds check | `ReadBalance`, `InsufficientFunds` |
| `save` | the SELECT of `manager.save` in `update`, which writes only changed columns | `SkipUpdate`, `NeedUpdate` |
| `update` | the UPDATE: waits for the row lock, overwrites | `UpdateBalance`, `OutOfRange`, `DeadlockVictim` |
| `commit` | COMMIT, which can be lost on its way or have its answer lost | `Commit`, `CommitUnanswered` |
| `publish` | `publishMessage` | `PublishActivity`, `PublishFails` |

The SELECT in `update` before `merge` returns only columns nobody changes besides
the balance, which is overwritten at once, so it is not a step. The INSERT of a
transaction row conflicts with nothing and is part of the step before
(`PostLeg`). `StatementFails` can happen at every statement before COMMIT, and rolls
back; `Crash` at every step. A connection lost during COMMIT leaves the outcome open:
`dataSource.transaction` rejects, the caller is told of an error, and the rows may be
there all the same (`CommitUnanswered`, which ends in `unconfirmed`).

### Worker: state and actions

`place` says where the one copy of a message is; `handler` has the asynchronous
handlers that run on the present channel of a worker, `stale` counts those of each
message that were started on a channel since lost: those at work, and those that
are done and about to ack. A handler acks through `channelWrapper`, so
a stale one acks on whatever channel there is: nothing happens, or another
message's delivery is acked, or the broker closes the channel over an unknown
tag; amqp-connection-manager opens a channel again after a lost connection, not
after a channel error, so such a channel stays `dead`. A rejection in
`retryMessage` after the channel is gone is handled by nobody and ends the
process (`Restart`).

### Rates: state and actions

Time is discrete: `Tick` is one unit. A rate is known by its age, so values that
were given out at the same moment are equal and `row`, `fxCache`, `countries` and
`pairs` (the table and the Redis keys) say how old what they hold is; an entry
also has the time it has left to live, and so has `lock`. Tasks are the cron jobs
(or the seeding) of the instances and the requests for the rates. A process whose
task is `starting` is down, for any time: its timer does not fire, and a run at which
no process is up is counted in `missed` (`CronTime`).

| `pc` | Code | Action |
|---|---|---|
| `starting` | the process is down; then `seedExchangeRates` looks at the US | `Seed` |
| `idle` | the cron expression; the `get` of `acquireLock`; the `get` of `exchangeRates` | `CronFires`, `FxRatesMissing` |
| `locking` | the `set` of `acquireLock` | `SetLock` |
| `fetch` | the countries and the answer of currencyapi | `Fetch` |
| `save` | one `save` for each country, no transaction around them | `SaveRate` |
| `cache` | the `set` of `exchangeRates` | `CacheRates` |
| `release` | `releaseLock`, a `del` whoever has set the key | `Release` |

`TaskFails` is an exception anywhere between: the job logs it and does not release
the lock, the seeder ends the process. `Crash` is the end of an instance (`GoesDown`).
The seeding of the next start refreshes nothing when the US have a rate, so an outage
costs the rates every run it lasted. A
quoter (`getExchangeRate`) looks its two sides up at once (`Promise.all`), each
in the cache or in the table, and fills the caches in any order.

### Accounts: state and actions

`users` and `wallets` are the tables, a row being the columns that matter here;
`mails` are the codes the broker has been given. Every update of this code is the
same three awaits, and so is the model: `Reread` (`findOne` on another connection,
and the merge; the entity is in memory), `Select` (the SELECT of `save()`, which
keeps for its UPDATE the columns in which entity and row differ) and `Update`
(waits for the row and for a uniqueness check). Before them comes the first
`findOne` of the endpoint (`NewUser`, `WrongPassword`, `RightPassword`,
`NewCode`, `CodeFound`, `Refuse`), after them `Publish`, inside the transaction,
and `Commit`. An account has a `failure` operation when the password is wrong:
`updateWithoutTxn`, in a transaction of its own on one more connection.

`FreeConnection` is the pool: a request that has begun holds a connection, a
nested save another, and each read needs one for its duration.

The outcome of `bcrypt.compare` is free. Status `suspended` is never set by this
code, so no row has it. The expiry of a code is stored and never read, and
`login_times` is only appended to: neither is modelled, but a save that changes
them still locks the row (`AlwaysWrites`).

### Staff: state and actions

`admin`, `role` (with `role_permissions`) and `permission` are the committed
tables. A request is a record in `req`: `op` and `arg` are what it asks for, `on`
the process that serves it, `pc` the statement that comes next, `copy` the entity
it has read, `plan` the difference `save()` has decided to write. A request at
`commit` has written, holds its locks, and nobody sees its rows yet. `met` has the
pairs of requests that overlapped, which the properties ask for.

| Operation | Statements | Actions |
|---|---|---|
| `inviteAdmin` | two lookups; then the INSERT, not awaited, beside the publication; COMMIT or ROLLBACK | `FindEmail`, `FindRole`, `InsertInvited` and `PublishInvitation`/`PublicationFails` in either order, `EndInvitation` |
| `completeSignup`, `updateProfile`, `changePassword` | the check, `findOne` and merge, the SELECT of `save`, the UPDATE, COMMIT | `CheckAdmin`, `RereadAdmin`, `SelectAdmin`, `WriteAdmin`, `CommitAdmin` |
| `signIn` of an admin | `findOne` and the comparison; then the same update: of the counter back to zero, with the publication inside the transaction, or of what a wrong password costs | `CheckSignIn`, `RereadAdmin`, `SelectAdmin`, `WriteAdmin`, `PublishLogin`, `CommitAdmin` |
| `roles.create` | the checks; the INSERT; COMMIT | `CheckNewRole`, `WriteRole`, `CommitRole` |
| `roles.update` | `findOne` outside the transaction; the names; the SELECT of `save`; its writes; COMMIT | `ReadRole`, `ReadNames`, `SelectRole`, `WriteRole`, `CommitRole` |
| `roles.remove`, permissions | the check; the DELETE or INSERT, which waits for locks and fails on a foreign key | `CheckRemoval`, `DeleteRole`, `CheckNames` and the rest of `Roles` |
| `seed` | the upsert of the permissions, which locks them; the reads; the saves; COMMIT; then the rates, whose failure ends the process | `SeedPermissions`, `FindPermissions`, `SaveSeed`, `CommitSeed`, `SeedRates` |

An INSERT that fails while nobody awaits its promise is an unhandled rejection and
ends the process (`InsertInvited`, second branch), with every request it serves.
`Crash` and `Restart` are the end and the start of a process at any step.

Of `login_attempts` the model knows whether it is `below` ALLOWED_LOGIN_ATTEMPTS or has
reached it (`allowed`): a wrong password below it leads to either (`Costs`), one at it
locks the admin. The root admin is not spared, no route unlocks or resets a password,
and the seeder leaves an admin who is there as he is. An update whose difference is
empty goes through the same steps and writes nothing, so it may wait where the code
does not. An answer says what the database decided: a COMMIT whose answer is lost is
told apart in `Wallets` only.

A request begins only if the guards let its caller pass (`Authorized`, `Caller`).

### Listing: state and actions

`rows` is what the query selects, newest first. `Insert` puts a committed row
anywhere, because `created_at` is the start of its transaction; `Reorder` swaps
neighbours that share `created_at`, whose order PostgreSQL is free to choose at each
query. The client is `Ask`, `ReadRows` (the SELECT with `skip` and `take`) and
`CountRows` (the second query of `getManyAndCount`, and `paginateResult`).

### Access, Payloads, Queries

These have no state, and TLC evaluates what they say on small inputs before the
run `staff`: each handler has one demand (`HandlersApart`); with the seeded permissions
all can be reached but the DELETE of a role (`UnreachableHandlers`); the three
handlers that move money want a known caller with a verified email and a status
that is not refused (`MoneyNeedsVerifiedEmail`); a search of the own transactions
returns own rows and errs only where the DTO does not look (`OwnSearchAnswers`); a
table of rates for another base is the one for USD, scaled (`DerivedRatesAgree`). The
`user_id` of a caller is that of the row `JwtStrategy` puts into the request
(`CurrentUserId`): an admin's row has none, and his token is let in on the routes of
users, where TypeORM drops a condition on an undefined value and a query builder
compares with NULL (`AdminsOwnTransactions`).

## 3. Runs

| Run | Instance | Shows |
|---|---|---|
| `wallets_concurrent` | 1 user with NGN and USD wallets, 2 overlapping requests, 3 currencies, amount 2, a BUY of a fraction, rates 1/2 and 3/2, largest integer 4 | `TypeOK`; `BalanceWithinCredits`: lost updates make no money; `AnswersMatchLedger`; `PostsAtomically`: refinement of `Ledger!PostingSpec`; `EveryRequestAnswered` under fairness |
| `wallets_serial` | 2 users, each with at most one request in flight, amounts 1 and 2 | `BalanceMatchesLedger`, `OneWalletPerCurrency`, `MovesExactly`: refinement of `Ledger!ExactSpec` |
| `wallets_lost_update` | the instance of the first run | `BalanceMatchesLedger` is violated once requests of a user overlap |
| `worker_activity` | 2 workers, 2 messages, `MAX_JOB_RETRIES` 1, at most 3 failures of a job and 2 faults | `TypeOK`; `ExactlyOnceWithoutFaults`; `OneCopy`; `FewRepeats`; `EveryMessageLeaves` under fairness |
| `worker_exhausted` | the same without faults | `RetriesAreExhausted` is violated: exhausted messages start over |
| `rates_cron` | 2 instances, 1 request for the rates, 2 countries, `Period` = `Ttl` = 2, `MaxJob` 1, one fault, one missed run | `TypeOK`; `RatesStayFresh`; `FxRatesFresh`; `LockHasAHolder`; `RowsAgree`; `RatesRefreshedAgain` under fairness |
| `rates_quotes` | 1 instance, 1 request for the rates, 1 quoter of one pair, no faults | `QuotesFresh`: the age of a quote through both caches |
| `rates_lock` | 2 instances, no faults | `OneJobAtATime` is violated: both instances acquire |
| `accounts_concurrent` | 1 user, registered or not, 3 requests, 2 of them overlapping, 2 codes, 1 attempt allowed, 4 connections | `TypeOK`; `StoredCodesWereMailed`; `UsersHaveWallets`; `LockNeedsFailures`; `EveryRequestAnswered` under fairness |
| `accounts_serial` | 2 users, each with at most one request in flight | `StepsOfTheLifecycle`: refinement of `Lifecycle`; `StaysBlocked` |
| `accounts_write_back` | the instance of `accounts_concurrent` | `StaysBlocked` is violated: a stale entity undoes a deletion |
| `staff` | 2 processes, 2 requests of any kind, 3 addresses (root, one invited, one free), 2 roles and the ones created, one permission made by hand, sign-ins at every address, a client with pages of 2, one fault; a fresh database or one in use | `TypeOK`; `ReferencesHold`; `MailsMatchInvitations`; `OneCompletion`; `UpMeansSeeded`; `SeedFailsOnlyByRemoval`; `OnlyOverlapsUndo`; `LoneUpdatesApply`; `ImplementsListing`: refinement of `Listing` |

**Bounds.** Two requests are the fewest that race, and every race of this code is
between two transactions over one or two rows; the deadlock needs two wallets
and orders in opposite directions, which the first instance has. `WalletIds` has
a free row for each request. The largest integer 4 is small enough that fundings
and conversions overflow, which stands for the 32-bit column; rate 1/2 rounds
and 3/2 gains. In the worker three failures are one more than fit in
a cycle of one retry; two faults are what it takes for a stale handler to meet a
second one. `EveryMessageLeaves` asks that a message be off for good: a rejected
message its handler is about to publish again is not off. `MaxPerUser` is a workload
assumption, not a mechanism of the code; at 1 it says that a user has one open
transaction at a time, one whose COMMIT has got no answer included. `Purchases` has
the amounts of a BUY, which need not be whole: five halves, and two.
In `Rates` the period of the job and the ttl of lock and caches are equal, as in
the code's default (one hour each), and a task takes less than that
(`ScheduleAssumption`): with 2 and 1 a job can begin before and end after a tick, a
lock left behind is there at the next run and gone at the one after. `MaxMissed` is
how many runs find no process up; a process may be down for longer than that while
another is up. `Cap` is above every bound the
properties state, so no age is cut off where a property could tell. Without faults and
outages the bounds of `RatesStayFresh` and `QuotesFresh` are the least that hold: each
less one is violated in these instances.
In `Accounts` three requests are what it takes to verify, delete and update an
account, or to lock it; two codes for two users make collisions, which real codes
make rarely. There, requests begin in the order of their numbers, which only names
them. `PoolAssumption` (more connections than requests) is a condition of liveness: with
as many requests as connections each can hold one and wait for another for ever.
In `Staff` two requests are what races: an invitation with the removal of its role,
two updates of one role, two completions; the one fault is a crash or a publication
that fails, or the rates that cannot be had after a seeding. Three admins and pages of
two make a second page; while the client is paging, the requests are invitations and
completions (`PagingApart`, the run's constraint), since no other adds a row. Somebody may
sign in at each address (`Entrants`), with the right password or a wrong one. In the
database in use the root admin has one attempt left, so that one wrong password locks
him while others are at work on his row. Requests and
processes are interchangeable there and no property of the run is a liveness
property, so the symmetry is sound.

**Fairness.** `Wallets` assumes that the event loop runs every request on and that
PostgreSQL answers statements and breaks deadlocks (weak fairness of each
request's progress and of `DeadlockVictim`); nothing is assumed of failures. That
includes that the broker takes or refuses a publication: without `publishTimeout`
the connection manager waits for a broker that is away. `Worker` assumes that the
broker delivers and expires, that handlers return and that lost connections are
made again. `Accounts` assumes that requests that have begun go on. `Rates`
assumes that tasks go on, that a process that has ended is started again (nothing in the
repository says when; the properties of safety do not need it) and that time passes, and by
the guards of `Tick` that the cron jobs of the processes that are up fire when they are due;
requests need never come. A job's failures are
bounded by `MaxAttempts`: a job that always fails circulates for ever, by the
second finding. `Staff` is checked for safety only and assumes no fairness: each
of its operations is a straight line of statements, and the waits it has are for
commits of others.

**Deadlock checking** is on everywhere: `Finished` and `Rest` are the states in
which the modelled system may stop.

## 4. Findings

1. *Lost updates* (`wallets_lost_update`, `wallets.service.ts:128`). The README
   promises data integrity through transactions (`src/README.md:77`); at READ
   COMMITTED with unlocked reads two fundings of one wallet can leave two
   transaction rows and one addition to the balance. In the shortest trace the
   second `save` even finds the balance it wants and writes nothing. The same
   interleaving lets two debits spend one balance, and `OneWalletPerCurrency`
   fails in the same way; `wallets_serial` shows that all three hold when a user's
   requests do not overlap, so serialising them (a lock, or `FOR UPDATE`) is
   enough. What holds regardless is proved: see below.
2. *Exhausted retries* (`worker_exhausted`, `activities.worker.service.ts:147`).
   After logging `Exhausted max retries` the code publishes to the main exchange
   without the header, so the message starts over instead of being given up.
3. *The lock admits two* (`rates_lock`, `distributed-lock.service.ts:18`).
   `acquireLock` gets the key and then sets it, so two instances whose cron jobs
   fire together both find it free and both refresh, where
   `localisation.service.ts:24` says that another instance is already running.
   `RatesStayFresh` and `LockHasAHolder` show what this leaves intact: the job
   is the same whoever does it, and no lock stays behind without a fault.
4. *Deletions undone* (`accounts_write_back`, `users.service.ts:156`). `update` saves
   an entity it read before, so a profile update that overlaps `deleteAccount`
   makes the account active again after "Account deactivated successfully!"
   (`users.controller.ts:85`). The same interleaving reverts a lock, a
   verification or a new password. `accounts_serial` shows that requests of one
   user that do not overlap are atomic; an UPDATE of the merged columns alone
   would be enough.

Not a contradiction of anything stated, but worth knowing: a slow refresh of
`getFxRates`, which takes no lock, can save its older rates over those of the job
that ran meanwhile. That is why `OldestRow` counts `MaxJob` twice.

## 5. Proofs

Each theorem holds for every value of the constants that satisfies the named
assumptions of the modules (positive amounts and rates, an opening table without
duplicates, `None` outside the sets it is used beside, finitely many requests and
addresses, and the like). `Safety` is the specification without its fairness.

One assumption is about time. `ScheduleAssumption` of `Rates` says that the job is due at
equal intervals, and over before it is due again. The cron expression is
EXCHANGE_RATE_CRON_SCHEDULE, or hourly if that is not set (`localisation.service.ts:16`): an
expression with unequal intervals, or with shorter ones than a job takes, is outside the
model. Nothing in the code bounds a job, so `MaxJob` < `Period` is an assumption on the
service and the database as well. The ttl of the lock, 3600000 ms whatever the
expression says, may be anything: a lock that is left behind costs `LostRuns` runs, its own and
those that come before its ttl is over, two with the defaults and more with a shorter period.

**`WalletsProofs`**, any requests, users, currencies, wallets, amounts, rates:

| Theorem | Statement |
|---|---|
| `TypeCorrect` | `Safety => []TypeOK` |
| `NoMoneyFromRaces` | `Safety => []BalanceWithinCredits` |
| `AnswersCorrect` | `Safety => []AnswersMatchLedger` |
| `ImplementsLedger` | `Safety => PostsAtomically`: refinement of `Ledger!PostingSpec` |

None of these is inductive. A commit can write any staged balance, so
`BalanceWithinCredits` needs that what is staged, and what is about to be staged,
is within the credits the wallet *will* have (`CreditInv`); that needs the debit
to come before the credit and only the order's own wallets to be written
(`LegsInv`), that the wallets found are the user's and the opened row is still
nobody's (`FoundInv`, `OpenedInv`), and `AnswersMatchLedger` needs what each `pc`
implies for the rows (`PostedInv`): none of them before COMMIT, all after one that was
answered, and all or none where a lost answer or a crash leaves it open. `IInv` is their conjunction; `Invariance`
proves it. The credits of a wallet only grow, so a step of one request keeps the
clauses of the others (`OtherRequest`): each action's lemma shows only what it
does to its own request. `ImplementsLedger` then maps `Commit` to `Posting`, the
start of a request to `Order`, and every other step to a stutter.

**`SerialProofs`**, the same with `MaxPerUser = 1` (one open transaction of a user at a
time), any number of users:

| Theorem | Statement |
|---|---|
| `BalancesExact` | `Safety => []BalanceMatchesLedger` |
| `OneWalletEach` | `Safety => []OneWalletPerCurrency` |
| `ImplementsExactLedger` | `Safety => MovesExactly`: refinement of `Ledger!ExactSpec` |

To `IInv` is added that requests in progress are of different users (`Alone`); then
the rows one of them writes or has found are not written by another (`RowsApart`),
so that a transaction sees the committed balances plus its own legs, and nothing
else (`SeesOwnLegs`), and is about to store the balance it has seen plus its leg
(`StoresTheLeg`). These are the statements a lost update makes false.

**`WorkerProofs`**, any messages, workers, retries, failures and faults:

| Theorem | Statement |
|---|---|
| `TypeCorrect` | `Safety => []TypeOK` |
| `OneCopyAlways` | `Safety => []OneCopy` |
| `ExactlyOnce` | `Safety => []ExactlyOnceWithoutFaults` |
| `RepeatsAreFew` | `Safety => []FewRepeats` |

A message is unacked on one channel exactly when its place says so (`OneHolder`), and
one handler at most is about to publish it again, while it is in no queue
(`OneRetry`). As long as there was no fault, no handler outlives its channel and
the rows tell how far the work is (`Undisturbed`).

`RepeatsAreFew` is an accounting. `Runs` counts for a message the work that is done, that
handlers without their channel (`Leftover`) are still to do, and that a delivery or retry will
do (`Pending`). `Charged` are the workers whose acks can still go wrong. A fault adds one run to
a message and charges one worker; an ack that goes wrong adds one run and takes its
worker off `Charged`. So `Paid` bounds the runs *and* the charged workers together by
1 + 2 `faults`; the runs alone are not inductive.

**`AccountsProofs`**, any users, codes and requests, any number at a time:

| Theorem | Statement |
|---|---|
| `TypeCorrect` | `Safety => []TypeOK` |
| `CodesMailed` | `Safety => []StoredCodesWereMailed` |
| `WalletsOfUsers` | `Safety => []UsersHaveWallets` |
| `LocksEarned` | `Safety => []LockNeedsFailures` |
| `ImplementsLifecycle` | with `MaxPerUser = 1`: `Safety => StepsOfTheLifecycle`: refinement of `Lifecycle` |
| `BlockedStay` | with `MaxPerUser = 1`: `Safety => StaysBlocked` |

The tables alone are not inductive: a `save()` writes what a request had in memory
long before. So `Memory` and `CodeOf` say of every entity, change and planned
UPDATE what they say of the rows: its columns are typed (`Typed`), its counter and its lock
are earned by the wrong passwords so far (`Earned`), its code has been mailed to its user or is
about to be by this very request (`Mailed`, `Promised`). `Target` says whose row it is.

For the last two, requests in progress are of different users (`Alone`). Then what an
operation has checked is still so when it writes (`Asked`), the entity in memory is the
row with its changes, and writing back the columns that differ has the effect of
writing the changes (`UpToDate`). The unique index on the code is part of the invariant,
since a request that has updated holds its key until the commit (`CodesApart`).
`Commit` then is the step of `Lifecycle` its operation names, and every other action a
stutter. Both statements are false of overlapping requests: `accounts_write_back`.

**`RatesProofs`**, any instances, requests, countries, times and faults:

| Theorem | Statement |
|---|---|
| `TypeCorrect` | `Safety => []TypeOK` |
| `FxRatesStayFresh` | `Safety => []FxRatesFresh` |
| `LockHeld` | `Safety => []LockHasAHolder` |
| `RowsStayFresh` | `Safety => []RatesStayFresh` |
| `RowsOfOneGeneration` | `Safety => []RowsAgree` |
| `QuotesStayFresh` | `Safety => []QuotesFresh` |

`Fresh` bounds the age of a response by how long its task has been busy, and the
age of an entry plus its remaining ttl by `Ttl + MaxJob`, which `Tick` keeps.

`RowsStayFresh` needs to know where in the period the clock is: a job is as old as the clock
(`OnTime`), and a lock has no more than the rest of the runs it can cost to live. `Cost` is what
faults and outages have cost so far: `LostRuns` periods for a fault, one for a run at which no
process was up. A row then is in one of two situations (`InTime`): it is within a period, a job
and `Cost`, and this run is still to save it (`Coming`); or it is younger than that by j
periods, and the lock is gone by the j-th run from here (`Unlocked`). That the seeding of a start makes up for nothing
(it refreshes only when the US have no rate) is why an outage has to be in the bound.
`RowsOfOneGeneration` rests on `Together`: of two rows one is
at most a job's length older than the other, or a task with a response as new is still to
save it; the seeding, which looks at the US only, has not stopped beyond it (`FirstRates`).
`QuotesStayFresh` follows the bound on rows through both caches: the entry of a country, the two
sides of a quoter and the entry of a pair each have one of their own (`Quoted`).

**`ListingProofs`**, lists of any length, any page size: `ListingComplete`
(`Spec => []EveryRowSeen`) and `ListingTyped`; the strengthening is `StillToCome`: a row not yet seen lies beyond the
last page read, whatever is inserted or swapped. `NextPageHasRows` and
`CountIsPageSize` are about `paginateResult`. That `Staff` implements `Listing` is proved
too, so that the theorem applies to the list of the admins (`EveryAdminShown`, below).

**`StaffProofs`**, any requests, processes, addresses, slugs, permissions and faults:

| Theorem | Statement |
|---|---|
| `TypeCorrect` | `Spec => []TypeOK` |
| `ReferencesKept` | `Spec => []ReferencesHold` |
| `MailsMatch` | `Spec => []MailsMatchInvitations` |
| `CompletedOnce` | `Spec => []OneCompletion` |
| `SeededUp` | `Spec => []UpMeansSeeded` |
| `RootAdmitted` | `Spec => []`: while a process is up, `Caller(Root, h)` for every `h` in `Handlers \ Unreachable`, or Root is locked and a sign-in at his address was refused |
| `SeedingFails` | `Spec => SeedFailsOnlyByRemoval` |
| `OverlapsUndo` | `Spec => OnlyOverlapsUndo` |
| `LoneApply` | `Spec => LoneUpdatesApply` |
| `ImplementsList` | `Spec => ImplementsListing`: refinement of `Listing` |
| `EveryAdminShown` | `Spec => [](pc = "done" => first \subseteq seen)` |

What a request read is old when it writes, so `IInv` says of each request what of it
is still true (`RequestOK`): an insertion not yet committed refers to a role that
stays, and nobody else gets its address (`Invitation`); an update never makes an
admin incomplete again (`AdminUpdate`) and never has the seeded role for its target
(`RoleUpdate`); what is written and not committed refers to permissions that stay
(`Written`). Two requests that have written have written different rows and keys:
these are the locks (`Apart`). `Relies` is the part of the tables each of them depends
on, and each commit is shown to leave it alone for all the others. A seeding keeps
what it has found from the statement on that locks it (`SeedingOK`), and the rows of
the first seeding stay (`Seeded`). The root admin stays too, but wrong passwords can lock him,
as anybody: `LockInv` says that a row is locked, or is about to be by what an update has copied
or will write, only after a sign-in at its address was refused, or by the very sign-in that is
going to be refused. So `SeededUp` and `RootAdmitted` name that one way out; an update of his
profile that overlaps the lock may even write `active` back. `SeedingFails` is about the
transaction of the seeding: that `seedExchangeRates` after it fails, and ends the process, is a
step `SeedRates` can always take. The other theorems need three more invariants:
`MailInv`, `CompletionInv` (requests in flight have met; after an accepted completion
the next one is refused) and `RemovalInv`. Their steps rest on `Moves`: a request
stays, begins, goes on or is answered, and an answer stays.

`OverlapsUndo` and `LoneApply` compare what an update has read with what the row holds by
now (`EditInv`). `RoleEdit` says that the copy, and later the difference `save()` writes, still
make of the row what was asked for unless another update of the role was accepted
meanwhile (`Changed`), and that in any case nothing asked for is taken away; `AdminEdit` is
the same for an admin, for requests that overlapped none. That only an update which overlapped the removal brings a role
back needs that a role to be created is not there yet (`Unborn`, `Inserts`), and that the seeder
takes nothing from its role needs that one process seeds at a time (`OneSeeds`). It would
be tempting to say that an update takes away only what it revokes or what an update it overlapped was
asked to grant. That is false with three updates of one role: one revokes a permission, a
stale one, which asked for something else, writes it back, and a third, which read in
between, takes it away again. What holds is that the third overlapped *some* accepted
update of the role.

`ImplementsList` needs that no two admins have the same `created_at`, so that the list has no
ties: invitations are numbered as they begin, and one in flight has a number no admin has
(`OrderInv`). `Ranks` and `OneMore` say what sorting by such numbers is: every place is taken once, and
one member more is an insertion that moves the others by one place. A step of the
administration then leaves the list alone or inserts one row (`AdminsMove`, `ListGrows`), and the
slices of `getAdmins` are the pages of `Listing` (`PageOfAdmins`). `EveryAdminShown` is
`ListingProofs!ListingComplete` through this refinement.

**`OperatorProofs`**, any amounts and rates: `BuyDelivers` (unless the rate fell between its
two lookups a BUY delivers at least what was bought, if that is whole, and otherwise at most half
a unit less: a BUY of 0.4 at the rate 0.4 costs 1 and delivers 0), `RoundTrip` (there and back
gains at most half a unit of each currency), `WorthNothing`, `ConversionDefined`;
any tables and filters: `OwnSearchIsAdminSearch`, `FiltersNarrow`, `OwnRowsOnly` (what the
routes of users answer to a user's token), `AdminOnUserRoutes` (what they answer to an admin's),
`PasswordsStayUsable`, `LastMonthPrecedes`, `PercentageAgrees`; any table of rates and base:
`RatesForAnyBase`; any caller: `MoneyNeedsVerification`. `OwnRowsOnly`, `AdminOnUserRoutes` and these
two state for every value what `MCQueries` evaluates on small inputs.

**Model-checked only.** The liveness properties: `EveryRequestAnswered` of `Wallets` and of
`Accounts`, `EveryMessageLeaves` and `RatesRefreshedAgain`, since fairness and `ENABLED` are
beyond this prover. Every safety property of the passing runs, every action property and every
refinement is a theorem. Induction over data is out of reach as well, and with
it the value of a recursive definition; no module here declares a `RECURSIVE`
operator.

## 6. Abstractions and what is not modelled

* Fractional amounts: the DTOs let them through. A funding rounds them; in `convertCurrency` and
  in a SELL they reach an integer column and make a statement fail, which `StatementFails` covers;
  a BUY is paid in whole units (`BuyCosts`), so that it takes place.
* In `Wallets` and `Accounts` the callers are users. An admin's token, which has no `user_id`, is
  modelled in `Access` and `Queries` only.
* In `Wallets` a rate is an arbitrary member of a set at every lookup; `Rates`,
  which knows rates only by their age, bounds how old what a lookup returns may be.
* In `Rates` the service knows the currency of every country: a row whose currency
  its answer leaves out keeps the rate it had, and no bound holds for it. A rate
  the service is asked for because a side has none is new.
* Messages carry no content; logging, response bodies, timestamps and references
  are left out.
* In `Staff` the texts of roles, permissions and profiles are left out; a password or
  profile is known by the request that set it. The writes of one `save` are one
  step, since nobody sees them before the commit and the locks of the first are
  still held at the last. A statement that fails for no reason of its own is no
  action: for the tables it is the same as a crash of the process at that step.
  `seedCountries` upserts a table nobody else writes and always succeeds. ALLOWED_LOGIN_ATTEMPTS
  is a number from 1 on; `.env` without it makes it NaN, and nobody is ever locked.
* `Listing` has insertions only, as no route deletes rows of the paged tables. A list
  of users filtered by status can lose rows while it is read, when a row earlier in the
  list changes its status; the lists of roles and permissions have no ORDER BY and
  no place is promised to any row.
* A text that is malformed is one value; the ids of a table are values.

Seen while modelling, contradicting nothing that is stated:

* `DELETE` of a role demands `delete:Role`, which the seeder does not install and no
  route creates, so nobody can call it (`UnreachableHandlers`).
* The guard of the users' routes admits an admin's token, and `user_id` is then undefined: the list
  of the transactions is empty (a comparison with NULL), but a single transaction is any user's
  (`findOneBy` drops the condition, `transactions.service.ts:133`) and the activities are those of
  all users (`activities.service.ts:91` applies no filter): `AdminOnUserRoutes`.
* Wrong passwords at the public `POST /v1/auth/admin/signin` lock any admin, the root admin too
  (`auth.service.ts:115`). The answer says to reset the password, and no route does; the seeder
  leaves an admin who is there as he is.
* A COMMIT whose answer is lost is answered with an error although the money may have moved
  (`CommitUnanswered`), and no operation takes an idempotency key.
* After an outage the rates stay as old as they are until the next run of the cron job: the seeding
  refreshes only when the US have none (`seeder.service.ts:150`).
* `PermissionsGuard` answers with the status 401 and a body that says 403.
* The filters `product_id` and `operator_id` of the admin's transactions name columns
  that do not exist, an `end_date` is not validated, and an id in a path may be no
  uuid: each is a statement error, answered with 500. `is_transfer` never passes
  its validation, `kyc_tier` is accepted and not used.

Not modelled:

* the currencyapi client and the sending of mails: calls of external services, whose
  results are inputs;
* the buffering of publications while the broker is away, which happens in the
  connection manager and not in this code;
* the texts of an activity: `activities.create`, which the activity worker calls
  (`consumers/activities/activities.service.ts:13`), is an INSERT and part of a worker's `Succeed`;
* `transactions.findAll`, `createTransaction`, `update`, `updateTransaction`,
  `permissions.update` and the unused helpers of
  `common/helpers/index.ts`: nothing calls them;
* `countries.constant.ts` (2958 lines of data), `payment.interface.ts` and
  `interfaces.ts` (types), the wiring of the Nest modules and the migrations beyond
  their keys: no behaviour;
* what the Swagger decorators say, and the wording of answers and logs.

## 7. What is left

1. Other columns of an administration's updates: `Staff` names a role by its slug and
   leaves out descriptions, so that two updates of one description are not told apart.
2. Properties of the search of the activities and of the lists without an ORDER BY,
   whose rows have no promised place.
3. The buffering of publications while the broker is away, as soon as it is configured in
   this code.
