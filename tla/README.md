# Plynth in TLA+

Plynth is a multi-product SaaS back end: FastAPI handlers over PostgreSQL and
Redis, a payment provider, an arq worker, and clients (SDKs in Python and
TypeScript, a desktop app, a CLI). This directory holds TLA+ models of the parts
where requests, provider events, cron runs and clients meet on shared state, the
TLC configurations that check them, and TLAPS proofs about them.

    tlc -config CreditWallets.cfg MCCreditLedger     # any .cfg with its MC module
    tlapm AllowanceProofs.tla                        # and the other ...Proofs modules

`PROJECT.json` lists the runs, the source lines each definition stands for, the
mutants that show each property can fail, the hazards and the findings.

## The system

### How it runs

Every HTTP request, webhook and cron run is one database transaction:
`session_scope` (`app/core/database.py`) commits when the handler returns and
rolls back when anything raises. PostgreSQL runs READ COMMITTED: a statement
sees what is committed when it starts. `autoflush` is off and handlers `await`
on every statement and provider call, so two handlers interleave at any of
them, in one process or in several. Only `credit.consume` and
`credit.reset_period` lock what they read (`SELECT ... FOR UPDATE`); everything
else reads, decides and writes, and SQLAlchemy's UPDATE names only the columns
whose value changed from the one loaded. One flush sends its INSERTs before its
DELETEs. Most of what can go wrong here follows from that.

FastAPI is required as `>=0.115` without an upper bound, and whether the commit
runs before or after the response is sent depends on the version, so no
property speaks of what a client holds before the commit: "ended" in the models
means committed.

### Inventory

| component | state | operations | meets | what is hard | what makes it correct |
|---|---|---|---|---|---|
| Credit wallets and ledger `services/credit.py` | `credit_wallets`, `credit_ledger` (append only) | grant, grant_plan_credits, consume, reset_period | the credits API, every subscription handler that grants a plan | grants read unlocked; several wallets in one transaction; replays by reference | never overdrawn, the journal explains the balance, a reference counts once, every request ends |
| Subscriptions `services/subscription.py` | `subscriptions`, one row per tenant | start_trial, purchase, change_plan, cancel, enter_grace, sweep | the provider is called in the middle; webhooks and sweep write the same row | lost updates, replays, rollback after the provider acted | access is lost only by cancel or lapsed grace, the plan is granted, cancelled means not charged, grace ends |
| Billing webhooks and invoices `services/billing.py`, `api/v1/webhooks.py` | `invoices` (status, attempt_count) | payment_succeeded, payment_failed, record_invoice | writes subscriptions | events duplicated, late, out of order, for a cancelled row or for none | three counted failures before grace, no access cut by events |
| Payment providers `providers/billing/` | subscriptions at the provider | create, change, cancel, parse_webhook | called by subscriptions | not undone by a rollback | no charge after cancel |
| Grace sweep `tasks/worker.py` | - | hourly cron | writes subscriptions | runs against requests | suspends only what lapsed |
| Payment reminders `tasks/payment_reminders.py` | marks in Redis | daily cron | reads invoices, mails | marks before it sends; retried and overlapping runs; days without a run | each offset mailed once, and each mark stands for a mail |
| Jobs `services/job.py` | `jobs`, its audit entries | enqueue, cancel, mark_running, mark_done, mark_failed | client and worker write one row | unlocked transitions, racing keys | replays converge, status is explained by data and audit |
| Documents `services/storage.py` | collections, documents (version, expiry, updated_at) | create, put with if_version, delete, list since | several writers of one document, syncing clients | unlocked version check, version restarts after delete, stamp before commit | no lost update under if_version, no missed change |
| Sessions and users `services/auth.py`, `services/user.py` | users, refresh tokens, reset tokens | login, refresh, logout, change, forgot, reset, Google, register, invite, (de)activate, delete | concurrent clients and administrators | rotation races, revocation against a rotation under way, rehash against a change | revoked stays revoked, tokens work once, one account per address |
| Entitlements `services/component.py` | components, overrides, plan links | set override, update, delete; two evaluators | plans, subscriptions | four statements per answer; cascades | an answer that held at some time; overrides as last set |
| Products and slug cache `services/product.py`, `api/v1/admin.py` | product row, Redis copy | resolve, patch, invalidate | every request resolves its product | invalidation before commit | stale only by a race |
| Context `core/dependencies.py` | none of its own | get_current_user, act-as, expiry, permission | reads tenants, roles, product | ten statements, tables changing under them | every ground held while it was decided |
| Tenants `services/tenant.py` | tenant tree | create, update, activate, list children | context | unlocked checks of slug and parent | two levels, one tenant per slug, picker = resolver |
| Roles `services/rbac.py`, `api/v1/roles.py` | permissions, roles, bindings | seed, create, update, assign | created with tenants | NULL in a unique key, unchecked rename, upgrade of an older database | owners own, roles complete |
| Environment variables `services/env_var.py` | encrypted rows | set, patch, delete, list | service tokens, Google exchange | flag and bytes written separately | a row can be read and has its last value |
| Service tokens, Google OAuth `services/service_token.py`, `google_oauth.py` | token rows | issue, revoke, authenticate; exchange | environment variables | use overlaps revoke; two lookups of one row | revoked for good; the secret belongs to the id |
| SDKs, desktop app, CLI | one token pair | call, refresh and retry, login, logout | the platform's rotation | concurrent refreshes, lost answers | session kept, identity kept, logout final |
| Outgoing webhooks, rate limiter, audit log, plans | rows, windows | fan-out, count, append, CRUD | every handler | see "Not modelled" | - |

## Modules

| module | models | checked by |
|---|---|---|
| `CreditLedger` | `services/credit.py` statement by statement | `MCCreditLedger` |
| `CreditAccount` | what the credit service promises: each request is one step | as a property of `CreditLedger` |
| `Subscriptions` | subscription handlers, billing webhook, sweep, provider | `MCSubscriptions` |
| `Jobs` | `services/job.py` | `MCJobs` |
| `Sessions` | `services/auth.py`, `services/user.py` | `MCSessions` |
| `Storage` | `services/storage.py` and a syncing client | `MCStorage` |
| `Entitlements` | `services/component.py` | `MCEntitlements` |
| `Products` | product row, slug cache, PATCH | as part of `Access` |
| `Roles` | catalogue, system roles, owners; extends `Products` | as part of `Access` |
| `Access` | tenant tree, act-as, admission of a request; extends `Roles` | `MCAccess` |
| `Reminders` | `tasks/payment_reminders.py` | `MCReminders` |
| `Vault` | environment variables, service token, Google exchange | `MCVault` |
| `SdkSession` | token store of a client against the platform | `MCSdkSession` |
| `AllowanceProofs` (`CreditLedger` and `Entitlements`), `BillingProofs` (`Subscriptions` and `Reminders`), `VaultProofs`, `JobsProofs`, `SdkSessionProofs`, `StorageProofs`, `SessionsProofs`, `AccessProofs` (with `Roles` and `Products`) | theorems about them | tlapm |

`Access`, `Roles` and `Products` are one composition: the lookups of `Products`
are the first statement of the requests of `Access`, product settings decide who
may act as whom, and the tenant created with an owner seeds the roles.

The operators named "Mutant of X" in a module are X with a plausible bug; no
specification uses them.

### Calls as transactions

`Sessions`, `Storage`, `Entitlements`, `Products`/`Roles`/`Access` and `Vault`
share one form. A call of `Call` reads (`...Read`: the handler's checks and early
returns, `got` keeps what it loaded), and later writes and commits (`...Write`),
or leaves. `readAt` and `wroteAt` are history: how many calls had committed when
it read, and its own place in the order of commits, so `Overlap(c, d)` says that
each read before the other committed. A property then says which departure from
the documented behaviour needs which schedule. `Storage` cuts once more, between
the flush, which stamps `updated_at` and takes the row, and the commit; `Sessions`
between the bulk UPDATE that revokes tokens and the commit.

### CreditLedger

A state has the committed tables (`wallets`, `balance`, `ledger`), the row locks
(`lock`) and per request its program counter, what it read (`seen`) and what it
has flushed (`pend`). One action is one statement.

| code | action |
|---|---|
| handler takes up a wallet (a plan grant has several, in the order the database returns `plan.features`) | `Start` |
| `_get_or_create_wallet`: SELECT; INSERT + flush | `SelectWallet`; `InsertWallet` |
| `_lock_wallet` and the product check | `LockWallet` |
| `_was_referenced`, balance == 0, balance < amount | `Check` |
| assignment, journal row, `db.flush()` | `Flush` |
| `session_scope` | `Commit`, `Abort` |
| PostgreSQL's deadlock detector | `DeadlockVictim` |

`Entry.base` is a history field: how many entries the writer had seen when it
read the balance. It lets the properties say "worked on the newest balance" and
"overlapped". Amounts are positive integers for `Numeric(18, 4)`. Each request
handles a wallet once (the feature keys of a plan are unique), so Fail leaves
the private copies in place: nobody looks at them after the end.

`CreditAccount` is the same service without transactions: a balance and a journal
per wallet, a debit or reset that acts on the balance of the moment, and a plan
grant that reaches all of its wallets in one step or none of them. `CreditLedger`
implements it under the mapping `journal <- ledger` (`ImplementsAccount`): a
`Commit` is one request of the account and every other statement, crashes
included, is a stutter. The promise is as weak as the code makes it: a grant may
build on any earlier balance of its wallet (`Granted` picks the prefix it saw),
because it reads without a lock.

### Subscriptions

One tenant's row, its invoices, the bag of credit grants, what the provider
knows, and up to `MaxOpen` sessions. A request is cut where the code awaits
something whose answer it uses later: the SELECT (`Begin`, `LoadForPurchase`),
the provider (`BeginPurchase`, `CallProvider`), the invoice SELECT
(`LoadInvoice`), and the end (`Commit`, or `Rollback` at any point). `NewRow`
gives what the session's object holds when the handler returns, `MergedRow`
what the UPDATE of the changed columns leaves in the table.

The UPDATE, the grants and the COMMIT are one step: once the UPDATE holds the row
lock, other writers of the row wait, and the only other reads, the reference
lookups of `grant`, are serialised by that lock. The provider keeps a key with the
subscription it created for it, and the plan: Stripe answers a key that comes again
as it did before (`Replays`) and refuses it with other parameters. Deliveries repeat freely (the
webhook keeps no event ids), so duplicated and late events are ordinary events.

Abstractions: one billing period (its dates only enter grant references);
`graceLeft` counts days instead of storing a timestamp; `trial_end`,
`cancelled_at`, amounts and provider names are left out because nothing reads
them; no request stays open across a day; `failed` is history, the failure events
committed per invoice, redeliveries included; it and `attempts` saturate at
`MaxAttempts` = 3, beyond which the code treats all counts alike; the provider's payloads and
signature checks are left out.

### Jobs

A job is named after the call that inserts it. The partial unique index makes an
INSERT wait for an uncommitted one with the same key (`Unique`) and fail on a
committed one (`Taken`); then `Refetch`. Transitions load (`Load`), check
(`Refused`) and write changed columns (`Write`). `Scope` is (product, tenant),
`Key` is (type, idempotency_key). A column such as `result` is modelled by
whether it is set, since no code clears one. `progress` follows `result`; the
TTL only sets `expires_at`, which nothing reads.

### Sessions

One address in one product; tenants by slug. Each table maps ids to rows, a row
being named after the call that inserted it. `session` follows a chain of
rotations back to its login. Time is not modelled: a token may turn out to be
expired at any read (the unconditional `Refuse` of `RefreshRead` and
`ConfirmRead`). A registration looks its new account up again by address
(`SignIn`), inside its own transaction. Audit rows that `login` writes in a
transaction of their own are left out; so are password policy and hash
parameters but for `stale`, which makes a login write the hash back.

A change or reset of a password and a logout revoke tokens by a bulk UPDATE, and
commit later (the session does not flush by itself, `database.py:24`): pc `revoke`,
then `write`. `Revokes` is the UPDATE's start, whose snapshot decides which tokens it
finds (`found`), and `foundAt` counts the commits before it. The rows are revoked
when the call commits; a rotation that has locked one of them makes the UPDATE wait and
finishes first, which here is its commit between the two steps. A login or a rotation
that commits there leaves a token the UPDATE does not see.

### Storage

One tenant, one collection. `row` names the insert, `writer` the last call that
updated the row; a deadline is named after the call that computed it. An earlier
request may have left a document at version 1 (`Left`). `Asked` are the values,
`if_version` and `ttl_seconds` that puts carry. SQLAlchemy leaves a column out of the
UPDATE when it equals the one loaded (`Set`), so another call's value or deadline may
stay. `updated_at` is whatever the clock of some process reads (`Clock`): several
processes serve requests, and each reads its clock before it waits for the row
(`models/base.py:43`), so stamps may be equal, or in another order than the commits.
A client (`Sync`) asks for what changed since the newest `updated_at` it was told, and
remembers of which write of a document it was told; a page is any one that ORDER BY
and LIMIT allow (`FirstOf`).

### Entitlements

One component code, one user of one tenant. The two evaluators read component,
user override, tenant override and plan one statement after the other; `held`
collects the answers that were right at some time meanwhile, `changes` counts
commits under it. Its names differ from those of `CreditLedger`
(`EntitlementsSpec`, `rows`, `at`, `asked`, ...), as `AllowanceProofs` extends both.

### Products, Roles, Access

A lookup hits Redis or reads the row and stores its status (`SlugEntry.readAt` is
history: how many calls had committed when it read); PATCH flushes, drops
the Redis copy (or fails to) and commits. `Roles` starts from databases that two
earlier releases leave (`Installed`): whoever creates an owner brings catalogue
and system roles up to date first, from what it read before. The creating call is
cut once (all reads, then all writes): its catalogue reads and inserts follow each
other with no commit in between. `Access` takes a request through
`get_current_user` and `require_permission` statement by statement; a tenant
loaded once is not loaded again (SQLAlchemy's identity map: `rows`). `seen` is
history: the grounds that held for each tenant at some time since the request
began. The roles bound to the user are taken as one role: the one its tenant has of
its own at the start, whose permissions PATCH replaces, or a system role. PATCH
refuses system roles (403) and renames a tenant's own, looking for the new name
nowhere: only `uq_roles_product_tenant_name` refuses it, which does not see the
system roles. What permissions the tenant's further roles have is left out. The
name two roles have is accounted for (`NamesakesAccountedFor`): two system roles by
seedings that overlapped; a tenant's own and a system role by a PATCH, or by a
system role that its creator could not see yet; never two of a tenant's own.

### Reminders

A run lists the unpaid invoices, takes them one by one, marks (SETNX), looks the
owner up, mails. Two attempts a day stand for the cron job and arq's retry of it,
which may overlap. `dropped` and `forgotten` are history: marks whose mail was
given up, and marks Redis lost. Its names differ from those of `Subscriptions`
(`RemindersSpec`, `RemindersNext`, `StartRun`, `DaysPass`, ...), as `BillingProofs`
extends both.

### Vault

Two keys, the id and the secret of one Google client; the secret is server-only.
`secret` is the flag, `sealed` what the bytes are: they agree unless two writes
overlapped. A PATCH of `is_secret` reveals the value and sets it again
(`toggles`), looking for the row a second time (`PatchReadAgain`): a variable deleted
between the two looks is inserted again with its old plaintext. A row that a session
has loaded is not read again as long as its primary key is the same, and is a new row
when the variable was deleted and created again (`Loads`). One service token row; its
uses authenticate, stamp the row, and list the variables or exchange a code, which
looks the id and then the secret up among what it listed (`FindId`, `FindSecret`).
`kept` says that both were rows of the listing: a row created since comes as it is,
and goes with an id it never was in the vault with. `pairs` is history: every
(id, secret) the vault has held together.

### SdkSession

One client, an SDK or (`app`) the desktop app or CLI, whose logout drops the
session whatever the platform answers. Its calls share `store`. A pair of tokens
is numbered as it is issued. A call builds its headers, is sent, answered; a 401
leads to one refresh and one retry (`retried`). Requests, answers and refreshes
may be lost (`Fails`, `CutRefresh`). The platform's half of a refresh is two steps
as in `Sessions`. `met` is history: the calls that could touch the store while this
one ran; so is `emptied`: the calls between whose refresh and retry another call
emptied the store. The account stays active. A 401 of the handler itself (a wrong
current password, `auth.py:320`), which a client takes for an expired token, is left
out: it leads to the same refresh and one retry.

## Runs

| run | instance | shows |
|---|---|---|
| `credit_wallets` | 3 requests, 2 wallets, 86k states | no overdraft, journal safe, drift only from overlap, every request ends, every commit is one step of `CreditAccount` |
| `subscription_serial` | 1 session, everything that can be asked, 2 grace days, 2 invoices, 110k states | grace has its deadline and ends, cancelled is not charged: what holds when requests do not overlap, crashes included |
| `subscription_concurrent` | 2 sessions, 2 provider subscriptions, 2.4M states | what holds whatever overlaps: grants, loss of access, grace, suspension |
| `jobs_overlapping` | 4 calls, 2 tenants, 270k states | keys converge, never across tenants; statuses keep their data and audit entry; every call ends |
| `sessions_overlapping` | 3 calls, 2 slugs, 2 passwords, 344k states | a new password ends the sessions its UPDATE finds but for an overlapping rotation; tokens work once but for overlap; barred users mint nothing; one account per tenant |
| `sessions_old_claim` | 2 calls | a session older than a reset goes on (`api/v1/auth.py:171`): violated |
| `storage_overlapping` | 4 calls, 2 of them open at once, 2 keys, 2 values, if_version 1, 2 or none, stamps 1 and 2, pages of one, 1.2M states | the last call on a key stands, every put counts, an if_version wins once, versions fall and syncs miss only by the schedules and stamps named |
| `entitlements_overlapping` | 2 calls, 1 evaluation, 1.7M states | an answer held at some time unless torn; overrides as last set, none orphaned |
| `access_overlapping` | 2 of calls and lookups, 1 request, 3 slugs, 2 installed releases, role updates with a name, permissions or both, 622k states | admission on grounds that held, tree and picker, stale cache, roles |
| `reminders_daily` | 2 invoices, 2 runs, days 7, 10 and 14 around a due day 7 | mailed once, every mark accounted for |
| `vault_overlapping` | 2 calls, 1 reader, 2 values | rows readable, rotations kept, secrets go with ids, revocation final |
| `sdk_session_shared` | 2 calls, 3 pairs, 347k states | session, identity and logout of one client; calls end |

`CHECK_DEADLOCK FALSE` stands where the system really stops: every request of an
instance has been made.

Several properties are conjunctions of named parts, each stated and explained in
its module: `JournalSafe`, `SuspensionHolds`, `Coherent`, `PurchasesAddUp`,
`AnswersConverge`, `HistoryExplained`, `PasswordEndsSessions`, `TokensWorkOnce`,
`AccountsHold`, `WritesLand`, `OverridesHold`, `TenantTreeHolds`, `UpdatesLast`,
`RolesHold`, `RemindersAccountedFor`, `VaultHolds`, `SessionHolds`, `LogoutHolds`.
Each module's type invariant is part of one of them.

**Bounds.** Credits: three requests over two wallets contain a lock cycle of two
plan grants with a third request watching, a debit between two grants, a
reset between two debits, and every pair with a shared reference. Subscriptions:
two sessions give every race of two handlers; a third session meets the row only
through the same unlocked read and merged UPDATE. Two provider subscriptions let
a purchase be a replay, or new and of another plan; three attempts are the limit in the code; two
grace days separate "not yet" from "lapsed" and "today". Jobs: four calls are an
enqueue and three transitions, or a winner that crashes with two waiting replays
and a bystander of another tenant. Sessions: three calls are a login, a rotation
of its token and the change of password that overlaps either, cut at its UPDATE. Storage: four calls
are two conditional puts with a deletion and a re-creation between them, or with
two puts of which the later to commit overlapped the other; every property
is about pairs of calls that overlap, so two are open at once (`MaxOpen`; without any
one of their exceptions `ConditionalPutWinsOnce`, `ExpiryIsTheWriters`,
`LastCallStands`, `EveryPutCounts` and `SyncMissesOnlyOvertaken` fail in this run); puts are unconditional or on version 1 or 2, with the default deadline or
none, of the value that may be there or another; two stamps are an earlier and a later
one or a tie, and a page of one document splits a tie. The others: two calls are every pair that can overlap, and an evaluation, a request or
a use between them; `Access` bounds calls and lookups together (`MaxStarted`).
Reminders: the days are those on which an offset matches, and one that is skipped
stands for a worker that was down. `MaxPair` is above the number of calls, each of
which needs one pair at most, so no call is ever without a pair (an assumption TLC
evaluates).

**Fairness.** Weak fairness on what the server does with a request it has begun:
the event loop runs every ready task, and PostgreSQL grants a lock that is free
and aborts one transaction of every wait cycle. Nothing is assumed of clients or
of crashes: requests may never come, and a begun one may abort. For `GraceEnds`
also strong fairness of the day's passing and of the sweep: it is a cron job that
is started 24 times a day whatever happened to the run before (the model counts
it startable only while its WHERE finds a row and a session is free, and that
may alternate with other requests, hence strong), and that *not every* run of it
is rolled back, which is the one operational assumption. For `CallsEnd` weak
fairness per call of the client's own steps and the platform's answers: both
clients time out, so a request is answered or fails. The other modules state
safety only: nothing in them waits.

## Properties and what they rest on

Properties marked "one request at a time" in `Subscriptions` (`Coherent`) are checked
with one session because they are false with two: an unlocked read lets an
overlapping event leave an old subscription's cancel on a new one, and clear
`graceLeft` under a status `grace`, a grace period the sweep never finds. What the
code keeps under overlap is in `subscription_concurrent`. There a departure needs a
session that writes from a copy another commit has made stale (`Stale`): the sweep
suspends a tenant who has just paid, an event reactivates a suspended one, a
purchase that loaded an active row leaves the suspension committed meanwhile.
`SuspensionHolds` says that nothing else does. `GraceAfterThirdFailure` counts
committed failure events: a lost count only delays grace, but three deliveries of
one event are three. `PurchasesAddUp` speaks of references: a tenant who changes to
another plan and back is granted under each reference once, and at once, which is
not what `docs/billing.md:37-38` says (known divergences).

Everywhere else the overlap is part of the property: names that end in
`...ByOverlap`, `...FromOverlap`, `...UnlessTorn`, `...ByRace` say exactly which
schedule a departure from the documented behaviour needs.

## Proofs

The proofs hold for any sets of requests, wallets, references and
products and any positive amounts. `AllowanceProofs`, of `CreditLedger`:

- `TypeCorrect`: `Spec => []TypeOK`;
- `Invariance`: `Spec => []IInv`;
- `NoOverdraft`: `Spec => []NeverOverdrawn`;
- `JournalSafety`: `Spec => []JournalSafe`;
- `ReconcilableUnlessOverlapped`: `Spec => []DriftOnlyFromOverlap`;

and that it implements `CreditAccount`:

- `AccountInvariance`: `Spec => []AccountInv`;
- `Refinement`: `Spec => ImplementsAccount`.

Assumptions: the `ASSUME`s of `CreditLedger` (requests are well formed and only a
grant names several wallets, there is a wallet, "no holder" is not a request,
every wallet has a product), which TLC evaluates on every run.

None of the safety properties is inductive: a balance stays non-negative only if
the entries about to be committed are right. `IInv` adds that

1. every committed entry *fits* its predecessors (`JournalInv`): it was computed
   from an earlier balance, a debit or reset from the latest one, its result is
   not negative and its reference did not occur in what its writer had seen;
2. what a session read is the balance after some prefix of the journal, the
   whole journal if it read FOR UPDATE, and it then holds the lock (`ReadOK`);
3. a flushed entry fits the whole journal and is covered by the row lock
   (`PendOK`), so committing it appends a fitting entry.

The key lemma is `FitsExtension`: an entry that fits a journal still fits after
others appended to it, except a debit, whose wallet is locked so that nobody
does. Each action then has one lemma (`...Keeps`).

The refinement needs more: a commit must do *all* that was asked for. `AccountInv`
says that a flushed entry is what its request asked for (`PostedOK`) and that every
wallet a plan grant has left behind is `Settled`: its entry is flushed, or the
journal carries the reference, which journals never lose (`PlaceOK`).
`FitsIsPost` turns a fitting entry into a step of the account, `CommitGrants` and
`CommitDebits` do the two kinds of commit, and every other action leaves balance
and ledger unchanged.

The sum of a journal is a recursive function. `SumIs` says that it is the last of any
list of partial sums of the same amounts, since two such lists would have a least
place where they differ (`Least`, from the library's `WFMin`); where every entry was
computed from the one before it, the recorded balances are such a list.

Of `Entitlements`, for any calls, evaluators and plans:

- `EntitlementsInvariance`: `EntitlementsSpec => []EntitlementsInv`;
- `AnswersHeld`: `EntitlementsSpec => []AnswerHeldUnlessTorn`;
- `OverridesAsSet`: `EntitlementsSpec => []OverridesHold`.

`EntitlementsInv` says what an evaluator would answer if nothing changed any more
(`Completed`). While nothing has changed, what it has read is what there is
(`Current`); after one change, what it has read of the changed table decides whether
it goes on to the answer from before or to the one from after, and both were right at
some time. The exception is a deletion of the component it has loaded, which takes the
overrides along in the same commit (`DeletedUnder`). A set that is still to update an
override has loaded the flag there is, or another set of it has committed since
(`RowIsFresh`): so an UPDATE that leaves `enabled` out because it did not change leaves
what was asked for, unless sets overlapped. Assumed: the names differ, and `None` is no
row.

`BillingProofs`, of `Subscriptions` for any sessions, plans, requests, invoices and
provider ids, and any number of sessions open at once:

- `SubscriptionInvariance`: `Spec => []IInv`;
- `CreditsAddUp`: `Spec => []PurchasesAddUp`;
- `AccessLost`: `Spec => AccessLostOnlyBySweepOrCancel`;
- `GraceNotEarly`: `Spec => GraceAfterThirdFailure`;
- `SuspensionIsKept`: `Spec => SuspensionHolds`;

and for `MaxOpen = 1` and finitely many sessions, as that property is meant:

- `SerialInvariance`: `Spec => []SerialInv`;
- `RowIsCoherent`: `Spec => []Coherent`.

A grant is refused when its reference was granted before, so the period that is
charged has its credits only if the earlier grant was for the same plan. It was, since a
reference tells the plan (`Meant`): a period names a provider subscription, the
provider knows what that was created for, and a purchase that goes on has one that
was created for its plan (`HasBought`). An invoice never counts more failures than
events of it were committed (`Counted`), though an overlapping event may write a
count from an older one: that one was no larger. What the UPDATE of changed columns leaves is
worked out once (`MergedFacts`, `CommitRow`): each column is the object's, or, where
the handler did not change it, the row's. `SerialInv` adds that the loaded row is the row
(`Fresh`), so the UPDATE writes the object as it stands. Assumed: requests are well
formed, and NULL is no value.

Of `Reminders`, for any invoices, due days, calendar and number of runs:

- `RemindersInvariance`: `RemindersSpec => []RemindersInv`;
- `NoSecondReminder`: `RemindersSpec => []RemindedOnce`;
- `EveryReminderAccountedFor`: `RemindersSpec => []RemindersAccountedFor`.

That a run may mail rests on what it holds being marked, unmailed and in no other
run's hands, or forgotten by Redis (`HandsAreMarked`, `HandsAreSole`); that no
invoice is passed over, on every mark being mailed, dropped or in some run's hands
(`MarksAreSettled`, `PassedAreSettled`). Assumed: there is a first day, and due days
are integers.

`VaultProofs`, for any calls, readers and values:

- `VaultInvariance`: `Spec => []IInv`;
- `RotationsAreKept`: `Spec => []VaultHolds`;
- `SecretsGoWithTheirIds`: `Spec => []SecretGoesWithItsId`;
- `RevocationIsForGood`: `Spec => RevokedForGood`.

What makes it inductive is what a call that is still to write knows: the row it
loaded is the row there is, or another write of that variable has committed since
it read (`ReadsAreFresh`), and the value a toggle writes back is the last
rotation's, with the same exception (`TogglesAreFresh`); a PATCH's second look finds
the row it had or the one there is (`PatchReadAgainKeeps`). What an exchange found
among the rows of its listing is as it was listed (`AgainIsListed`, `FoundKept`), so
that the pair it sends is one of the listing's. `CommitIsLast` says that a
commit comes last and overlaps every commit since its call read; `CommitsAddUp`
that what has overlapped stays so. Assumed: `VaultNamesAssumption`, that the names
differ.

`JobsProofs`, for any calls, tenants and keys:

- `JobsInvariance`: `Spec => []IInv`;
- `EnqueuesConverge`: `Spec => []AnswersConverge`;
- `StatusIsExplained`: `Spec => []HistoryExplained`;
- `TerminalIsKeptSerially`: `Spec => TerminalLeftOnlyByOverlap`.

That racing enqueues converge rests on one call at most holding a key, committed
or not (`KeysHeldOnce`): the index makes an INSERT wait for the one before it. That a
status comes with its data rests on `LoadedIsOlder`: no code clears a flag, so the
UPDATE of what a transition changed (`MergedRow`) adds flags to the present row and
sets its status. Assumed: what a call may ask is well formed, and `None` and `NoKey`
are no rows and no keys.

`SdkSessionProofs`, for any number of calls and pairs, with or without god mode:

- `SdkInvariance`: `Spec => []IInv`;
- `SessionsAreNotLost`: `Spec => []SessionHolds`;
- `RetriesKeepTheirName`: `Spec => []RetryKeepsIdentity`;
- `LogoutIsFinal`: `Spec => []LogoutHolds`.

A call that touches the store meets every call that runs (`RunnersMeet`), so a call
that has met nobody runs among calls that leave the store alone (`OthersCalm`): a
logout then names what the store holds (`LogoutsName`), a refresh renews it
(`RefreshesHeld`). Of one session only one pair is good (`SessionsAreSole`), unless two
calls that ran at once both refreshed (`Forked`), which a later logout that met nobody
does not undo; it takes three calls, so the run with two does not show that exception
at work. `Summary` says once what a step of a call may do to the
store and to the platform, `StepArrives` where it arrives; each part of the invariant
is then one lemma (`Keeps...`). Assumed: `SdkAssumption`, that there are enough pairs
for the calls.

`StorageProofs`, for any calls, keys, values, puts, clocks, limit of a listing and bound on open calls:

- `WritesLandAlways`: `Spec => []WritesLand`;
- `SyncsMissOnlyOvertaken`: `Spec => []SyncMissesOnlyOvertaken`;
- `VersionsFallByOverlap`: `Spec => VersionFallsByOverlap`.

The row a call loaded is the row there is, or whoever changed it committed after that
(`ReadsAreFresh`); so the version a put writes is above what its predecessors read,
unless it sets the version back (`PassedAt`), it counts one more write (`CountsAt`), and
a value it leaves alone is its own or an overlapping put's (`ValuedAt`). A page holds
every change older than one it holds (`PagesAreClosed`), which is why a cursor moves
past no document that is there but one with the cursor's own stamp. Of the clocks it is
assumed only that they read positive numbers (0 stands for "never"); besides, that the
names differ, and that calls and keys are finite in number.

`SessionsProofs`, for any calls, tenants and passwords:

- `PasswordEndsTheSessions`: `Spec => []PasswordEndsSessions`;
- `TokensWorkOnceAlways`: `Spec => []TokensWorkOnce`;
- `LastPasswordStands`: `Spec => []PasswordIsTheLastSet`;
- `AccountsHoldAlways`: `Spec => []AccountsHold`.

Of the invariant `History` speaks of the tables and of the calls that committed,
`Open` of what a call that has read still knows; a step that commits nothing leaves
`History` alone, and the `Shapes` sum up what each commit does to each table. A
session's tokens form a chain with one leaf, or two rotations of one token
overlapped (`OneLeaf`, `SiblingsOverlap`). A call that ends all sessions has found
every good token of the user, but for those committed after its UPDATE began
(`OpenFound`); when it commits, such a token of an older session is itself the
rotation that carried the session over, and later ones read their token before the
commit or had a rotation before them in the chain that did (`Outlives`,
`OpenRefresh`). Nobody sets `stale` again, so a login that rehashes has read before
any change (`FreshHash`, `OpenPassword`). Whoever barred a user who is active,
somebody has activated the user since that call read (`BarsHold`). Assumed: names
differ, calls are finite in number, and `None` is no row.

`AccessProofs`, for any number of calls and lookups, any slugs, features, role
templates, lists of codes and rows of an earlier release:

- `AccessInvariance`: `Spec => []IInv`;
- `OldStatusNeedsRace`: `Spec => []StaleOnlyByRace`;
- `UpdatesStay`: `Spec => []UpdatesLast`;
- `SeededRoles`: `Spec => []RolesHold`;
- `TreeOfTenants`: `Spec => []TenantTreeHolds`;
- `AdmittedFairly`: `Spec => []AdmittedOnGrounds`.

`IInv` has a part per table (`PatchInv`, `CacheInv`, `RolesInv`, `TenantInv`,
`GrantInv`), each with what a call still to commit knows of it: what it loaded is
there still, or another call of the kind that writes it has committed since. A step
is `Calm` (none commits) or a `Commit`; each part is kept by the former, by commits
that do not touch its table, and by those that do, one lemma each. Seeding is one
lemma (`SeedRows`): each role it leaves is a row grown or a new one, so every system
role is complete afterwards whatever was there. `AskInv` follows a request: the
statements it has passed have seen their grounds hold (`Passed`), and a row that
SQLAlchemy's identity map keeps was the tenant's when it was loaded (`TrueRow`), which
is why the expiry a request decides on later held at some time. A PATCH leaves every
system role as it is (`RoleCommits`), and the name it gives to one of the tenant's
own stays witnessed by its call for as long as the row has it (`IsRenamed`).
Assumed: the names differ, calls are finite in number, and what an earlier release
left are roles and permissions of this one, each role once, of which at most one is
a tenant's own, and has no system role's name.

Model-checked only: liveness (`EveryRequestEnds`, `GraceEnds`, `EveryCallEnds`,
`CallsEnd`), which rests on fairness and ENABLED and is out of this prover's reach,
and the counterexample of `sessions_old_claim`. Every safety property of a passing run
is also a theorem.

## Known divergences

Shown by a run: `sessions_old_claim`, with its finding in `PROJECT.json`. Seen in
the code while modelling, and not given a run of their own:

Billing

- `docs/credits.md:19` says the balance is always the journal's sum; two
  overlapping grants lose one (`credit.py:81`). `DriftOnlyFromOverlap` is what holds.
- `models/credit.py:79` says the reference dedupes replays; two overlapping grants
  under one reference are both applied (`credit.py:79`). See `JournalSafe`.
- `docs/billing.md:65`: only lapsed grace is suspended; the sweep may suspend a
  row that was just paid (`subscription.py:295`).
- `services/subscription.py:9`: cancelled only becomes expired; a failure event
  makes it past_due, which has access (`billing.py:75`).
- An invoice without subscription matches, and moves to past_due, a trial without
  provider id (`webhooks.py:98`; `docs/billing.md:7`).
- `docs/billing.md:37-38`: credits of a new plan come with the next period and never
  twice; change_plan grants at once and under a new reference (`subscription.py:211`).
- `docs/architecture.md:1458`: a replay returns the first response; a replayed
  purchase executes again (`subscription.py:147`), and the `idempotency_keys`
  table is never read or written.
- `trial_end` is stored and never acted on (`docs/billing.md:7` promises active or
  suspended); `cancel_at_period_end` is set and never acted on; the status `expired`
  is never assigned.
- A payment_failed event that arrives after the payment reopens the paid invoice; a
  redelivered one counts as a further attempt.
- A second purchase under a new key, or one that rolls back, leaves a provider
  subscription live with nobody referring to it (`models/subscription.py:31`).
- Reminder offsets count days from now to the due date, so -3 is sent three days
  *after* it and 7 seven days before: the opposite of `docs/billing.md:68` and of the
  comment at `payment_reminders.py:21`.

Jobs, documents, accounts

- `models/job.py:52-53`: terminal states are absorbing; an overlapping transition
  overwrites one (`job.py:237`). `TerminalLeftOnlyByOverlap` is what holds.
- `storage.py:150` "Bumps `version` by 1 on each write": overlapping puts count from
  one loaded version, so the version can fall and an `if_version` that was used up
  matches again; a deletion restarts it. A delta sync never mentions deletions, and
  passes for good over a write whose stamp equals the newest the client was told, or
  that was stamped before another and committed after it.
- A login or a rotation that commits between the UPDATE of a password change or
  reset (`auth.py:325`, `auth.py:421`) and its COMMIT leaves a good token, whatever
  `api/v1/auth.py:172` says of old sessions; `sessions_old_claim` shows the rotation.
- `models/user.py:73` "Single-use": two overlapping redemptions both succeed.
- A login without tenant slug takes any of the address's accounts.

Access

- `dependencies.py:181-183`: the platform token is "a true super-user across every
  tenant-scoped route"; its logout fails on the audit row's foreign key
  (`services/auth.py:311-314`, `models/audit.py`), since it is no row of users.
- PATCH of a role with a permission it keeps answers 409: the flush inserts before
  it deletes (`roles.py:125-132`).
- POST /roles refuses a name that a role visible to the tenant has
  (`roles.py:60-70`); PATCH does not look (`roles.py:120-121`), so a tenant's role
  takes a system role's name with no call overlapping.
- Overlapping seeds create a system role twice: its tenant is NULL (`rbac.py:178`).
- `models/tenant.py:36`: nothing enforces a tenant's status.
- `env_var.py:8` promises an audit row per change; none is written for a product
  without a root tenant.

Clients

- `docs/INTEGRATION.md:134-138`: only a refused refresh ends a session; a transport
  error, a 429 or a 5xx on the refresh clears it too (`client.py:120`).
- A logout whose access token has expired revokes the token its own refresh has
  just replaced, and leaves the new one live (`resources/sync.py:98-103`).
- A 401 for a service token, or of the desktop app's `/admin/` calls
  (`api/client.ts:167`), spends the user's refresh (`client.py:101-105`).
- Whatever 4xx Google answers is the platform's 401.

Other hazards of the code, beyond those listed in `PROJECT.json`: reminders for an
invoice that is paid while the run goes on (covered by `RemindersAccountedFor`);
the use stamp of a service token holds the row's lock until the request ends,
Google's answer included, so requests with one token queue; two CLI commands write
one temporary file, and the whole configuration from what they loaded
(`plynth_cli/config.py:61`); the rate limiter counts refused requests, takes two
requests of one millisecond and one object address for one, and admits everything
while Redis is down (`middleware/rate_limit.py:44-52`).

## Not modelled, and what is left

- Outgoing webhooks: `dispatch()` has no caller, and no worker delivers anything.
- Rate limiter: one atomic Redis pipeline per request.
- Plans, and the single-row updates of profiles, tenants' names, products: CRUD over
  unique keys.
- The audit log as such: append only, inside the caller's transaction.
- Signatures, hashes and the cipher; request and response schemas; the connection
  pool; the providers' HTTP payloads; the ContextVars of `core/tenant.py`, which
  belong to one task.
- Scripts, migrations, examples and user interfaces: no shared state of their own.

The order followed was: `CreditLedger`, `Subscriptions`, `Jobs`, `CreditAccount`,
then `Sessions`, `Storage`, `Entitlements`, `Products`/`Roles`/`Access`, `Reminders`,
`Vault`, `SdkSession`. What would come next is a service of its own as a property for
the other components, as `CreditAccount` is for credits: a job table whose transitions
are atomic, and documents with a version that only rises, each with the exceptions
that overlap allows.
