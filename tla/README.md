# The wallet service in TLA+

A formal model of the wallet service in `src/wallet_service`: TLA+ modules, the TLC runs
that check them on small instances, and theorems that the TLA+ proof system checks for
every instance. `PROJECT.json` lists the components, the runs, which source lines each
definition stands for, the hazards and the findings.

## 1. Inventory

The service owns customer balances. Several gunicorn workers (`Dockerfile:16`) serve HTTP
calls; all state is in one Postgres and one Redis.

| Component | State | Operations | Source |
|---|---|---|---|
| Writes | none of its own | topup, deduct, refund | `service.py` `_apply`, `_write`, `_apply_refund`, `_write_refund` |
| Creation and reads | none | create_wallet, get_balance, get_transactions | `service.py:117-142` |
| Repository and tables | wallets, transactions, processed_requests | queries, inserts, row lock | `repository.py`, `models.py` |
| Redis lock | one lock per spelling of a wallet id, with a token and a time to live | acquire (blocking, 5 s), release, expiry (10 s) | `lock.py` |
| Balance cache | one balance per spelling of a wallet id, with a time to live | get, set, expiry (30 s) | `cache.py` |
| HTTP layer | none | validation, choice of the idempotency key, error mapping | `routes.py`, `schemas.py`, `errors.py`, `app.py` |
| Schema set-up | tables, columns and constraints; the Alembic version | upgrade, downgrade, create_all | `migrations/`, `db.py` |
| Order service stub | what it was told of each order | place an order, place it again, time out | `order_service_stub.py` |
| Operations | counters, start time | health, metrics, docs | `ops.py`, `metrics.py`, `openapi.py`, `logging_config.py` |

How they interact. A write takes the wallet's Redis lock, looks its idempotency key up in
a transaction of its own, then opens a second transaction: `SELECT ... FOR UPDATE` on the
wallet, the business rule, `UPDATE wallets` and `INSERT INTO transactions`, `INSERT INTO
processed_requests`, `COMMIT`. After an `IntegrityError` it looks the key up again. It
gives the lock back and only then writes the new balance to the cache. A read asks the
cache, and on a miss loads the balance and fills the cache; it takes no lock.

What is hard. Four mechanisms overlap - Redis lock, row lock, primary key of the
idempotency records, unique refund - and any of the first may be missing at the moment it
matters: the Redis lock expires under a slow holder, or two spellings of one id are two
locks; a worker dies between any two round trips; COMMIT may take effect unacknowledged;
Redis may fail before or after the money moved. The cache is written outside every lock.
Rows are listed by the time their transaction began, not by the order of commits. A client
waits as long for an answer as the service may wait for a lock alone, so attempts go on
after it has left. Two tools build the schema, and one of them does not tell the other.

What makes each part correct:

- writes: the ledger explains the balance, nothing is oversold, a key and a refund apply
  once, the answer is true and the same for every attempt under a key, a retry gets the
  original's answer, no calls wait for each other, every call is answered;
- tables: history is append-only, records and rows agree;
- Redis lock: an abandoned lock is freed; a release never frees another's lock;
- cache: shows only committed balances, and settles;
- history: newest first, it reads as a running balance;
- order service: an order is charged at most once, and what its client was told is true;
- set-up: the schema is never half built, a container serves on the newest one.

## 2. Modules

| Module | Models |
|---|---|
| `WalletData` | wallets and the spellings of their ids, keys, requests, rows, records, replies, the fingerprint; the assumptions on the constants |
| `Tables` | the committed contents of the three tables, the repository's queries, `LedgerReconciles` and `RefundsReverseOnce` |
| `RedisLock` | the per-wallet lock |
| `BalanceCache` | the balance cache |
| `WalletService` | the calls: one action per round trip to Postgres or Redis, faults, fairness |
| `Ledger` | the abstract promise: a request moves money in one indivisible step or not at all |
| `WalletCorrectness` | the properties, and the refinement of `Ledger` |
| `DocClaims` | claims of the documents, comments and tests that the code does not keep |
| `History` | `GET .../transactions`: the begin time of every row, and the listing |
| `OrderClient` | the order service in front of the wallet service |
| `Payment` | the abstract promise to the order service |
| `Schema` | migrations, `create_all` and boots, run side by side |
| `MCWallet`, `MCHistory`, `MCOrders`, `MCSchema` | the small instances |
| `WalletService_proofs`, `Idempotency_proofs`, `Replies_proofs`, `Redis_proofs`, `Orders_proofs`, `History_proofs`, `Schema_proofs`, `Claims_proofs` | the theorems, section 5 |

`WalletService` extends `Tables`, `RedisLock` and `BalanceCache`, whose variables are the
shared state, and adds the state of each call. `History` and `OrderClient` extend it
through `WalletCorrectness` and run it unchanged. `Schema` stands alone: the service does
not run before the schema is there. The correspondence:

- `pc[c]` is the next round trip of call `c`. A call is one HTTP request; a retry and a
  duplicate are calls of their own. Python between two round trips is local and runs with
  the round trip before it.
- `draft[c]` is what the open transaction wrote and nobody else sees; `Commit` makes
  balance, row and record visible together. `rowLock` is the lock that `FOR UPDATE` took.
- `RecordKey` waits while another open transaction has inserted the same key, as a unique
  index in Postgres does, and rolls back if that key was committed.
- `reply[c]` is the response as composed so far; it is sent when `pc[c]` is `"done"`.
- A transaction id is the place of its row in its wallet's ledger. The field `call` of a
  row and the variable `opened` are no columns: they let properties speak of who wrote a
  row and of the initial balance.
- `Canon` is what Postgres' uuid input does to the text of a URL (case, hyphens, braces).
  Lock, cache, fingerprint and the comparisons in Python use the text, tables the wallet.
- `Faults` switches on `"crash"` (a worker dies), `"redis"` (a command fails, before or
  after it took effect), `"database"` (a statement fails, or COMMIT's acknowledgement is
  lost), and `"expiry"` (a Redis lock expires under a holder at work).
- In `History`, `BeginTransaction` is the round trip of `BEGIN`, which psycopg sends ahead
  of the first statement. `created_at` defaults to `now()`, the time of that `BEGIN`, so a
  row that waited for the row lock is older than its commit. A begin costs a tick of
  `clock`, so no two rows have one time.
- In `OrderClient`, `attempt[o]` is the call the client of order `o` waits for. 201 and 200
  mean paid, 500 and 503 leave the order in doubt, every other answer means refused.
  `TimeOut` only makes the client leave: the call goes on, and `abandoned` remembers it.
  `settled` is a history variable that nothing in the client reads: the orders that had
  been charged when they were last placed.
- `Payment` counts charges. Its `charges` is mapped to the number of ledger rows of each
  order, so a second row would be a step that `Payment` does not have.
- In `Schema`, `catalog` is the set of tables, columns and constraints and `version` the
  row of `alembic_version`. Each process reads (`ReadVersion`, `CheckTables`) and changes
  (`Upgrade`, `Downgrade`, `CreateMissing`) in two steps; each of the latter is one
  transaction in Postgres. A container is one process: its gunicorn workers import
  the app after the upgrade, so their `create_all` finds every table, as in `CheckTables`.
  A downgrade goes one revision back, as `alembic downgrade -1` does.

Operators named `<Definition>_<Bug>` and introduced by "Mutant" are not used by the
specification: each is a plausible bug in the definition it precedes, and
`PROJECT.json` says which property catches it.

Simplifications, all of them towards more behaviours or outside the properties: SHA-256 is
injective; a fault of Redis and of Postgres is per command; creation of a wallet is one
step, since nobody knows the id before it is returned; reference ids and reasons are one
field that no rule reads; length limits of strings (a DataError, answered 500) are not
modelled; a malformed wallet id (also a DataError) is not a request of the model.

## 3. Runs

| Run | Instance | Shows |
|---|---|---|
| `faults` | 3 calls, 1 wallet, 2 keys, ten requests of every kind, begin times; crash, redis, database | types, true replies, cached balances are committed ones, a retry gets the original answer, the history reads in order, refinement of `Ledger` |
| `expiry` | 3 calls, 2 wallets, 3 spellings, one key on both wallets, one row refunded under two keys, a refund of a refund; expiry | row locks and keys alone: reconciliation, refunds, keys, replies, one answer per key, the recheck, no deadlock, append-only history, releases free no other call's lock, refinement |
| `progress` | 2 calls, 2 wallets, 3 spellings, 1 key; every fault; fairness | every call ends, locks and row locks are freed, the cache settles under every spelling |
| `orders` | 3 calls, 2 orders, a topup and a refund beside them; crash, redis, database, time-outs | a paid order was charged once, a refused one was not, no order is charged twice (refinement of `Payment`) |
| `schema` | 3 processes, from an empty database or one at 0001 | the schema is whole, containers serve on the newest one, upgrades fail only for a cause |
| `retry_after_expiry` | 2 calls; expiry | finding: the retry is refused 422 |
| `retry_spelling` | 2 calls; no fault | finding: the retry is refused 409 |
| `late_refresh` | 2 calls; no fault | finding: the cache is stale after all writes were answered |
| `redis_down` | 2 calls; redis | finding: balance reads fail |
| `opening_balance` | 2 calls; no fault | finding: opening balances are not in the ledger |
| `changed_body` | 2 calls, 2 notes; no fault | finding: a changed reference id is a replay |
| `test_then_boot` | 1 process | finding: after `make test` the container does not boot |

Bounds. Amounts are 1 and 2, wallets open with 2 (1 in `progress`, 0 to 2 in `orders`,
where 1 pays for one of two orders and 2 would pay for one order twice) and `MaxPaise` is 3, so that overspending, refunds that would overdraw and the BIGINT limit are
all a step or two away. Three calls are enough for an original, its retry and a call that
spends the balance between them, for a topup, its refund and a competing refund, and for
an order that is given up, placed again and refused. Two keys are enough to use one twice
and another beside it. The number of calls bounds everything else: ledger lengths are at
most the number of calls, the clock is at most the number of begun transactions. Three
processes are two that race and one that changes what they had read; they may run any
number of commands each. Calls and processes are symmetric in the runs without liveness.
`Quiescent` lets a behaviour end only when every call has ended, so the deadlock check
stays on and a wait that never ends before that would be reported.

Fairness (`FairSpec`). Each call in service is weakly fair: a worker that has taken a
call runs until it answers. An abandoned lock and a cache entry expire, because Redis
gave them a time to live. Nothing is fair about clients or faults. A call that waits for
the Redis lock may instead answer 503 (`LockBusy`), whichever comes first.

## 4. Findings

Seven places where the code does something else than a document, comment or test says; the
quotations are in `PROJECT.json`.

1. A retry whose original outlived its Redis lock is refused for want of the money the
   original took (`service.py:262`), or as already refunded (`service.py:403`): the
   business rules run before the key is looked at again. The money is right; the client
   is told a paid order was not. So the lock is relied upon for more than performance.
2. A wallet id spelled otherwise than Postgres prints it makes every retry a conflict.
3. The cache is refreshed after the lock is released, in any order.
4. With Redis down balance reads are answered 500, not from Postgres.
5. Opening balances have no ledger row.
6. The fingerprint leaves out reference id and reason.
7. `create_all` builds the schema without an Alembic version: on a database that
   `make run` or `make test` used first, the container's upgrade fails and nothing serves.

Two limits that no document contradicts. An attempt whose client timed out may charge the
order after a later attempt was refused (`Payment` allows it: `late`); the client hears of
it if it places the order once more (`settled`). The order of the
history rests on the Redis lock as well: where a lock expires, or two spellings name two
locks, two writers wait for the row lock with transactions already begun.

## 5. Proofs

Every theorem holds for any number of wallets, spellings, keys, calls, requests, orders and
processes that satisfy the assumptions of the modules:

- `NamesAssumption`: every wallet id is a spelling of itself;
- `RequestsAssumption`: requests are well-typed;
- `PaiseAssumption`: opening balances fit the column;
- `NoneAssumption`: `None` differs from every value;
- `FaultsAssumption`: `Faults` holds faults;
- `OrdersAssumption` (`OrderClient`): an order's id is a key and a reference, its amount is
  positive, and its request is one that calls may carry.

These hold by construction of the program. Where a theorem needs more, it says so in its
`ASSUME`.

| Theorem | Statement | Needs |
|---|---|---|
| `TypeCorrect` | `[]TypeOK`: no balance ever leaves `0 .. MaxPaise` | |
| `LedgerCorrect` | `[]LedgerReconciles`: the ledger explains the balance | |
| `RefundsCorrect` | `[]RefundsReverseOnce`: a refund reverses an earlier row, in full and once | |
| `KeysCorrect` | `[]KeyAppliedOnce`: rows under keys and records match one to one | |
| `RecoveryCorrect` | `[]RecoveryFindsRecord`: the lookup after an `IntegrityError` succeeds | |
| `HistoryPermanent` | `HistoryIsAppendOnly`: rows and records stay as written | |
| `LedgerImplemented` | `ImplementsLedger`: the calls implement the abstract ledger | |
| `RepliesCorrect` | `[]RepliesAreTrue`: an answer says what happened | |
| `AnswersAgree` | `[]OneAnswerPerKey`: attempts under a key that are not refused get one answer | |
| `LocksCorrect` | `FreesOwnLockOnly`: nobody frees another call's lock | |
| `WaitsEnd` | `[]NoDeadlock`: no calls wait for each other in a circle | |
| `CallsRunOut` | `CallsMoveForward`: each step of a call, or fault, brings it nearer to its end | |
| `CacheCorrect` | `[]CacheHoldsPastBalance`: a cached balance was committed once | |
| `RetriesCorrect` | `RetryGetsOriginal`: a retry is not refused | `LockLasts`, `CanonicalKeys` |
| `HistoryInOrder` | `[]HistoryReadsInOrder`: newest first, the listing is a running balance | `LockLasts`, `SameSpelling` |
| `PaidOrdersCorrect` | `[]PaidOrdersAreCharged` | `OwnKeys`, `ShopCanonical` |
| `RefusedOrdersCorrect` | `[]RefusedOrdersAreNotCharged` | `OwnKeys`, `ShopCanonical` |
| `PaymentImplemented` | `ImplementsPayment`: stub and service implement the payment | `OwnKeys`, `ShopCanonical` |
| `PaymentPromises` | `ImplementsPayment => []Promised!PaymentKept`: the payment alone means at most one charge and true answers | |
| `SchemaStaysWhole` | `[]SchemaIsWhole`: the catalog is a revision, whole | |
| `UpgradeFailures` | `UpgradesFailForCause` | |
| `ServedSchema` | `[]ServesNewest` | |
| `ContainerServes` | `[]BootServes`: a container serves | `[]~Unversioned`, `[]BootsAlone` |
| `ReadsAnswered` | `[]ReadsSurviveRedis`: a balance read is answered | `RedisAndPostgresAnswer`, `ReadsAreBare` |
| `SequentialReadsExact` | `[]ReadAfterWritesIsExact`: the cache shows what the writes left | `OnlyLocksExpire`, `UrlsAreCanonical`, `[]NoOverlap` |
| `ReplaysAnswerTheRequest` | `[]ReplayHasSameBody`: a replay answers the request recorded | `OneNotePerKey`, `RefundsHaveNoAmount` |
| `RowsExplainBalance` | `[]BalanceIsExplained`: the rows add up to the balance less the opening balance | |
| `RowsAddUp` | `[]BalanceIsLedgerSum`: the rows add up to the balance | `Openings \subseteq {0}` |

`LockLasts` says that no lock expires under a holder at work (`"expiry" \notin Faults`) and
`CanonicalKeys` that requests with a key spell their wallet as Postgres does. They are what
the runs `retry_after_expiry` and `retry_spelling` take away one at a time, and each of
these finds `RetryGetsOriginal` violated: neither assumption can be dropped.
`SameSpelling` is weaker: the writes of one wallet all spell it one way, whichever.
`OwnKeys` says that only the order service uses an order's id as a key, `ShopCanonical`
that it spells its wallet as Postgres does; `MCOrders` satisfies both.

`ContainerServes` and the rows after it are about claims that section 4 finds broken, and
say what it takes to keep each. `Unversioned` is the state in which `create_all` leaves an
empty database; `BootsAlone`: while a container boots, no other command is at work.
`RedisAndPostgresAnswer`: neither fails; `ReadsAreBare`: a GET has no body.
`OnlyLocksExpire`: nothing crashes or fails; `UrlsAreCanonical`: every URL, of reads too,
spells its wallet as Postgres does; `NoOverlap`: calls on one wallet, reads included, come
one after the other. `OneNotePerKey`: a key always comes with the same reference id or
reason; `RefundsHaveNoAmount`: the schema has no field for it. `Openings \subseteq {0}`:
wallets are opened empty. The run that refutes a claim shows that something is needed; the
theorem shows that this much is enough.

A theorem about the service with nothing under "Needs" holds with every fault, locks that
expire under their holders included: it does not rely on the Redis lock. So do those about
orders.

The argument is layered. Each layer is an inductive invariant that rests on the ones before
it, with a lemma per action or per group of actions.

`TypeInv` (`WalletService_proofs`) adds to `TypeOK` what a call knows at each stage: its
request was accepted by the schemas (`InService`), it is a write where a write is carried
out (`Writing`), it has a key where the key is used (`Keyed`), and there is a body where the
cache is refreshed from it (`Answered`). The part that matters is `Drafted`: a draft may be
any integer until `Flush`, and only one that passed the CHECKs and the BIGINT column reaches
`"record"` and `"commit"`.

`MoneyInv` is `LedgerReconciles`, `RefundsReverseOnce` and why they survive a commit:

- `Locked`: a row lock is held by exactly the call whose transaction is open on that
  wallet, so two open transactions are on two wallets;
- `Fresh(c)`: while the transaction of `c` is open, its draft still continues the committed
  ledger - its running balance is the stored balance plus what the row moves, and if it is
  a refund, the row it reverses is there and nobody has reversed it.

`SelectForUpdate` establishes `Fresh` (`MovementFresh`: the rules imply it). Another call's
commit keeps it, because by `Locked` it is on another wallet and its refund reverses a row
of that other wallet (`ApplyDraftMoney`). The call's own commit uses it up
(`ApplyDraftTables`).

`KeyInv` (`Idempotency_proofs`) ties drafts, rows and records to requests: `Drawn` (a draft
is what its request asks for), `FirstUse` (a call about to commit under a key is the only
one, and no record is under that key), `Written` (a row is what the request of its call
asked for), `OneRow` (a call writes one row), `Found` (a call in `"recheck"` finds a
record). `FirstUse` is where the primary key of `processed_requests` enters. That a failed
insert is the only `IntegrityError` there can be is `DraftPassesConstraints`: behind the
row lock no other constraint breaks. From these, each step of a call maps to a step of
`Ledger` or to a stutter: `Commit` and a lost acknowledgement of COMMIT move money, nothing
else does.

`ReplyInv` (`Replies_proofs`) follows a reply from where it is composed to where it is sent,
and adds that a row or record an answer speaks of stays there. `AnswersAgree` follows:
"created" and "replay" both carry the id and the balance of the row that the key's record
names (`ServedBody`), and there is one row per key. `CacheInv` (`Redis_proofs`)
says of every cache entry and of every value a call still carries to the cache that its
wallet had that balance after some row; since the ledger only grows, a late refresh cannot
break it. `RetryInv` is the one layer with the Redis lock in it: `Holds` (a call at work
holds the lock of its wallet) and `Unserved` (between the key check and the rules no equal
request takes effect).

`WaitsEnd` needs no more than `TypeInv`, `Locked` and `LockHeld` (who holds a Redis lock is
past `"acquire"`). `Depth` orders the three things a write waits for as it takes them: Redis
lock, row lock, key. A call waits only for a call deeper than itself (`WaitsDeeper`),
whatever the wallets and the spellings, so a chain of waits has three links at most.
`CallsRunOut` is by `Rank`, which numbers the stages: no step and no fault takes a call back
(`Advances`). The two are the safety half of `EveryCallAnswered`; what the prover cannot
add is that a call which can run does.

`OrderInv` (`Orders_proofs`) adds the client: `Waiting` (an attempt that is past the key
check, or denied, finds the order not charged when it was placed, and not yet charged
unless an earlier attempt was given up), `Alone` (no other attempt runs, except those given
up) and `ToldTrue`. It needs no Redis lock: attempts of one client follow one another, and
those given up are the exception that the properties name. That an order has one row at most
is no matter of what its client was told: by `KeyAppliedOnce` each of its rows is the one
that the record under its key names (`ChargedOnce`), so the rows can be counted
(`ChargesCounted`). `PaymentImplemented` maps that count; `PaymentPromises` then reads "at
most once" and "the truth" off `Payment` alone.

`StampInv` (`History_proofs`) adds the begin times: the times of a wallet's rows increase
along its ledger (`InOrder`), and a write that has begun did so after every committed row of
its wallet (`BeganOK`). A commit keeps the latter for the other calls because none of them
has begun on that wallet (`OneWriter`, from `Holds`). Then the listing, any permutation of
the rows with falling times, can only be the ledger backwards (`DecreasingIsReversal`, by
counting), and `LedgerReconciles` does the rest.

`SchemaInv` (`Schema_proofs`) is that the catalog is whole and that what a process has read
was a revision; a command that changes the schema does so in one transaction and fails if
the revision moved. `ServingInv` adds what each process found missing. `Boots` follows one
container: alone and with a versioned schema, it upgrades from the revision it read, then
misses no table.

`Claims_proofs` adds one invariant per claim. `Reading`: a call that reads is answered from
the cache or from its one query. `Replayed`: a reply that is a replay was composed from the
record of the request's key under an equal fingerprint. `ExactInv`: every cache entry is the
balance of its wallet, or a call is about to replace it by the balance. The latter is where
`NoOverlap` enters: between a commit and the refresh no other call commits on the wallet
(`CarriesBalanceKept`). A replay found after an `IntegrityError` could carry an older
balance, but without overlap there is none: a record that appears after the key check is of
another wallet (`Foreign`), and is refused.

`RowsExplainBalance` needs no invariant beyond `LedgerReconciles`, but an induction over the
ledger: `MapThenSumSet` adds the rows in an order nobody knows, the running balance in that
of the commits. `LeastNumber` (a set of naturals has a least one, by `WFMin`) stands for the
induction principle, which has an operator as its parameter. From it follow that running
totals exist and are unique (`TotalsExist`, `TotalsAgree`), that a member may be taken out
of them anywhere (`TotalsDiffer`), and so that the fold exists and is the total
(`FoldExists`, `FoldIsTotal`).

Only model-checked: `EveryCallAnswered`, `LocksAreFreed`, `RowLocksAreFreed` and
`CacheSettles`. They are liveness properties under fairness, which the prover does not
reach. The run `progress` shows them on two calls with every fault.

## 6. Not modelled

- Metrics: each worker has counters of its own that only its `/metrics` prints; no
  code reads them back. Logs, request ids and the OpenAPI document are text.
- Health probes: they ping Postgres and Redis, keep nothing and change nothing.
- Money formatting: amounts are integer paise from end to end; `balance_rupees` is the same
  number once more as text, by integer division.
- Time zones: `created_at` is used for ordering only, and the model's clock orders.
- Bodies that pydantic refuses (unknown fields, wrong types, a reason over 500 characters)
  never reach the service. Strings too long for their column, and malformed wallet ids,
  make a statement fail with a DataError: for the control flow this is the database fault
  at the same statement (rolled back, 500). An empty key in a body is a key like any other.
- A tie of two `created_at`: the column has microseconds and two transactions of one wallet
  that both write are round trips apart wherever the lock holds.
- Offline migrations print SQL and change nothing. The stub's wallet set-up and printing.
- Names and defaults that revision 0002 and the models give differently (the name of a
  foreign key, a server default): `Schema` takes both for the same objects.
- Images, health checks and environments of the deployment. Its commands are in `Schema`,
  and that several workers run, and may die, in `WalletService`.

## 7. Plan

Done: all components with state of their own, each safety property checked and proved,
the refinements of `Ledger` and `Payment`, what it takes to keep each broken claim, and
liveness checked.

Next: that the abstract ledger alone implies `LedgerReconciles` and `RefundsReverseOnce`,
as `PaymentPromises` shows for the abstract payment, so that both refinements carry their
promises by themselves.

Left for whoever changes this code. To look the key up once more behind the row lock,
before the business rules, should make the run `retry_after_expiry` pass and `LockLasts`
needless in `RetriesCorrect`; to compare a record's wallet with the wallet found instead of
the text of the URL should do the same for `retry_spelling` and `CanonicalKeys`. Three calls
with every fault under fairness have not been run: the third would only be a second waiter
behind each lock.
