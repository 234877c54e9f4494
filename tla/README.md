# A verification of the MultiTrade platform

TLA+ models of the trading platform in `src/`, a Go server on PostgreSQL, Redis
and Kafka: what its parts do, which properties they keep on small instances
(TLC), and which are proved for every instance (TLAPS).  `PROJECT.json` lists the
components, the runs, the mutants, the hazards, the findings, the theorems and,
for each definition, the source lines it stands for.

Run a model with `tlc -config MCExchange_matching.cfg MCExchange`, a proof with
`tlapm ExchangeProofs.tla`.

## 1. The system

| Part | State it keeps | Operations | What makes it correct |
|---|---|---|---|
| order service (`internal/order`) | `orders` rows, the idempotency index | PlaceOrder, CancelOrder | one order per key; status and fill agree; a closed order stays closed |
| matching engine (`internal/matchingengine`) | one goroutine: incoming order and candidate | Run, processOrder, findBestCandidate, executeTrade | trades within both limits; no match overlooked; the best candidate; its loop ends |
| wallet service (`internal/wallet`) | `wallets`, `wallet_transactions` | Deposit, Withdraw, CreateWalletForUser | no overdraft; balance and ledger agree |
| portfolio, trade history | `portfolios`, `trades` | upsert, reduce, insert (all inside executeTrade) | units of an asset are conserved; fills are the sum of trades; the average price is one of prices paid |
| cron jobs (`internal/cronjobs`) | none | ExpireStaleOrders, ReconcileWallets, VerifyTradeSettlements, SystemHealthCheck | alerts mean something; expiry does not disturb a fill |
| websocket hub (`internal/websocket`) | subscription maps, three channels, a read-write lock, a channel per client | Run, Subscribe, Unsubscribe, unsubscribeAll, two pumps per client | no send on a closed channel; clients are released |
| rate limiter (`internal/middleware/ratelimit.go`) | a sorted set per key in Redis | Middleware | lets the maximum through, and turns away only what exceeds it |
| Kafka events (`internal/kafka`) | topics, offsets | PublishEvent, audit, notification and analytics consumers | each effect once; every commit audited |
| asset service (`internal/asset`, `internal/redis`) | `assets`, the price cache | CreateAsset, UpdateAsset, DisableAsset, GetAsset, ListActiveAssets | no stale price for longer than the cache lives; a disabled asset stays disabled |
| accounts (`internal/auth`, `internal/user`, `internal/admin`, `pkg/jwt`) | `users`, `audit_logs`, tokens held by clients | Register, Login, RefreshTokens, AuthMiddleware, UpdateUserStatus | one account per email; tokens expire; status changes are logged |
| process life (`cmd/api/main.go`) | the deferred calls, running requests | start, signal, srv.Shutdown, deferred closers | a shutdown ends, and cuts off nothing a request has begun |
| paged lists (`ListOrders`, `ListTransactions`, `ListUsers`, `ListAuditLogs` and their handlers) | none: a client's walk | two queries a page | a walk to the last page shows every row once |
| migrations (`internal/database`, `migrations/`) | the schema, `schema_migrations` | RunMigrations | rows tell the truth about the schema; every process comes to serve |

How they meet.  HTTP handlers run concurrently and share nothing but PostgreSQL,
Redis and two in-memory objects: `matchQueue`, the bounded channel on which
PlaceOrder sends to the engine, and the hub.  The engine is one goroutine per
process; it reads the book outside any transaction and then settles each trade in
one transaction that locks both orders, both wallets and both holdings.  After its
commit it publishes events to Kafka, sets the price in Redis and publishes it to
the hub's subscribers.  Cron jobs read and write the same tables.

What is hard here: checks made outside the transaction that relies on them (order
placement, the engine's candidate, idempotency, registration, asset updates);
a channel that drops; a restart that forgets the channel; three roundings per
trade; the order of row locks; a lock taken twice by one goroutine; Redis
pipelines that interleave; effects published after a commit with their errors
ignored; a client that leaves, or a shutdown that comes, between a commit and its
event; arithmetic on binary fractions that decides whether an order is complete; jobs
and pages that combine two queries made at different times; pods that migrate at
once.  `PROJECT.json` lists each at its line, with the properties for it.

## 2. The modules

| Module | Models | Composed with |
|---|---|---|
| `OrderBook` | the pure functions of the engine: crossing, ranking, remaining, newStatus, the rounding `fmt8f` | used by `Exchange`, `Reconciliation` |
| `Exchange` | PlaceOrder, CancelOrder, Deposit, Withdraw, ExpireStaleOrders and the engine over one database, with `matchQueue`, failing queries and restarts | the composition of the order service, the wallet service, the expiry job and the engine |
| `ExchangeAccounting` | properties that add up columns | extends `Exchange`, `Sums` |
| `Sums`, `SumLemmas` | the `SUM` of a column, and what a written row does to it | used by `ExchangeAccounting`, `Reconciliation` and their proofs |
| `Ledger` | what the exchange promises: cash, units, a book, and trades at one stroke | |
| `ExchangeLedger` | the refinement mapping and `ImplementsLedger` | extends `Exchange`, instantiates `Ledger` |
| `ExchangeProofs` | theorems about the exchange and the refinement | extends `ExchangeLedger`, `ExchangeAccounting` |
| `RowLocks` | the row locks of the same transactions, one at a time | justifies the one-step transactions of `Exchange` |
| `WebsocketHub` | the hub, its clients, the handler and the forwarder | |
| `ConcurrencyProofs` | theorems about who waits for whom | extends `RowLocks`, `WebsocketHub` |
| `RateLimiter` | the middleware and its Redis pipeline | |
| `EventPipeline` | the steps of producers and consumers | starts from the commits of `Exchange` |
| `Server` | the process around them: requests, the engine, signal, shutdown, kill, restart | extends `EventPipeline` |
| `AssetCatalog`, `AssetCatalogProofs` | the asset service and the price cache; theorems | the engine's SetPrice is one of its calls |
| `Reconciliation`, `ReconciliationProofs` | deposits, withdrawals and trades with the arithmetic of each service, `wallet_transactions` row by row, average prices, and the two checking jobs; theorems | the trades of `Exchange` at commit granularity |
| `Paging` | the paged lists and a client that walks through one | |
| `RequestProofs` | theorems about what clients get | extends `RateLimiter`, `Paging` |
| `Accounts`, `AccountsProofs` | auth service, middleware, UpdateUserStatus; theorems | where traders without a wallet come from |
| `Migrations` | RunMigrations on the repository's ten scripts | |
| `ServerProofs` | theorems about a process that starts, works and stops | extends `Migrations`, `Server` |

Where one module holds the proofs of two components, the second has its own names for
`Init`, `Next` and `Spec` (`LockSpec`, `PagingSpec`, `MigrationSpec`).

Each `MC...` module gives the constants of its module; each `.cfg` is one run.

### Exchange

`orders`, `trades`, `balance`, `ledger`, `portfolios` are tables: an order row is
its columns, `ledger[u]` the signed sum of the user's `wallet_transactions`.
`queue` is the channel, `engine` the local variables of the engine's goroutine,
`pc`, `input`, `began`, `result` those of each PlaceOrder call.  `dropped` and
`abandoned` are history: the orders whose enqueue found the channel full, and
those whose matching ended in an error or a restart.

A step is a query made outside a transaction, a transaction, or a channel
operation.  A transaction is one step because every row it reads and later writes
is read `FOR UPDATE` (`RowLocks` looks inside).  PlaceOrder is thus: lookup of the
key, checks of balance or holding, start of the transaction (its `NOW()` is the
row's `created_at`), insert (or its conflict, and the second lookup), enqueue.  One
round of the engine is: receive, re-fetch, read of the book, executeTrade, re-fetch.

Numbers.  Prices, quantities and balances are natural numbers of the smallest
unit.  A product of price and quantity is exact in `1/Scale` units; with
`Scale = 1` all products are representable, with `Scale = 2` half of them are ties.
`fmt8f(n)` is the set of the nearest multiples: for a tie both, because `big.Float`
holds binary approximations of decimal fractions, so either may be nearer.

`Inexact` says whether numbers may be decimal fractions.  Then the sum that completes
an order in two parts may come out below its total (0.3 + 1.3 < 1.6 with the engine's
128 bits), and the order stays PARTIALLY_FILLED: `newStatus` is a set of outcomes.
Likewise a cost that equals a balance may be found greater, when an order is placed or
settled (`AtLimit`, `ExecuteError`).  `Inexact = FALSE` is the case of whole numbers.
The 64 bits of the order service's own checks are modelled at such equalities only.

`Ledger` knows no calls, channel, engine or faults.  `ExchangeLedger` maps a row to
its terms, its fill and whether it is open: an order with nothing left is closed
there, whatever its status, since no trade can fill it any more.

Left out of Exchange: `average_buy_price` (in `Reconciliation`), changes of an
asset's status while orders are placed (in `AssetCatalog`; here `ActiveAssets` is
constant), inputs with more digits than the columns (deposits and withdrawals with
more are in `Reconciliation`), and a second engine on the
same tables.  Events are in `EventPipeline`.

### The other modules

* `RowLocks`: `plan[a]` is the sequence of rows the transaction of actor `a` has
  still to lock, `holder` the lock table.  executeTrade locks the lower order id
  first, then buyer's and seller's wallet, then the holdings; CancelOrder, Deposit
  and Withdraw one row; the expiry UPDATE any order of its rows.  PostgreSQL's
  deadlock detector is external.
* `WebsocketHub`: `subMutex` is the flag `rlocked` (only Run takes the read lock);
  writers never block inside, so their critical sections are steps.  A channel is
  its content, or the number of its messages where the content does not matter.
  `hub.pc = "unsubscribeFull"` is Run at the unsubscribeAll of its default branch,
  waiting for the write lock while it holds the read lock itself.
* `RateLimiter`: one command of the pipeline per step, with the commands of other
  pipelines in between; `unseen[r]` is history: the requests that
  had been counted and not yet added when `r` was counted.  A pipeline may break off
  after each command, or lose its answer only.  The client is built without `MaxRetries`
  (internal/redis/client.go:20), so go-redis then re-sends the whole batch up to three times
  (`attempt[r]`), with the same time, or gives up and the request is let through.  The
  500 ms of the middleware bound the re-sending, not the last exchange, for which the
  client has its own limits of seconds; `Timeout` stands for both together, still far
  below the window of a minute.  What of a broken batch reaches Redis is taken to have
  run by the time it is sent again.  EXPIRE is left out: it is renewed by every
  request, and deletes only what is a window old.
* `EventPipeline`: `unpublished[x]` is what the goroutine that committed `x` has
  still to publish, `inHand` what a consumer's goroutine has still to do for the
  message it has read.  Kafka is external: topics, partitions, and a ReadMessage that
  fetches a message (`position`) and commits its offset (`offset`) before it hands the
  message over.  When the commit fails, or its answer is lost, the loop logs the error
  and reads the next message (`ReadMessageError`); the next process starts from the
  committed offsets, so it reads the skipped one if no later one was committed.
  INCRBYFLOAT and INCR of the analytics consumer may be sent twice by go-redis
  (`HandleResent`).  `lost` and `resent` are history: the effects that a publish error, a
  failed commit, a failed write or the end of the process has hit, and the increments
  added by a second send.  A group's readers keep their partitions: a rebalance, which may
  hand one to another pod between the fetch and the commit, is left out.
* `Server`: `phase` is where `main` is, `deferred` the closers it has still to call,
  `job[x]` how far the goroutine of transaction `x` is.  Requests are waited for by
  srv.Shutdown, trades by nobody; `Reachable` says that the consumers' database and
  Redis client are closed under them.  `gone` are requests whose client has left: their
  context is cancelled, and the event of what they committed may fail with it.  `cut`
  is history: the events an orderly shutdown has cut off.
* `AssetCatalog`: a call reads rows, then works through the cache one command at a
  time.  `wasPrice` and `age` are history: when a price was last true, and how old
  the prices shown to a call were.
* `Reconciliation`: `Amounts` are in `1/Scale` units, so that a deposit may have
  digits the columns drop.  `Precision` stands for 2^64: a parse, a sum, a difference or a
  product with 64 bits is off by up to 1/`Precision` of its result.  These errors are added
  up exactly, in 1/`Unit` of a unit of money, and only the print is rounded: `formatAmount`
  is the set of prints of all numbers within the error.  So 1500 and a deposit with more than
  eight decimals near a tie, none of whose single roundings comes to the last digit counted,
  may be credited a unit off its record.  The 128 bits of the engine are exact but for ties.
  `records` is a bag of rows.  The jobs' queries are steps; cron starts the jobs an hour
  apart, but an admin may start either at any time (main.go:280), so they may overlap.
  Two runs of one job at once are not modelled; a job writes nothing.  `Describes` is the
  `LIKE` match of the settlement job.  `drift`, `paid` and `verify.failed` are history.
* `Paging`: a walk asks for the next page until the `total_pages` of a response says it
  was the last.  Rows of one `created_at` come in any order, anew in each query.
  `there`, `came` and `left` are history: the rows that were in the list all the time,
  that came in and that left it.
* `Accounts`: tokens are their claims with the time the user's row was read;
  signing, parsing and bcrypt are taken to work, passwords to be right.  `unlogged` and
  `overlapped` are history: the accounts about which an audit row was lost, and those
  two of whose changes have overlapped.
* `Migrations`: a script is the tables, columns and indexes it creates, with and
  without `IF NOT EXISTS`.  An INSERT waits for a transaction that has inserted the
  same version and not committed.

## 3. What the runs check

Runs that pass:

| Run | Properties | Shows |
|---|---|---|
| `exchange_matching` | StatusMatchesFill, TradesRespectLimits, NoMissedMatch, CandidateIsBest, FillsMatchTrades, AssetsConserved, LedgerDrift | three concurrent orders, costs that must be rounded, inexact fractions, cancels and expiry at any moment: book, trades, holdings and money stay consistent |
| `exchange_faults` | TypeOK, SellersHoldRows, NoMissedMatch, Idempotent, RowsOnlyAdvance, ImplementsLedger, PlacedOrdersAreProcessed | failing queries, lost commit answers, restarts, a channel of one, shared keys, a seller without a wallet, deposits and withdrawals before settlement: nothing is overdrawn, a key names one order, a closed order stays as it is, crossing orders are left only if the code gave one up, all that happens is the ledger's, and with whole numbers the engine's loop ends |
| `rowlocks` | LocksHaveOwners, DeadlocksNeedTwo, TransactionsEnd | no handler is the reason for a deadlock, and every transaction ends, if need be by the detector |
| `hub` | SubscriptionsAgree, ChannelsUsedOpen, DisconnectedClientsReleased | no send on, and no second close of, a closed channel; short of a full buffer a client that disconnects is forgotten |
| `ratelimiter` | EffectiveLimit, BlockedOnlyOverLimit | what a limiter guarantees although pipelines overlap, break and are re-sent, and limiters share keys |
| `server` | HandledAtMostOnce, ShutdownCutsOnlyTrades, EveryEffectHappens, ShutdownEnds | no consumer acts twice on one message, a command re-sent to Redis apart; a fault, a failed commit of an offset, a client that leaves, a kill or a shutdown loses the effects it hits and no others; an orderly shutdown cuts off events of trades only, and ends |
| `assets` | ServedPricesAreRecent, RevivedOnlyByOverlap | no price older than an entry's life and one call is shown; a disabled asset comes back only through an update that had read it before |
| `reconciliation` | SettlementsVerified, BooksAgree, AverageWithinPaid, ReportedWalletsMoved | balances drift off their records by ties and lost bits only, no other settled trade and no other wallet that stood still is reported, and average prices stay between prices paid |
| `accounts` | OneAccountPerEmail, AcceptedRecently, AuditTellsStatus, NothingSkipped, NothingRepeated | one registration per email wins; an accepted token is recent; the last audit row tells an account's status unless changes overlapped or a row was lost; and when a walk through the list of users or of audit rows misses a row or shows one twice |
| `migrations` | SchemaMatchesRows, NobodyWaitsForEver | three pods, killed at any point: the rows tell the truth, and nobody waits for ever for another one's transaction |

Two runs end in a counterexample, a disagreement between the code and what it says of
itself (quoted in `PROJECT.json`, "findings"):

| Run | What happens |
|---|---|
| `exchange_rounding` | an order is filled completely in two parts, the binary sum is below its total, and it stays PARTIALLY_FILLED with nothing left; it is the best candidate of a later order, executeTrade finds nothing to fill and answers "not matched", the incoming order is still open, and `continue` (engine.go:115) starts the round again: the engine reads no other order until it is restarted |
| `hub_full_buffer` | hub.go:64 says "If client buffer is full, unregister it" (FullBufferUnregistered).  Run calls unsubscribeAll, which wants `subMutex` for writing, while it holds it for reading itself: the client stays registered, its channel open, and the hub serves nobody any more |

Several properties above are the strongest that hold, and weaker than what the
repository's documents say.  Each exception in them is a behaviour of the code:

* README.md:23 and docs/architecture.md:102 speak of price-time priority.  The engine
  takes the orders of its channel one by one, so an incoming order is matched although
  a better one of its own side is in the table and still in the channel behind it
  (the exception in CandidateIsBest).
* README.md:114: "Duplicate requests return the original order".  A duplicate that
  misses the first lookup may be rejected by the balance check, for want of the funds
  its own original has spent; Idempotent speaks of calls that return an order.
* LedgerDrift allows a unit per trade, `ReconcileWallets` (reconciliation.go:56) one
  in all: two rounded trades are enough for its alert.
* README.md:23 calls the engine "deadlock-free".  DeadlocksNeedTwo leaves two cases,
  and both occur: the engines of two pods lock the wallets of two users in opposite
  order (executor.go:115), and the expiry UPDATE locks orders in the order of its scan.
* ratelimit.go:15: "limited to maxRequests per window".  Two pipelines may both count
  before either adds (`unseen` in EffectiveLimit), and the order and the wallet limiter
  of a user count each other's requests, and a request whose batch was re-sent counts
  itself, so that it may be turned away with one fewer (BlockedOnlyOverLimit).
* README.md:122: "Audit logs in Postgres for every trade, order, and admin action".
  They are lost with a publish error or a failed INSERT, which nobody retries (`lost`
  in EveryEffectHappens, `unlogged` in AuditTellsStatus), and the rows of two admins may
  come in the opposite order of their updates (`overlapped`).
* docs/architecture.md:183: "Asset prices cached for 60 seconds".  `DefaultTTL` is ten
  minutes, and that is the `TTL` of ServedPricesAreRecent.
* A deposit between the two queries of `ReconcileWallets` is reported as a mismatch
  (ReportedWalletsMoved); and the settlement job computes costs with 64 bits, the
  engine with 128, so that a tie may be rounded the other way and a settled trade be
  reported (the exception in SettlementsVerified).
* A deposit below half of the last digit is accepted, recorded as 0 and credited as 0,
  and a withdrawal of up to one rounding error more than the balance succeeds when both
  come out as one 64-bit number, which is what is recorded (`drift` in BooksAgree).
* The trade count and the volume in Redis are not exact: when the answer to an INCR is
  lost, the trade is counted twice (`resent` in HandledAtMostOnce).
* order_service.go:141 logs "order will be picked up on next scan" of an order that
  found the channel full.  There is no scan: such an order is matched only if a later
  one meets it (`dropped` in NoMissedMatch).
* README.md:122 again: PublishEvent is given the request's context (order_service.go:157),
  so that a client that leaves after the commit may take the event with it; at a
  shutdown the consumers are not stopped, and fail on a closed database or Redis client
  what they have read; a trade the engine commits then is never announced (`lost`,
  and ShutdownCutsOnlyTrades for what is safe).
* The handler of the audit logs computes `total_pages` from the `page_size` it was sent
  (admin_handler.go:142), not the one the service used: 0 panics and is answered with
  500, more than 100 gives too few pages, and a page below 1 is echoed (`Clamped` and
  `walk.first < 1` in Paging).  docs/api.md:238 shows a "pagination" object that no
  handler produces.
* README.md:178: "Migrations run automatically. Server starts".  On an empty database
  `000005_create_orders` fails on `idx_orders_user_id`, which `000001_init_schema` has
  created: in `migrations` every process that is not killed before comes to "fatal"
  there, none to "serving".
  `000002_create_wallets` and `000004_create_assets` share their version with another
  script and are logged as already applied on the first start, without having run.

Every property of a passing run has a mutant in `PROJECT.json`: a definition of the
model changed as a slip in the code would change it, under which TLC finds the
property violated.

### Bounds

* Exchange: one asset, three traders, two or three calls.  Two orders show a match,
  a lost race, a duplicate; the third gives a fill with two counterparties, a
  better order arriving while the engine works, an order that is dropped.  A trader
  on both sides of the book makes self-trades possible.  Balances are such that some
  checks succeed and fail later.  `exchange_matching` has `Scale = 2`, with prices of
  which one makes a tie, inexact fractions, and room for every order in the channel;
  `exchange_faults` has exact numbers, two calls and room for one order;
  `exchange_rounding` three orders of which the second and third fill the first.
* RowLocks: four orders of two traders, each buying and selling, one engine, one
  handler and the expiry job: the smallest instance with a circle of two.
* WebsocketHub: channels of capacity one everywhere, so that every one fills up; two
  clients, two topics, two messages, of which the second meets the buffer the first has
  filled.  `hub_full_buffer` needs one client and one topic only.
* RateLimiter: three requests of one caller to three limiters, with maxima of 1 and 2, and
  one re-sent batch each, so that a request can count itself and another one.
* RateLimiter, AssetCatalog, Accounts: `MaxTime` lets a window, a cache entry or a
  token run out and another one begin.  The lifetimes keep their order (deadline <
  window; call < cache entry; access < refresh), not their sizes.
* Server: one transaction, a trade with its three events, two of them in one partition,
  or a request; the audit and the analytics group, which share nothing but the topics;
  one message or one increment sent twice (`MaxRetries`), commits and writes that fail until
  the first effects are lost (`MaxFailures`; a closed client fails without bound), one stop and the restart after it.  What transactions could do to each other there is
  only to stand in one partition, as the two wallet events of a trade do.
* Reconciliation: `MaxRecords` lets two trades, a trade and two deposits, or four
  deposits fall between any two queries.  Ten units of a price times a quantity make a
  unit of money; amounts of 1.6 and 4.1 units, trades of 0.5, 1 and 3.6 and a
  `Precision` of 80, which makes one rounding of a small number less than the last digit counted and
  two or three of them enough to reach a tie, give whole and broken amounts, ties, exact and
  inexact numbers, and a withdrawal above the balance that gets through.  Either trader's holding can be sold out and bought anew.
* Paging: four rows, three times, so that rows tie; page sizes that are used and that
  are clamped (`MaxSize` is 2 for 100, `DefaultSize` 1 for 20), walks that begin at page 1
  and at 0, which does not exist.  The lists are those of users and of audit rows, whose
  handler counts pages its own way; orders and wallet transactions are paged like users,
  with filters that no row ever leaves.  `MCAccounts` checks `Accounts` and `Paging` in one run: they
  share no state, and each moves while the other is in an initial state.
* Migrations: three processes, all ten scripts.

`CHECK_DEADLOCK FALSE` is set where clients may simply have nothing more to ask;
the RowLocks run checks for deadlock as well.  Symmetry is used for calls, clients and requests, in runs of safety properties only.

### Fairness

Weak fairness of each goroutine's own steps: the Go scheduler runs whatever can run.
In `Exchange` that is the engine and each started call; clients, the clock and
cron owe nothing.  In `WebsocketHub` it is Run and the pumps; a peer need not read
or send.  In `Server` it is a goroutine that has committed, each
consumer, `main` once a signal has come, and, as in `Migrations`, the restart of the
process by the orchestrator (`restart: always` in docker-compose.prod.yml:17); a
request that has not committed owes nothing and may hang.  In `RowLocks` and for the
steps of a process in `Migrations` it is strong fairness: PostgreSQL queues the
waiters of a row, so one that keeps asking gets it.  The deadlock detector is weakly
fair.

## 4. What is proved

`ExchangeProofs`, from `ConstantsAssumption` and `ScaleAssumption` only, so for any
traders, assets, inputs, keys, channel capacity, clock steps and faults (and, for
`AssetsAreConserved`, from `HoldingsAssumption`: a table has finitely many rows):

* `TypeCorrect`: `TypeOK`.  The content is in the ranges: balances and holdings
  stay between zero and what their columns hold, after rounding too.
* `StatusCorrect`: `StatusMatchesFill`, and with it that no order is overfilled.
* `SellersCorrect`: `SellersHoldRows`.
* `RowsCorrect`: `RowsOnlyAdvance`.
* `TradesCorrect`: `TradesRespectLimits`.
* `LedgerCorrect`: `LedgerDrift`.
* `IdempotencyCorrect`: `Idempotent`.
* `NoMatchIsMissed`: `NoMissedMatch`.
* `PriorityRespected`: `CandidateIsBest`.
* `LedgerImplemented`: `ImplementsLedger`.
* `FillsAreTraded`: `FillsMatchTrades`.
* `AssetsAreConserved`: `AssetsConserved`.

The first four rest on one inductive invariant, `IInv` (`IInvHolds`).  None of the
properties is inductive alone.  executeTrade writes rows by ids the engine has
carried since its read of the book, so `EngineInv` says that both exist and still
agree in the columns that never change; PlaceOrder inserts what it checked some
steps before, so `CallInv` says what a call knows at each point, in particular that
a seller's holding row, once there, stays there; `QueueInv` says that the channel
only holds orders of the table.  `RoundedIsNear`, `DebitBounds` and the lemmas on
`Scale` give what rounding can do to a balance.  There is one lemma per action, or
per group of actions that change the same variables, and `NextIInv` puts them
together.

The others need more, each on top of `IInv`:

* A trade is inserted with the sides, prices and owners its orders had then; that the
  row still shows them later is `SameOrder`, so `TradesRespectLimits` is inductive with
  `IInv`.  For `LedgerDrift` a commit moves a balance and its records by two roundings of
  one cost, which `RoundedIsNear` puts a unit apart at most; each trade counts once more.
* `Idempotent` speaks of two calls, which know each other only through the table.
  `UniqueKeys` is the unique index, and `ResultKeys` says that the order a call returns
  has the user and the key of the call's input.
* `NoMissedMatch` is about two orders that cross and that nobody will look at again.
  Whichever came second, the engine had the first in sight when it read the book, unless
  that one was still to come in the channel, or was dropped or abandoned (`Known`).  A
  step that reopens nothing keeps that, and the end of a round, with nothing eligible
  left, establishes it: there is a lemma for each way the engine's loop goes on.
* `CandidateIsBest` holds when the book is read.  Until the trade is executed, rows only
  advance (`RowAdvances`), and an order that comes in is in the channel's hands.
* `LedgerImplemented` says that `Init` of the exchange is one of the ledger and every step
  one of its steps or a stutter.  One lemma each shows that the insert of an order places
  it, that cancelling and expiry close what has something left, that deposits and
  withdrawals are the ledger's, that executeTrade's commit is a whole trade of two orders
  open at that moment, and that all else is invisible.
* `FillsMatchTrades` is inductive with `IInv` and `TradesRespectLimits`: a trade adds its
  quantity to the sums of its two orders and of no other (`QuantitiesAppend`), nothing
  else fills an order (`FilledByTrades`), and an order just inserted is named by no trade.
* `AssetsConserved` needs `SellersHoldRows`: the units the buyer gets are taken from a
  row that is there (`HoldingsMove`), so the sum over the asset's rows stays
  (`MovedUnitsTotal`), also when the buyer's row is new.

`SumLemmas` is what makes sums provable without induction.  A sum of natural numbers is
defined as the number of its units, a cardinality; `TotalSplit` takes one row's units out,
and `TotalUpdate`, `TotalInsert` and `TotalEmpty` follow.

`ConcurrencyProofs`, about `RowLocks`, from `LockConstants`, for any traders, orders and sessions:

* `LocksOwned`: `LocksHaveOwners`, for any number of engines and jobs.
* `DeadlocksInvolveTwo`: `DeadlocksNeedTwo`, likewise.
* `OneEngineNeverDeadlocks`: `NoDeadlock`, when there is one engine and no expiry
  job is in progress; neither condition can be dropped.

The invariant needed is that a handler takes one lock only (`SessionsTakeOneLock`):
whoever waits while others wait for it is then an engine or a job, and nobody waits
for itself.

`ConcurrencyProofs`, about `WebsocketHub`, from `HubConstants`, for any clients, topics and capacities:

* `SubscriptionsCorrect`: `SubscriptionsAgree`.
* `NeverPanics`: `ChannelsUsedOpen`.  A client's channel is closed in two places, so
  the invariant says where a client can still be: `ChanInv`, that a client in the
  unregister channel is there once, is not closed and has no read pump any more, and
  that a closed client has no topic; `HubInv`, what Run knows about the client at hand
  and the clients it has still to send to; `ReaderInv`, that a read pump about to
  change a subscription has a topic for it.
* `FullBufferIsFatal`: the counterexample of `hub_full_buffer` does not depend on its small
  channels: at a full buffer Run holds the lock it waits for (`HubInv`), and nobody's step
  ends that.

`ServerProofs`, about `Server`, for any transactions, partitions, groups and faults:

* `OnlyTradesAreCut`: `ShutdownCutsOnlyTrades`.  It follows from `ShutdownInv`: once the
  deferred calls are being made no request runs (`DrainedFirst`), before that none of
  them has been made (`ClosedLater`), and whoever has an event to publish still runs
  (`PendingRuns`).
* `EffectsAtMostOnce`: `HandledAtMostOnce`, with messages and increments sent twice, failed
  commits, and consumers that
  are killed between a read and its effects.  `OnceInv` has four parts: what the
  partitions hold and that a group's committed offset is at most what it has fetched, and
  that at most what is there (`LogInv`), that what a group has read of an
  event can be counted (`ReadsInv`), that each effect in a consumer's hands is there once and is
  still owed (`HandInv`), and that no more has been done than was read (`DoneInv`).
  Offsets are committed before the message is handled, so a restart gives back only what was
  never handed over; a commit may move an offset over messages that were skipped, which
  takes nothing back of what was read (`ReadsGrow`).

`RequestProofs`, about `RateLimiter`, from `LimiterConstants`, which the code's half a second, the
client's own limits of seconds and a window of one minute satisfy, for any number of
retries, requests, callers and limiters:

* `BlockedCorrect`: `BlockedOnlyOverLimit`.  Every entry of a sorted set is the time of a
  request of that key (`OriginInv`), none older than the window of the request about to
  count (`TrimmedInv`), and no two requests have one time, so the count is at most the
  number of peers, and one more, the request itself, if its batch was re-sent (`CountInv`,
  `Itself`).
* `LimitEffective`: `EffectiveLimit`.  The argument is that the request counted last has
  counted all the others, but no variable tells the order of the counts.  `GroupInv` says
  it without: of every set of requests that did not miss each other, one has counted as
  many as there are others.  It is kept by a count because what was added stays for a
  window (`KeptInv`), also when later pipelines break off after their removals.

`AssetCatalogProofs`, from `CatalogConstants`, for any calls, assets, brokers and lifetimes
(that a new asset has a price is validatePositiveDecimal, asset_service.go:32):

* `PricesRecent`: `ServedPricesAreRecent`.  `CopiesInv` says that the prices a call holds
  were current when it began, at most `CallTime` ago, and `CacheInv` that an entry is gone
  `TTL` and `CallTime` after its price was current, whoever wrote it and over whatever.
* `RevivedCorrect`: `RevivedOnlyByOverlap`.  `PlacesInv` says that a call about to write
  holds the row it writes and is an update or a disable.

`AccountsProofs`, from `AccountsConstants`, for any emails, calls, admins and lifetimes:

* `OneAccount`: `OneAccountPerEmail`; a registration that has inserted its row keeps its
  email taken (`MadeRegistered`).
* `AcceptedOnRecentReads`: `AcceptedRecently`, from `TokenAges`.
* `AuditCorrect`: `AuditTellsStatus`.  Between the UPDATE and its audit row the last row
  is out of date; `ChangesKnown` says that there is then one change only to be logged and
  the account has the status it gives, unless changes have overlapped or a row was lost.

`ServerProofs`, about `Migrations`, from `MigrationConstants`, for any list of scripts
sorted by version and any number of processes:

* `SchemaCorrect`: `SchemaMatchesRows`.  A process comes to a file only when the versions
  of all files before it are recorded (`EarlierClean`); a script commits its statements
  with its row.

`ReconciliationProofs`, from the assumptions of `OrderBook` and `Reconciliation`, for any
users, amounts, trades, `Scale` and `Precision`:

* `BalancesMatchRecords`: `BooksAgree`, which is inductive with the types (`BooksInv`).
  Each commit writes a balance and a row from one exact number, rounded separately;
  `Spread` counts how far the outcomes lie apart, and the proof shows that no two of them
  differ by more: the prints of an interval are an interval.
  An earlier form of `Withdraw`, which let any print of the amount be recorded when the
  balance is emptied, failed here for balances beyond `Precision`; both numbers are one
  then, and so is what is recorded.
* `AlertsExplained`: `ReportedWalletsMoved`.  A wallet that stood still and never drifted
  has by `BooksAgree` the balance its rows add up to, so the job compares equal numbers.
* `AveragesArePaid`: `AverageWithinPaid` (`AverageInv`): a weighted mean of two prices,
  rounded half up, leaves no interval that holds both, and a row that is sold out begins
  a new interval.
* `SettlementsAreFound`: `SettlementsVerified`.  The two rows of a trade are committed
  with it and never deleted (`TradesRecorded` in `SettleInv`), so the job, which reads the
  trade first, finds them unless its cost is printed differently.

`RequestProofs`, about `Paging`, from `PagingConstants`, for any rows, times, pages and
page sizes:

* `NoRowIsSkipped`: `NothingSkipped`.  `Rank` says that the place of a row that shares its
  time with no other is, in every ordering the database may choose, one more than the
  number of rows before it.  Until a row before it leaves, that number only grows: a row not yet
  returned is ahead of what the walk has reached (`SkipInv`), and at the last page nothing
  is ahead (`PagesCover`).
* `NoRowIsRepeated`: `NothingRepeated`.  Until a row comes in before it, that number only
  shrinks: a row that was returned is behind the walk (`RepeatInv`).

Only model-checked: the liveness properties PlacedOrdersAreProcessed, TransactionsEnd,
DisconnectedClientsReleased, EveryEffectHappens, ShutdownEnds and NobodyWaitsForEver,
because fairness is out of the prover's reach.  Every invariant and every action property
of a passing run has a theorem.

## 5. What is not modelled

GetOrder, GetWallet, the service of portfolios, VolumeAnalytics, SuspiciousUsers and
Health are single read-only queries.  HTTP binding and validation, role checks,
logging, metrics, configuration and connection set-up keep no state.
SystemHealthCheck pings and logs.  The packages `analytics`, `compliance` and
`notification` are not wired into `main`.

## 6. Plan

Order of work, the most important behaviour first.

1. Done: the exchange (matching, settlement, idempotency, faults) and the ledger it
   implements, its row locks, the jobs on its tables and its arithmetic, the hub, the
   limiter, the events and the life of the process, the catalogue, the accounts, the
   paged lists, the migrations, and the theorems of section 4.
2. Models to extend:
   * two engines on the same tables in `Exchange` (`architecture.md` has replicated
     API pods), and with it which properties survive;
   * changes of an asset's status during PlaceOrder;
   * two transactions at a time in `Server`.
