# TLA+ models of the checkout agent's backend

Models, model-checking runs and machine-checked proofs for the server side of
the shopping and checkout agent (`src/backend`). The models are written from
the source; every definition that models code is listed with its lines in
`PROJECT.json` ("map").

Run a model with `tlc -workers 2 -config <run>.cfg <module>`; check proofs with
`tlapm <module>.tla`.

## 1. The system

A FastAPI application. The routers for checkout, carts, orders, policy and
agent are plain `def` functions: each request runs in a thread of the server's
pool, with a SQLAlchemy session of its own (`database/session.py`,
`get_db_session`): one PostgreSQL transaction at a time, READ COMMITTED, ended
by `commit()`, by an error (rollback) or by the end of the request. These
requests interleave. The routers for sessions, UCP, merchant APIs, simulator,
gateway, health and system are `async def` functions that never await: they run
one at a time on the event loop, in parallel with pool threads only. The older
commerce engine keeps its state in module-level dictionaries.

| Component | State it keeps | Operations | Interacts with | What makes it correct |
|---|---|---|---|---|
| Checkout state machine (`services/checkout_state_machine.py`) | `checkout_sessions.status`, `.version` | `transition` | security service, checkout service (summary), cart, inventory and catalogue (preconditions) | only edges of the table; version counts transitions; payment follows authorization |
| Checkout security (`services/checkout_security_service.py`) | `checkout_idempotency_records` | `check_idempotency`, `record_idempotency_success`, access and binding checks | called by `transition` and `prepare_checkout` inside their transactions | one effect per key; replays are true and stay with their owner |
| Checkout service (`services/checkout_service.py`) | `checkout_sessions` rows, totals | `prepare_checkout`, `get_checkout_session` | cart, catalogue, inventory, pricing, shipping | a quote is a snapshot of one cart and adds up; stale quotes are detected |
| Order service (`services/order_service.py`) | `orders`, `order_items` | `create_order`, `update_order_status` | checkout session, cart, inventory | orders explain what is sold; an order passes every stage |
| Inventory (`services/inventory_service.py`) | available, reserved, sold per product | reserve, release, commit, check | carts, quotes, orders | stock conserved, no update lost |
| Cart (`services/cart_service.py`) | `carts`, `cart_items`, totals | create, add, update, remove, clear, select recommendation | inventory, pricing | nothing in it that nobody added; one merchant |
| Pricing, shipping | none | discounts, GST, shipping cost | quotes, carts | order and rounding of the operations |
| Purchase policy (`services/policy_engine.py`) | `purchase_policies` | evaluate a quote | quote, cart, catalogue, stock | an allowed quote respects every limit; what is forbidden is never put to the user |
| Sessions and Redis (`services/session_service.py`, `redis_service.py`) | sessions, tasks; a state per session in Redis or in the process | create, update, delete, add task | both agent entry points | the copy follows the database and does not outlive it |
| Audit (`services/audit_service.py`, `trust_safety/policy_engine.py`) | two hash-chained ledgers | record, verify | agent, pipeline, policy | an untampered ledger verifies |
| Trust policy, delegated authorization, wallet, permissions (`trust_safety/`, `infrastructure/`) | policy in force, category rules, mandates | evaluate, set, issue, charge | engine, MCP tools, ledger | no mandate above the rules |
| In-memory commerce (`cart_order_engine.py`, `checkout_pipeline.py`, `merchant_simulator.py`, `commerce_gateway.py`, UCP and MCP) | carts, quotes, orders, stages | cart, quote, pay, refund, cancel, staged checkout | policy, ledger | totals add up; charges are explained; settled orders stay |
| Shopping agent (`agent/agent_graph.py`, `agent_runner.py`, parser, discovery, constraints, ranking, recommendation) | one run's state; the catalogue is read | graph nodes, the older runner, the client's own steps | catalogue, sessions | what is recommended is eligible; the answer is true of itself; it comes |
| Catalogue, failure-recovery traces, schemas, migrations, seeds, frontend | - | - | - | see section 8 |

### Where it is hard

The list with source lines is in `PROJECT.json` ("hazards"). The themes:

* **Unlocked read, later write.** Only `transition` and the inventory take row
  locks. Reading a quote writes `EXPIRED`, ordering writes `COMPLETED`, a cart
  writes quantities and totals, all from an earlier unlocked read.
* **Commit in the middle.** `check_idempotency` commits when it deletes an old
  record, and with that ends the transaction that holds the row lock.
* **Effect and record in two transactions.** The idempotency record is written
  after the transition, or the quote, has been committed.
* **Several row locks in one transaction.** `create_order` locks inventory rows
  in the order of the quote's items: orders can deadlock.
* **Two stores.** PostgreSQL is committed before Redis is written, either may
  fail, and the task list in Redis is read, extended and written back.
* **Chains without a lock.** Both ledgers read the last event and append later.
* **Two routes to one store.** Simulator and gateway compute the same totals in
  code of their own; engine, UCP, MCP and pipeline check different limits.
* **A catalogue that changes while it is read**, page by page and product by
  product, by an agent whose nodes catch any exception and go on.

## 2. Plan

| Order | Modules | Content | Status |
|---|---|---|---|
| 1 | `TransitionTable`, `QuoteLifecycle`, `CheckoutStateMachine` | the checkout path on a persisted quote | built, proved |
| 2 | `Fulfilment` | orders with inventory row locks, order status | built, proved |
| 3 | `Pricing`, `CartsAndQuotes` | carts and quote preparation without locks | built, proved |
| 4 | `PurchasePolicy` | the decision over those quotes | built, proved |
| 5 | `SessionStore` | dual writes, fallback, crashes | built, proved |
| 6 | `HashChain`, `AuditLedger` | both ledgers and what they promise | built, proved |
| 7 | `MerchantSimulator`, `CommerceGateway`, `TrustPolicy`, `StagedCheckout`, `DelegatedAuthority`, `InMemoryCommerce` | what the process keeps in memory | built, proved |
| 8 | `IntentParser`, `ProductDiscovery`, `ConstraintEngine`, `RankingEngine`, `ShoppingAgent` | the agent | built, proved |

"Proved" means: every safety property that the runs check of these modules is
also a theorem, for all values of the constants (but for one, which is true only
of requests that do not overlap). What the provers cannot reach
is at the end of section 7.

## 3. Modules

| Module | Role |
|---|---|
| `TransitionTable` | statuses, actions and `TRANSITION_TABLE` as operators |
| `QuoteLifecycle` | abstract specification: how the row of one quote may change |
| `CheckoutStateMachine` | requests, row locks, idempotency records and crashes in full |
| `Fulfilment` | placing orders with inventory row locks, order status, reservations |
| `Pricing` | `PricingService` and `ShippingService` as operators on paise |
| `CartsAndQuotes` | `CartService` and `prepare_checkout` on one database |
| `PurchasePolicy` | evaluation of those quotes against a policy |
| `SessionStore` | sessions and tasks in PostgreSQL, their state in Redis or in the process |
| `HashChain` | abstract specification: what an audit ledger promises |
| `AuditLedger` | both ledgers with interleaved writers |
| `MerchantSimulator`, `CommerceGateway` | the merchants' stores and the two routes to them |
| `TrustPolicy` | spending policy, injection scan, process ledger |
| `StagedCheckout` | cart and order engine with UCP, MCP, planning agent and staged pipeline |
| `DelegatedAuthority` | category rules, mandates, permission matrix |
| `InMemoryCommerce` | composition of the five modules above in one process |
| `IntentParser`, `ProductDiscovery`, `ConstraintEngine`, `RankingEngine` | the agent's decisions as operators |
| `ShoppingAgent` | a run of the agent on any of its routes, composing those four |
| `MC*` | values of the constants for TLC |
| `CheckoutStateMachineProofs`, `FulfilmentProofs`, `CartsAndQuotesProofs` (with the policy), `SessionStoreProofs`, `AuditLedgerProofs`, `InMemoryCommerceProofs`, `ShoppingAgentProofs` | theorems and their lemmas |
| `SumLemmas` | what the proofs need of sums over finite sets |

### CheckoutStateMachine

A worker is a request thread. `pc` says where it is in its handler, `req` what
it was asked, `seen` the row as its ORM session has loaded it, `plan` the status
it has decided on, `out` the outcome. One action is one stretch of code between
two points where another transaction can be seen:

| Action | Code |
|---|---|
| `LockRow` | `SELECT … FOR UPDATE`, access and bindings (`transition` 137–158) |
| `CheckIdempotency` | `check_idempotency` up to its answer |
| `PurgeRecord`, `ReloadRow` | deletion of an old record **and its commit**, which releases the row lock; the next attribute access reads the row again, without a lock |
| `Decide` | expiry, table, self-loop, revalidation (`transition` 172–247) |
| `Refuse` | commit of `EXPIRED` or `INVALID`; also the expiry in `create_order` |
| `CommitTransition` | status and version written from the loaded row, commit |
| `RefreshRow`, `SelfLoopSummary`, `ExpireRow` | `refresh`, `_build_summary`, and the `EXPIRED` write inside `get_checkout_session` |
| `LookupRecord`, `InsertRecord`, `OverwriteRecord` | `record_idempotency_success` |
| `ReadSession` | `get_checkout_session` as a request |
| `CheckOrderable`, `PlaceOrder` | `create_order`: unlocked check, one commit |
| `Crash` | the process or the connection dies: rollback, locks released, no answer |
| `Elapse`, `Drift` | the deadline passes; cart, price, stock, merchant or shipping changes |

Abstractions. Totals, items and messages are left out. A request body is its
`quote_id`: it is what the fingerprint tells apart and what the bindings
compare (`cart_id` and `merchant_code` are checked in the same way). All
preconditions other than the cart's status are one boolean, `drifted`, that the
environment flips at any time: `transition` reads them without locks, so they may change
between the check and the commit. The clock is one boolean per quote, `late`. A
status write is an UPDATE only where SQLAlchemy finds the attribute changed:
`RefreshRow` and `ReadSession` go to `expire` only when the loaded status is not
`EXPIRED` already. `Decide` reads deadline and preconditions in one step; the
commit is a later step, so the window between the check and the commit is there.

Records that are past their 24 hours (`StaleRecords`) exist from the start;
records made during a run do not age, because the model covers the minutes of
one checkout. `visited` and `effects` are history variables, read by properties
only.

### Fulfilment

The same quotes, seen from the stock. `rowLock[p]` is the transaction that has
the inventory row of `p`; `loaded[w]` and `copy[w]` are the rows that the ORM
session of `w` has read, with what it has changed and flushed. Flushed changes
become `reserved` and `sold` when the transaction commits: as *values*, the way
SQLAlchemy writes `inv.reserved_quantity -= n`, not as differences, so that a
lost update would show.

| Action | Code |
|---|---|
| `CheckSession`, `ExpireSession` | the unlocked read of the quote in `create_order`, and its `EXPIRED` commit |
| `SellItem` | `commit_sold_stock` for one item: waits for the row, sells `min(reserved, quantity)`, flushes |
| `CommitOrder` | order, session, cart and stock in one commit |
| `AbortDeadlock` | PostgreSQL aborts a transaction on a cycle of waiters; rollback |
| `Crash` | the process or the connection dies; rollback |
| `ReadOrder`, `WriteOrder` | `update_order_status`: read and check, then write; no lock |
| `ReserveStock`, `ReleaseStock` | `reserve_stock`, `release_stock` by a caller that commits at once |
| `Elapse` | the quote's deadline passes |

Abstractions. A quote is its items; prices, addresses, tracking numbers and the
cart are left out (`CheckoutStateMachine` has the cart). `OrderIds` bounds how
many orders there can be; every instance has enough for all orders that its
quotes allow. `passed` is a history variable, read by properties only. The
session's other statuses and its transitions are in `CheckoutStateMachine`:
here a quote is PENDING until it is ordered or expires.

### CartsAndQuotes, Pricing, PurchasePolicy

`cart`, `line`, `quote` and `record` are the tables; `price`, `active`,
`onHand` and `open` are the catalogue, which the environment changes; `seen[w]`
is what a handler has read, `draft[w]` the quote it is about to save. `touched`
stands for the comparison of the cart's and the quote's times; `granted` and
`answered` are history variables. No handler takes a lock, so each has two
actions, the reads and the commit of what was computed from them:

| Action | Code |
|---|---|
| `FindCart`, `InsertCart` | `get_or_create_active_cart`: the query, then the insertion (two can both insert) |
| `ReadCart`, `WriteCart` | add, update, remove, clear, select: checks on what was read, then lines and subtotal in one commit. `recalculate_cart` is part of `WriteCart` |
| `PrepareGate` | `check_idempotency` of `prepare_checkout` |
| `PrepareRead`, `PrepareSave` | cart, prices, shipping, promotion and totals; `created_at` and the insertion |
| `PrepareLook`, `PrepareRecord` | `record_idempotency_success`: query and insertion. A record that is there gets the new response and keeps the fingerprint of the old request |
| `CatalogueEvent`, `AgeRecord`, `Crash` | the environment |

An UPDATE of the cart row is issued only if its subtotal has changed, and
`updated_at` moves only then (`Touch`): a price drop that compensates an
addition leaves it alone. `GET` of a cart recalculates and never commits, so it
is no action. Two lines of one product and two ACTIVE carts are states the code
reaches, and the model does.

`PurchasePolicy` adds `Judges`: an evaluation reads the quote with its cart and
merchant (`StartEvaluation`) and later the products and their stock
(`FinishEvaluation`). `Reasons` is the union of one set of reason codes per
rule, `Decision` their precedence. As in the code, a limit of zero is no limit,
and the limit per product counts a line at a time.

### SessionStore

`users`, `session` and `tasks` are PostgreSQL; `cache` has the states in Redis
and in its stand-in in the process, and `link` says which of the two
`_init_connection` has chosen. `written` and `apart` are history variables. A
thread is the event loop (`Loop`) or a pool thread of an
agent run. `EnsureUser`, `AddUser`, `InsertSession`, `UpdateSession`,
`DeleteSession`, `FlushTask`, `CreateTask` are the commits; `Refresh`,
`GetState`, `SetState` and `DropState` the steps between the commit and the
cached state; `GraphSession`, `GraphInsert`, `GraphTask` the graph's own writes,
which leave the cached state alone and come twice in a run. Any call to Redis
may fail; a state may lapse; `Crash` ends the process and its store in memory.

### AuditLedger and HashChain

`RecordEvent`, `ReadLastEvent`, `CommitEvent`, `LoseEvent` are `record_event`;
`AddAuditLog`, `CountBlocks`, `ReadPrevious`, `AppendBlock` are `add_audit_log`;
`Crash` takes the list with its process. `AcceptedTable` and `AcceptedList` are
what the two verifications accept: the table is walked by creation time, which
a writer takes before it commits, the list by position. `HashChain` is the
promise: until two writers meet, the accepted part is the whole ledger and
every event extends it; afterwards what was recorded before still verifies and
nothing is promised of the rest. `tableMet` and `listMet` remember the length
when writers first met. The clock is assumed to move forward between calls.

### The commerce in memory

Every handler is one step of the event loop. `carts`, `quotes`, `orders` belong
to the merchants and are reached by the simulator's and by the gateway's
handlers (`SimulatorRoutes`, `GatewayRoutes`), each with arithmetic of its own;
`basket`, `placed`, `stage` are the engine's; `policy`, `ledger`, `rules`,
`tokens` the trust layer's. The two halves share only the process, so a
behaviour serves the clients of one (`side`), and `Restart` empties both.
Amounts are exact in paise: prices and percentages are whole numbers. Pipeline,
planning agent, supervisor, delegated authorization, wallet and permissions are
called by no router; they are modelled as library calls. Quantities are not
checked by any handler, so negative ones are among the inputs.

### ShoppingAgent

A behaviour has one request, as runs share only the catalogue, and `kind` tells
its route: the graph's whole result or its state, the older runner, or a client
that calls `/intent`, `/discover`, `/filter` and `/rank` itself. `QueryMerchant`,
`Search` (a page), `ReadDetail` (a product) are separate reads of the catalogue,
with `ChangeShelf` between them; `FinishDiscovery`, `Filter`, `Rank`,
`Recommend`, `Answer` are the nodes with the edges that follow them. Where a
node catches `except Exception`, raising is a choice (`raises`), except in
ranking, where data that is no number decides. Scores are whole hundredths with
half-up rounding, money is in thousands of rupees, a message is a record of the
wishes its words name.

## 4. Properties

Each safety property is proved as well as checked, but for
`FreshQuoteShowsTheCart`.

Checkout:

* `TypeOK`, one per module that has one in a run.
* `PaymentFollowsAuthorization`: also when locks are lost.
* `ImplementsLifecycle` (proved for `StaleRecords = {}`): refinement. The
  lifecycle lets a late read write EXPIRED over any status (`Lapse`), as the code
  does.
* `LockProtectsTheRow`: while a transition has the row lock, what it
  loaded is what is in the row, although two other handlers write it unlocked.
* `VersionCountsTransitions` (for `StaleRecords = {}`): version = 1 + committed
  transitions; a record past its time can break it.
* `ReplaysTellTheTruth`, `ReplayStaysWithOwner`: what a key replays.
* `StockConserved`, `FlushedFitsTheRow`: no unit is made or lost,
  no reservation or release is overwritten by an order that commits later.
* `SoldWasOrdered`: nothing is sold without an order for it.
* `DeliveryPassesEveryStage`: although changes of status race.

Carts, quotes, policy:

* `NothingFromNowhere`: additions may be lost, never counted twice.
* `OneMerchantPerCart`, `QuoteAddsUp`, `RepeatMakesNoQuote`.
* `FreshQuoteShowsTheCart`, for requests that do not overlap: a quote that
  `get_checkout_session` does not call stale shows its cart (checked only, for
  one request at a time and prices that stay; either condition dropped, TLC
  shows a counterexample).
* `AllowRespectsPolicy`, `ForbiddenIsNeverAsked`, `LooserIsNeverStricter`
  (which compares every two policies over one reading, in all their limits and
  lists; zero, null and the empty list are the loosest).

Sessions and ledgers:

* `CacheTrailsDatabase`: the cached state shows only what was committed.
* `SerialRequestsAgree`: without overlaps and failures the two agree.
* `DeletedStateFades` (a liveness property, checked only): the state of a
  deleted session, which a late task may write again, always has a lifetime.
* `ParentsAreRecorded`, `TableKeepsItsPromise`, `ListKeepsItsPromise`: both
  ledgers are trees and implement `HashChain`.

In-memory commerce:

* `EveryCartAddsUp`, `ChargesAreExplained`, `SettledOrdersStay`: across the
  routes.
* `OrdersAndLedgerAgree`: each order is stamped by a purchase block of its own,
  of its route and product, in the order of the orders; and each purchase block
  of the UCP router and the pipeline has its order. A block of the MCP tool may
  have none: the tool logs it first and then builds the order from arguments
  that no schema checks (`mcp_server.py:121`, `:130`).
* `PolicyBeforePurchase`, `MandatesKeepToTheRules`: the limits each route checks.

Agent:

* `RecommendedIsEligible`, `NoMatchMeansNone`: against what the catalogue was at
  some moment of the run, whatever changed meanwhile. An answer that nothing
  matches may be wrong about a product only if its merchant had a page's worth
  of others that could come before it (`CutOff`), or if the normalizer refuses
  its negative base price, which the user is not told (`Refused`).
* `ReportsTellTheTruth`: status, errors, plan and content of an answer agree.
* `RankingRespectsDominance`: no product below one that it beats in everything.
* `ConversationRemembers`: exclusions, the last maximum and the last minimum
  survive refinements, but for a bound of 0, which the parser takes for none
  when the next message comes (`intent_parser.py:261`).

Liveness, checked only: `EveryRequestIsAnswered` (checkout, agent),
`EveryRequestEnds` (orders, in spite of deadlocks).

The type invariants `CartTypeOK`, `PolicyTypeOK`, `SessionTypeOK`,
`LedgerTypeOK`, `SimulatorTypeOK`, `StagedTypeOK`, `AuthorityTypeOK` and
`AgentTypeOK` describe the state of the other modules; they hold in their runs
(add them to the cfg) and are in no cfg, as the runs are for what could be wrong.

### What the repository says and the code does not keep

`OneOrderPerSession` is the run `double_order`: two concurrent `create_order`
requests both succeed, against the comment it quotes. The others are defined
beside the models with the lines they come from; put in place of the properties
of the cfg named here, TLC shows a behaviour that breaks each:

| Definition | Cfg | What happens |
|---|---|---|
| `TerminalStatesAreFinal` | `CheckoutLifecycle` | a late read of a COMPLETED or CANCELLED quote makes it EXPIRED (`checkout_service.py:389`; `checkout_state_machine.py:4` "Guarantees terminal state immutability") |
| `VersionNeverDecreases` | `CheckoutAnswers` | a key of yesterday ends the locked transaction (`checkout_security_service.py:87`); two transitions overlap and the slower one writes an old version |
| `RetryIsReplayed` | `CheckoutAnswers` | a retry after a crash between the two commits is rejected, not replayed (`checkout_state_machine.py:285`, `models.py:581`) |
| `NoOverselling` | `FulfilmentStock` | nothing reserves before an order, so two quotes of the last units can both be ordered |
| `OrdersFollowTheTable` | `FulfilmentStatus` | a status change decided on an older status is written over a newer one |
| `FreshQuoteShowsTheCart` | `QuotePrepare` | `created_at` is taken after the cart was read: an addition in between leaves a quote that looks fresh |

Other things a reader of the models should know the code does: an idempotency
record overwritten by a later response keeps the old fingerprint; the limit per
product counts lines, so two lines of one product pass it; UCP orders the first
product of the catalogue at its bare price, whatever the quote; MCP asks no
policy, and logs a purchase before it knows whether the order can be built; the
pipeline charges the whole cart, which a refusal does not clear; a
charge by the sandbox wallet compares nothing with the mandate; paying one quote
twice places two orders; a filter that raises is followed by a recommendation of
unfiltered products (`agent_graph.py:350`); one malformed memory size fails the
ranking of all, and a negative base price hides a product without an error; a
budget of 0 is forgotten; a product nobody rated counts as 4.5; an unknown delivery time
scores above a long one. The properties are stated so that they say what holds
in spite of these.

## 5. Runs and bounds

| Run | Instance | Shows |
|---|---|---|
| `lifecycle` | 1 quote, 2 threads, all 10 actions, all request kinds, expiry, drift, crashes, no keys | the row's whole life |
| `replay` | 2 quotes of 2 users, 2 threads, 1 key, bodies with and without quote | idempotency across quotes and users |
| `answers` | 1 quote, 2 threads, 1 key with a record past its time, all request kinds, expiry, crashes, fairness | row locks and liveness when the clean-up of a record ends the locked transaction |
| `double_order` | smallest instance that shows the finding | finding |
| `stock` | 2 quotes of 2 products in opposite item orders (one product twice, one without a row), 2 threads, 4 orders, stock 3 and 1, reservations of 1 and 2, fairness | inventory columns and orders agree through deadlocks, crashes and expiry; every request ends |
| `order_status` | 1 quote, 2 threads, 2 orders, every target status | racing status changes |
| `quotes` | 2 threads, 3 carts, 2 quotes, 2 lines, 1 key, 2 prices, 2 promotions and shipping options, callers with and without session, crashes | carts and quotes under overlap |
| `policy` | 1 request thread with every cart operation, 1 judge, 5 policies, 2 products (one of unknown category) | decisions on every reachable quote; pairs of policies of which one is looser |
| `sessions` | the event loop and 1 agent thread, a made-up and a generated session id, 2 tasks, failing Redis, crashes | cached state against rows |
| `ledgers` | 3 writers, 5 events, crashes | both ledgers |
| `commerce` | 5 requests on the merchants' side (2 merchants, quantities -1 and 2, 2 codes) or 4 on the trust side (1 engine cart, 2 policies, 3 amounts), restarts | sequences across routes |
| `agent` | 6 products of 3 merchants (one with a negative base price, one whose storage is in quotes), pages of 2, 8 messages (one with a maximum of 0), 2 turns, 2 lists of merchants named in the call, 1 change of the catalogue | every route of the agent |

Two threads are enough for every pairwise race; the proofs remove the bound
where it matters most. The ledgers have three writers, so that a third one
reads what two have left. In the checkout and order models a thread handles any
number of requests one after another and the state space is finite without a
bound on requests, since the table has no cycles. Bounds that cut behaviours off
are constants of the modules: `MaxLines`, `QuoteIds` and `CartIds`
(`CartsAndQuotes`), `MaxTasks` (`SessionStore`), `MaxEvents` (`AuditLedger`),
`OrderIds` (`Fulfilment`), `MaxRequests` (`InMemoryCommerce`), `MaxTurns` and
`MaxChanges` (`ShoppingAgent`). Five requests reach a cart made on one route,
changed on the other, quoted, paid and refunded. Pages of two stand for the 20
of the code: one merchant has three products, so a page can be too short.
`QuotePrepare.cfg` uses symmetry of threads, quotes and the free cart ids; it
checks invariants only. `CHECK_DEADLOCK FALSE` stands where a bound ends every
behaviour (`ledgers`, `commerce`) or a request does (`agent`).

## 6. Fairness

`FairSpec` of `CheckoutStateMachine` and `Fulfilment` assumes strong fairness of
each thread's handler: a running thread is scheduled, and PostgreSQL serves the
waiters of a row lock in order, so a lock that is free again and again is
obtained. Weak fairness would not do: between two requests of other threads the
lock is taken again, and the waiter's step is enabled only now and then. In
`Fulfilment` a transaction that waits on a cycle is aborted by PostgreSQL's
deadlock detection, which is part of `Handle`; which one is aborted is left
open. `ShoppingAgent` assumes weak fairness of `Advance` alone: the thread of
the run goes on, waiting for nobody. Nothing is assumed of clients, of the
clock, of crashes or of the catalogue.

## 7. Proofs

Seven modules hold the theorems and an eighth, `SumLemmas`, what several of them
need. Each theorem `Spec => []P` follows the same pattern: an invariant that
`Init` implies and every action keeps (one lemma per action or per kind of
action), and that implies `P`. A theorem holds for every value of the constants
that meets the `ASSUME`s of its module; TLC evaluates these on the instances.
They say what the code guarantees of the data (prices, stock and costs are
amounts, a product has a merchant, ids are distinct from null), and no bound is
assumed but that it is a number: `ConstantsAssumption`, `OutcomesAssumption`
(`CheckoutStateMachine`); `FulfilmentAssumption`; `CatalogueAssumption`,
`FirstCartsAssumption`, `RequestsAssumption`, `BoundAssumption`,
`NoneAssumption` (`CartsAndQuotes`, where carts may exist at the start, without
lines); `PoliciesAssumption`; `RequestsAssumption`, `LoopAssumption`,
`BoundAssumption`, `NoneAssumption` (`SessionStore`); `LedgerAssumption`;
`ShopsAssumption`, `SizesAssumption`, `WantedAssumption`,
`QuantitiesAssumption` (any integers), `AmountsAssumption`,
`NewRulesAssumption` (in memory); `MessagesAssumption`, `DiscoveryAssumption`,
`OrderAssumption` (no merchant is listed twice), `ShelvesAssumption`,
`NoneAssumption` (agent).

Checkout (`CheckoutStateMachineProofs`):

* **TypeCorrect.** `ControlInv` adds to the types which request a thread has at
  each place (`Control`): without it, nothing says that `plan` is a status when
  it is written. `FinishKeepsThreads` and `GoToKeepsThreads` say once what
  ending a request and moving on preserve; each handler has one lemma.
* **LockProtects.** `LockProtectsTheRow` is inductive relative to `ControlInv`.
  `OthersStayProtected` is the heart: a step of `w` may write a row only if `w`
  or nobody has its lock, so every other thread's loaded row stays current.
* **PaymentIsAuthorized.** Rows are not always locked, so the invariant speaks
  of the history: a decision to advance rests on *some* status the session has
  had (`Decision`), and the history only grows. `PaymentEdges` is the fact about
  the table that makes the property hold.
* **Refinement.** With no record past its time, no thread is ever between
  `PurgeRecord` and `ReloadRow` (`NoneGoesStale`), so a deciding thread has the
  lock (`Standing`) and what it loaded is the row (`LockProtectsTheRow`). Each
  writing handler is then one step of `QuoteLifecycle`, every other a stutter.
* **ReplaysAreTrue, ReplaysStayWithOwner.** The record is written in a
  transaction after the one that made it true. `ReplayInv` adds that the answer
  a request carries to it is a status its session has had (`Answer`), and that
  whoever is past access control may see the session: records are found by key
  alone, so ownership must hold of every writer of a record.
* **VersionCounts.** That the version counts the committed transitions needs
  that no transition is committed twice. `CountInv` adds a rank of the statuses
  that every edge of the table raises (`RankOf`): what was committed is not
  ahead of the status, so a new edge is a new effect.

Orders (`FulfilmentProofs`):

* **StockTypes, StockIsConserved, NoLostUpdate.** A commit writes what was
  computed from rows read long before, so conservation alone is not inductive:
  `StockInv` adds that whoever has loaded a row has its lock and that the row
  still has as many units as the copy (`FlushedFitsTheRow`). Releases and
  reservations need the lock, so they cannot touch a loaded row.
* **SalesAreOrdered.** The order that explains a sale exists only at the commit.
  `SalesInv` says that what a transaction's copies have sold more than the rows
  is at most the items before the one it is at (`UpTo`), so that at the commit
  it is at most the whole order.
* **DeliveryIsComplete.** A racing change may rest on a status that is gone, so
  the invariant speaks of the history, as for payment: a change about to be
  written has a predecessor among the statuses the order *has had*
  (`ChangesAreGrounded`).

Carts, quotes, policy (`CartsAndQuotesProofs`):

* **OneMerchant, QuotesAddUp.** What a thread has read may be gone when it
  writes. `CartInv` says what stays true of it: carts keep their merchant and
  lines their cart and product until they are deleted (`Grows`), so a line read
  earlier is the same line or none (`SeenOK`), and what a handler accepted it
  still may write (`AcceptedOK`). Rounding and discounts are bounded in
  `Rounding`, `DiscountBounded`, `TaxBounded`.
* **GrantsExplainCarts.** Additions are lost when two threads write a line, so
  what was granted is not a function of the rows. `GrantInv` says that *some*
  share of the grants covers each line, and also what each request has read of a
  line and may yet write back; a write raises one share by what is granted.
* **RepeatsStopAtTheGate.** `RecordInv`: a request whose key had an answer is at
  the gate and the answer is still there, as only a gate that finds a record too
  old deletes it.
* **AllowsRespectPolicies, ForbiddenNeedsNoPerson, LooseningIsSafe.** The rules
  are unions of reasons; `DecisionCases` turns decisions into reasons that are
  absent. `PolicyInv` keeps a verdict sound for a quote that no handler changes
  (`QuotesStay`). `LooserRefusesLess` compares two policies rule by rule:
  whatever the looser one objects to, the stricter one objects to something at
  least as grave, perhaps the ceiling instead of the threshold.

Sessions (`SessionStoreProofs`):

* **SessionTypes, CacheTrails.** `TrailInv`: what a thread is about to write to
  Redis was committed, and a task it has just inserted is known to no store and
  to no other thread (`Trailing`), so no task comes twice, although the list is
  read, extended and written back without a lock.
* **SerialAgrees.** `SerialInv`: a session that was never pulled apart has at
  most one writer, and what that writer will write is the row (`Catching`).

Ledgers (`AuditLedgerProofs`):

* **LedgersAreTrees.** `TreeInv` adds that a hash a writer has taken is nobody
  else's and not recorded yet (`MinesAreFresh`), and that what it has read is
  (`ReadsAreRecorded`): a writer may be overtaken, but recorded events stay.
* **ListRefinement, TableRefinement.** `AcceptedWhole` and `AcceptedKeeps` say
  what verification accepts of ledgers with right links. `ListInv` and
  `TableInv` say that until writers meet there is one, it has read the last
  event, and all links hold; and that the links of before hold ever after. For
  the table this rests on the order of creation times: who commits later than
  the meeting was created later than all recorded before it, so the walk by
  creation time begins as it did (`WalkGrows`, `WalkExtends`). The lemmas on
  `Walk` are proved from the least element of a set of numbers and the
  library's facts on cardinality.

In memory (`InMemoryCommerceProofs`; `CommerceInv` has four parts):

* **CartsAddUpEverywhere, OrdersAreExplained, SettledStays.** `ShopInv`: every
  merchant's cart adds up, whichever route wrote it (both routes' arithmetic is
  shown to agree), a quote is explained by a quantity and a code at the price of
  its cart, which no patch changes, and an order by its quote. `BasketInv` is
  the same for the engine, whose totals are sums over lines of any integers.
* **LedgerTellsTheOrders.** `LedgerInv` follows the property; the work is that
  every other entry of the ledger is no purchase (`OtherLogs`) and that an order
  is appended with its block (`PurchaseLogged`). The block of an MCP call whose
  order fails leaves every stamp where it was.
* **PurchasesAreAllowed, MandatesAreKept.** Action properties, from `CommerceInv`
  and the checks of each route; `AuthInv` says that rules stay rules.

Agent (`ShoppingAgentProofs`; one invariant, `AgentInv`):

* **RecommendationsFit, NoMatchIsNone.** The catalogue changes while it is read,
  so `RunOK` speaks of the versions that a product has had during the run:
  every candidate was read from one (`ProductsOK`), what passed the filter met
  the constraints in one (`FilteredOK`), and of a merchant that answered no
  product is missing unless it did not fit at some moment or a page cut it off
  (`NoneMissing`, with `MerchantsOK` and `DetailsOK`: nobody is asked twice).
  The rivals that `CutOff` counts only become more as the catalogue changes
  (`CutOffRemains`), and a page that misses a product is full of them
  (`RivalsCutOff`).
* **ReportsAreTrue.** `StatusOK` and `ResultOK` tie status, errors and plan to
  the stage, through every node that catches what it raises.
* **RankingIsFair.** `rank_products` puts each scored product at one more than
  the number of those with a better key. That this is a ranking of all of them
  is shown by an injection into the numbers up to the pool's size (`Ranks`,
  `RankingFits`); that it respects dominance, through the monotonicity of each
  score, the weights, the caps and the rounding. As the code scores a discount
  below 4 percent less than none, and an unknown delivery time above a long one,
  discounts enter by their score and only known times are compared.
* **TalkRemembers.** `TalkInv` is about the messages so far, a sequence of any
  length; a refinement adds to the exclusions and changes a bound only when the
  message names one or the bound is 0.

Sums and counts are folds, that is recursive functions over finite sets, and the
library's induction theorems are out of the provers' reach. `SumLemmas` goes
round that: induction over the subsets of a finite set is proved from the
well-foundedness of the strict subset ordering, with the induction hypothesis as
membership in a set (`SubsetInduction`); the recursion equation has one solution
(`SumsExist`, `SumsAreOne`), so a fold over any order of choice is *the* sum
(`WeightOf`), to which `SumTakesOut`, `SumMonotone`, `SumAgrees`, `SumRaised`
apply. `CountingUp` is the same for sequences read by index.

Only model-checked:

* Liveness (`EveryRequestIsAnswered`, `EveryRequestEnds`, `DeletedStateFades`),
  which is out of the prover's reach.
* `FreshQuoteShowsTheCart`: it holds only of requests that do not overlap and of
  prices that stay, which the server does not promise; a theorem under these
  conditions would say little of the program.
* The type invariants that no run checks (section 4): the proofs use the parts
  of them they need.
* `OneOrderPerSession` and the other definitions of section 4's table, which the
  code does not keep.

## 8. Not modelled

* Text: the regular expressions that find wishes in a message and
  specifications in a title, the wording of reasons, warnings and traces. What
  they find is an input.
* Of the agent's reasoning: canonical grouping of offers, soft penalties, the
  comparison matrix, categories other than the one the parser knows.
* A merchant named twice in a call of `/agent/discover`, which the code asks
  twice (`OrderAssumption`).
* Reads that decide nothing: catalogue search of gateway and simulator, product
  and merchant routers, comparison across merchants, tracking, health, system.
* `record_agent_run` and the general key-value calls of `RedisService`, which
  have no callers. (`AuditService` has none in the routes either, but is
  exported, and is modelled.)
* The creation of the default policy and of a product's first inventory row:
  the models start with them. Policies do not change during a run of `policy`.
* Older agents (intent extractor, memory manager, legacy helpers), merchant
  adapters, telemetry, configuration, logging, schemas, migrations, seeds: data,
  pure I/O or start-up code without interleavings. The failure-recovery engine
  returns prepared traces; its one change of state, a ledger block, is in
  `TrustPolicy`.
* The frontend is an arbitrary client.
* SQLite, which tests may use instead of PostgreSQL, ignores `FOR UPDATE`; the
  models are about PostgreSQL.
