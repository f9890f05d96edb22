# ShopVerse: a verification development

ShopVerse is an e-commerce backend (NestJS, Prisma, PostgreSQL, Redis) with a
plugin SDK, a storefront and tools. Its core is `src/backend/src`: stock that
must not be sold twice, money that must not be paid twice, and jobs that several
replicas run. The design document, `src/SYSTEM_DESIGN_FINAL.md`, numbers the
invariants it wants (I-1 to I-13); the hourly `InvariantValidatorService` checks
some of them in production, after the fact. Here they are checked before it, on
models of the code: TLC explores small instances exhaustively, and TLAPS proves
the main invariants for every value of the constants. The storefront
(`src/frontend`, Next.js) is here too, where it meets the backend: what its pages
ask for, and what they show of the answers.

All paths below are relative to `src/backend/src` unless they start with `src/`.

## 1. Inventory of the system

Every service is a class of handlers over shared database rows. A handler runs
in one of several Node processes; between two `await`s any other handler, of
this process or another, may run. What ties two statements together is only a
Prisma `$transaction`, which runs at PostgreSQL's default READ COMMITTED: a
`findFirst` in a transaction locks nothing, an `UPDATE` holds its row to the
commit. Almost every hazard of this system is a consequence of those two facts.

| Component | State | Operations | Interacts with | What is hard | Correct when |
|---|---|---|---|---|---|
| Inventory (`inventory/`, the SQL in `cart/`, `warehouse/`, `products/`) | `WarehouseInventory.stock/reserved`; `Variant.stock/reservedStock`, a write-through copy | reserve, release, commit a shipment, set a row | reservations, orders, operators | conditional updates, `GREATEST(0, ..)`, the two rows drifting | never reserved above stock (I-2), copies equal (I-1) |
| Cart reservations (`cart/cart-reservation.service.ts`) | `CartReservation` rows with status and expiry | reserve, release, validate, consume; sweep every minute | inventory, orders, Redis gate, cron lock | stale reads, double release, sweep against consume, abandonment | reserved units are exactly those held; every late row is swept |
| Flash-sale gate (`common/redis.service.ts`) | one Redis counter per variant, TTL one hour | try, init if absent, release | reservations | cold fill from a stale read, lost tokens, restart of Redis | advisory: PostgreSQL decides |
| Orders (`orders/orders.service.ts`) | `Order.status`, lines, return request | place, cancel, cancel a line, set status, return | inventory, payments, wallet, coupons | status read before it is written, late webhooks, repeated operator commands | reserved is what is owed; what left is what was ordered |
| Checkout amounts, fraud gate (`orders/`, `coupons/`, `fraud/`) | amounts of the order, wallet's share, blacklist, flags | gate, price, clamp, commit, debit | wallet, coupons, orders | wallet and prices read before the commit, debit after it | amounts add up; a customer is blocked for both abuses only |
| Payments (`payments/payments.service.ts`) | payment intents, `PaymentReconciliation`, `RefundRequest` | intents, webhooks, two-phase gateway refund | orders, wallet | redelivered and late webhooks, crash between the phases, other handlers that write the same rows | one claim of an order at a time; the books follow the money |
| Refund retry (`payments/refund-retry.service.ts`) | `RefundRequest.retryCount` | hourly retry, permanent failure | gateway, payments | an answer lost after the refund was made | stuck rows get on, exhausted ones are marked |
| Wallet (`wallet/`, `admin/` maker-checker, callers in `orders/`, `payments/`) | `Wallet.balance`, `WalletTransaction`; `RefundApproval`, `RefundRequest` | credit, debit, withdraw; request, approve, reject | orders, payments, operators | retries after a crash between four transactions, references, limit checked first | balance is the sum of the book (I-3); a refund once (I-7), on record first (I-11) |
| Warehouses and shipments (`warehouse/`) | shelves of several warehouses, `Shipment` | count, route, split, set status | orders, inventory | sums under READ COMMITTED, a routing cut off | I-1 over all warehouses; shipped as bought |
| Event bus (`common/event-bus.*`), loyalty, referral | queue, points and their rows | publish, dispatch; earn, claw back, bonus | orders, wallet | at-least-once, fall-back after a failed enqueue, order of events | credited at most once; points are the sum of their rows |
| Coupons, affiliates | `usedCount`, `CouponUsage`; `totalEarned`, `totalPaid` | validate, use, edit; attribute, pay out | orders, wallet | check then write, overlapping payouts | limits hold; paid is earned |
| Outgoing webhooks (`webhooks/`) | `WebhookDelivery` rows | dispatch, retry each minute | cron lock, endpoints | the job meets a first attempt, crash in a batch, batches that overlap | a success that no run has on its list stays; a failure is tried again |
| Cron lock (`common/cron-lock.service.ts`) | one row per job | acquire (insert or steal), release | every scheduled job | TTL outlived, process death, delayed insert | at most one holder until a job outlives its lock; a holder keeps its lock; a dead holder does not stop the job |
| Hook runner, circuit breaker (`common/`) | state, failures, times per plugin and hook | run, tryAcquire, answer, fail | plugins | concurrent trial calls, late answers | opens for cause; recovers |
| Plugin switch and registries (`common/`) | a set in Redis and a mirror in each pod; strategies, crons, queues | disable, enable, sync; register, unregister | hook runner | failed commands, restarts | off everywhere; tables agree |
| Semaphore (`src/packages/sdk/src/runtime/semaphore.ts`) | permits, waiters | acquire with timeout, release | plugins | timer against hand-over | permits conserved |
| Catalogue (`products/`) | products, variants, their stock | staff edits, listing, facets, recommendations | cache, orders, inventory | counts computed apart from listings | counts are those of the listings; nothing ordered disappears |
| Reviews (`reviews/`) | reviews, votes, `avgRating`, `reviewCount` | write, change, delete, vote | catalogue | two copies computed in transactions blind to each other | copies right again after the next rating |
| Read-through cache (`common/redis.service.ts` getOrLoad) | Redis entries, in-process flights | read, load, fill, drop | catalogue | a load from before a change stored after the drop | staleness bounded |
| Bag, saved for later (`cart/cart.service.ts`, `experience/`) | `CartItem`, `SavedForLater` | add, set, remove, clear, save, move | reservations | line read before it is written; move in two statements | within limits; nothing lost |
| Invoices (`invoices/`) | `Invoice`, `InvoiceSequence` | number, commit | payments | concurrent transactions, change of year | numbers without gap or duplicate (I-13) |
| HTTP interface (controllers, guards, DTOs) | none | routes: role, body | storefront | changed apart from its clients | every request of a page is understood |
| Storefront (`src/frontend`): API client, pages, wishlist button | React Query's cache, the store | queries, mutations, invalidation | HTTP interface | optimistic store, answers overtaken by saves | a page shows what the server has |
| Accounts, brands, questions, FAQs, exchanges, reminders, flash-sale administration, validator, delivery estimates, analytics, e-mail, sample plugins, developer packages, deployment | see PROJECT.json | | | little shared state | |

`PROJECT.json` lists each with its sources, its status, and the reason when it is
not modelled, and under `hazards` the line at which each hazard bites.

## 2. Modules

    Inventory                    stock movements, one operator per SQL statement pair
      |-- CartReservation        reserve / release / checkout / sweep
      |     |-- FlashGate        the same steps behind the Redis gate; refines CartReservation
      |-- OrderFulfilment        orders, cancellation, shipment, return
    Payments                     intents, gateway events, refunds, the hourly retry
      '-- TwoPhaseRefund         what a refund promises; Payments implements it
    Wallet, Promotions           store credit; coupons and affiliates
    Shipments, Rewards           several warehouses; order events, points, bonuses
    Checkout, Bag, Invoicing     amounts and fraud gate; cart lines; invoice numbers
    Catalogue, Reviews, ReadThrough
    CronLock, Deliveries         one job name; outgoing webhooks
    HookRunner, PluginSwitch, PluginRegistries
    ApiRoutes  ApiCalls  PageForms        the two sides of the HTTP interface
         '--- ShopPages, AdminPages ---'
                    Pages                 a view of a page against the routes
    WishlistToggle               two hearts, one store, one row

    InventoryProofs, ReservationProofs, OrderFulfilmentProofs, PaymentsProofs, WalletProofs,
    ShipmentsProofs              theorems about the modules above (section 4)
    StoreProofs, ServicesProofs  the same, and about MCShop and MCServices as wholes
    MCX                          EXTENDS X: sets and functions for TLC's instances
    MCServices                   jobs, queues and timers, with fairness
    MCShop                       the components that need no scheduler

A module with variables of its own has one action per handler step. The
conventions are the same everywhere:

* A handler that reads, yields and writes is two or more actions, and a record of
  its slot (`request[q]`, `errand[e]`, `billing[b]`, ..) carries what it read, as the
  locals of the handler do.
* A transaction's writes are one action, with everything that is in it, when it holds
  its row locks to the commit and nobody sees half of it. Where its statements read
  what others commit meanwhile (`Shipments`, `Reviews`), they are steps.
* Rejections, roll-backs, errors and dead processes are `Reject..`, `Abort..`,
  `Crash..`, `Lose..` actions.
* Quantities are functions from variants to units; wording, taxes by region,
  addresses and audit rows are left out.
* In a definition's place a *mutated* form may stand just above it (for example
  `ExpireRowUnconditional` above `ExpireRow`): the bug that a property is there
  to catch. No specification uses these forms.

`MCServices` and `MCShop` hold several components that share no state. A behaviour is
one of one component, chosen initially, so that state spaces add up; this is a way to
run them together, and says nothing of how they interact. Where components do interact,
the module of one contains the other's part: the order's stock is in
CartReservation and OrderFulfilment, the wallet's share of payments in Wallet, the
wallet's share of an order in Checkout, events and their subscribers in Rewards, pages
and routes in Pages.

### Inventory

`stock`/`reserved` are the row of the DEFAULT warehouse and
`variantStock`/`variantReserved` the copy. `Reserve` is the conditional update of
createReservation (cart-reservation 276-293) and InventoryService.reserve;
`Release` clamps at zero as `GREATEST(0, ..)` does (`Monus`); `CommitShipment` has
the guards of its `updateMany` (inventory 155-167). The CHECK constraints of the
migrations (`variant_reserved_le_stock_chk` and the non-negative ones) are guards
of the operators, because a transaction that violates one rolls back.
`UpdateInventory` and `UpdateVariant` are the two ways in which an operator writes
these rows, the second of which writes only the copy.

### CartReservation

| Action | Code (cart-reservation.service.ts) |
|---|---|
| ReadCart | createReservation up to the transaction, and the read of enforceConcurrentCap |
| ReleaseVictim, SkipVictim | the loop of enforceConcurrentCap, whose errors are caught |
| CreateReservation, RejectReservation | the transaction of createReservation |
| ReadForRelease, ReleaseById | releaseById: the read, and the conditional flip with the release it owns |
| ValidateForCheckout | validateForCheckout |
| PlaceOrder, RejectOrder | consume inside the transaction of placeOrder, and its 409 |
| Elapse | the clock passes expiresAt; time is one bit per row |
| ExpirySnapshot, ExpiryCommit, ExpiryAbort | the sweep: SELECT .. FOR UPDATE SKIP LOCKED, the CTE, the roll-back |
| OperatorSetsStock, OperatorEditsVariant | updateInventory, updateVariant |
| Abort | hooks, fraud gate, price drift, dead process |

`batch[p]` are the rows a sweep has locked. Others that need such a row wait:
their actions are disabled while it is in `Locked`.

### FlashGate

Extends CartReservation by the counter and the locals of the gate loop. Each
Redis script is atomic, so `TryReserveGate`, `InitReserveGate` and
`ReleaseReserveGate` are one step; the read of the sellable units, the fill and
the second try are separate steps. Tokens a release gives back after its commit
are `owed` until they arrive or are lost. With `Faults`, gates expire, Redis does
not answer and requests die. The steps of CartReservation without the gate are
used as they are, so the claim that the gate is advisory is a refinement with
the identity as its mapping: `ImplementsReservation == Spec`.

### OrderFulfilment

| Action | Code |
|---|---|
| PlaceOrder | the transaction of placeOrder / guest checkout (orders), with the units reserved |
| ConfirmPayment | payment_intent.succeeded (payments 270-334): CONFIRMED whatever the status was |
| ReadToCancel, ReadLinesToCancel, CancelOrder | cancelOrder: two reads and the writes, all in one READ COMMITTED transaction |
| ReadToCancelItem, CancelItem | cancelOrderItem, which writes back the status it read |
| ReadToUpdate, UpdateStatus | updateOrderStatus, with the shipment committed at SHIPPED |
| AdminSetsStatus | AdminService.updateOrderStatus: the status and nothing else |
| ReadToReturn, CreateReturn | requestReturn |
| Abort | roll-backs and dead processes |

`OperatorMoves`, `RawMoves` and `PaymentFinds` say which requests the environment
makes. The code accepts any status from an operator; what is asked of it is an
assumption about people and is a constant, so that each run states its own.
`dispatched` is a history variable.

### Payments and TwoPhaseRefund

| Action | Code (payments.service.ts, refund-retry.service.ts) |
|---|---|
| CustomerPays, DashboardRefund | the gateway's side: an intent is charged, or given back by hand |
| ReadToCreate, ReadToRetry, CreateIntent, RenewIntent, KeepIntent | createPaymentIntent and retryPayment: read, ask the gateway, write |
| ConfirmPayment, PaymentFailed | payment_intent.succeeded and .payment_failed |
| ReadToSettle, Settle | charge.refunded: reads the order, then writes it |
| ReadToRefund, ClaimOrder, RecordRefund, CallGateway, CompleteRefund, RollBackClaim, FailRefund | refundStripePayment: the claim of CANCELLING, the RefundRequest, the call, the books, the roll-back |
| GrowsLate, SelectStuck, RetryRefund, WriteOutcome, MarkExhausted | the hourly job: select, count the attempt and call, record, mark what is exhausted |
| UpdateOrderStatus | every other handler that writes `Order.status`: updateOrderStatus (orders 771-815, admin 366-371), which takes any status over any other, and what cancelOrder (530), cancelOrderItem (902), requestReturn and the warehouse set in some of these cases |
| RefundOrderItem | refundOrderItem (orders 924-1041): the wallet is credited, `paymentStatus` becomes PARTIALLY_REFUNDED or REFUNDED, and the gateway is not asked |
| Abort, Fail | lost answers, lost updates, crashes; at most MaxFaults of the job |

`TwoPhaseRefund` says that at most one caller at a time holds a claim of an order, from when it
made it until it ends or somebody writes over it; that the record of the refund says COMPLETED
only after the gateway gave money back, and the order REFUNDED only after that or after an item
was paid back to the wallet. `ImplementsTwoPhaseRefund` is the refinement
`INSTANCE TwoPhaseRefund WITH ..`, where who holds a claim is read off the requests under way.
`stands` (of a request) is a history variable: no other handler has written the order's status
since the claim. Once one has, the claim is no longer the order's, a second refund may start
beside the first, and what is left is that neither is booked without money. `credited` are the
orders that had an item paid back to the wallet.

### Shipments

Counting a shelf (updateInventory), routing and splitting an order, and the statuses of
a shipment, over several warehouses. Each transaction is `WriteRows`, which locks the
shelf rows, and `SyncVariantCache`, whose sums see only committed rows; clerks in two
warehouses may therefore lose each other's change. `MCShop` has one clerk at the shelves, and
`MCShipments` two. `UpdateShipmentStatus` takes any status over any other, as the code does: a
second DELIVERED or RTO runs its transaction again, on units reserved for others. `settled` is a
history variable that counts these transactions.

### Rewards

The event of an order is lost or published, queued or delivered in the process or both;
`RunHandler` runs one handler of a job, in order, and a failure puts the job back to
its first. Subscribers are the cashback, the confirmation mail, points and the
referral bonus, each as its find-then-write steps; `TakeBack` is the clawback of a refund.

### Promotions, Deliveries, HookRunner, PluginSwitch, PluginRegistries

Promotions has one coupon (validated, used in the transaction of the order, edited by
staff in between) and one affiliate account. Deliveries is one event to each endpoint,
first attempts by dispatchers and later ones by the job. HookRunner is one hook with a
breaker per plugin, its clocks kept up to the cooldown. PluginSwitch is the set in
Redis with a mirror in every pod that `Sync` refreshes; `LoseCommand`, `ReadNothing`
and `Restart` are what may go wrong. PluginRegistries has strategies, crons, queues, and
the semaphore that queries of a plugin share.

### ApiRoutes, ApiCalls, PageForms, ShopPages, AdminPages, Pages

ApiRoutes has one definition per controller (verb, path, whom the guards admit) and per
DTO (fields demanded, allowed, read); ApiCalls one per method of `lib/api.ts`. PageForms
says what queries and saves are, ShopPages and AdminPages give those of every page.
Pages then puts a *view* together, one query and one save with one visitor, and lets it
run: the query is fetched, polled, overtaken; the save is submitted, lost, refused,
taken, and invalidates. `ReadsAreServed` and `SavesAreTaken` fail at a request that the backend
has no handler for, refuses its role, forbids a field of it, or reads a field it never gets.
`KnownGaps` of MCShop names the requests where that is so today (section 6).

### WishlistToggle

The heart of the product's page and the one of its card, which choose the request at
different moments, the fetch of the list and its dropped predecessor, and the row.

### Catalogue, Reviews, ReadThrough, Checkout, Bag, Invoicing

Catalogue: staff create, change and remove products and variants; `Listed` is the filter
of a listing, facet counts and recommendations are set expressions over the same rows.
Reviews: writing one and copying the average into the product are two statements, as are
reading and writing a vote; `doubled` marks the reviews one customer voted for twice at once.
ReadThrough: pods, one flight each, entries with a time to live, and staff who drop entries.
Checkout: the gate, the price, the clamp to the wallet, the commit, and the debit after it.
Amounts are counted in parts of a cent (`Cent` of them to one), since percentages leave such
parts; the share is rounded to whole cents after the minimum was taken (orders 235), which may
put it above the balance or the total.
Bag: one line and its saved row, every statement a step; `kept` remembers that the
customer did not take the thing away. Invoicing: the number is taken inside the
transaction, under the lock of the year's row.

### CronLock

`row` is the lock with the run that wrote it, `since[t]` the ticks since run `t`
read its clock: the code computes `now` and `expiresAt` once, before both the
insert and the steal, and the model keeps that. Several runs may belong to one
process and so share a holder id, as in the code. A job may take longer than its lock lasts;
`overran` remembers that one did.

### Wallet

`credit` and `debit` are one step each (they hold the Wallet row). Their callers
are not: placeOrder debits after its commit (orders 366), approveRefundRequest
(admin 582-652) has four transactions. `book` is the set of WalletTransaction rows,
and the unique index on (walletId, reference, type) is `Recorded`.

## 3. Runs

Passing:

| Run | Instance | Shows |
|---|---|---|
| reservation | 1 variant with 2 units, 2 users, 2 requests, 2 sweeps, 2 rows, cap 1, carts of one unit or two, operators who set 3 in either row, faults of Redis | no column and no gate goes negative; behind the gate the system does what CartReservation allows; units are given back once, an order's never; one order per reservation; no overselling; the reserved copies agree |
| orders_concurrent | 2 orders, 2 requests, 1 variant, late payments | no race drives a row negative, oversells, or splits the two rows |
| orders_serial | 2 orders, 2 requests of which no two about one order overlap, 2 variants, payment before anything else | I-2 exactly; what is shipped is what was not cancelled |
| payments_refunds | 1 order, 1 intent, 2 requests and the job, 1 fault, other handlers that write any status and refund items | Payments implements TwoPhaseRefund; a repeated success does not make a refunded order paid |
| services | jobs, queues and timers, each by itself, under fairness (below) | the lock excludes until a job outlives it, is not taken from who works, and is reclaimed; late reservations are swept; stuck refunds, queued events and failed deliveries are taken up again; breakers open for cause and close again; a plugin that was switched off is off everywhere |
| shop | fifteen components, each by itself | what the components of the table in section 1 call correct |

Violations, each of one property that the repository states (section 5):

| Run | Instance |
|---|---|
| orders_cancel_race | 1 order, 2 requests: a shipment between the read and the write of cancelOrder |
| orders_late_payment | 2 orders, 1 request: a payment that arrives after the cancellation |
| payments_exhausted | 1 order, 1 request, the job, 1 crash, fair scheduling |
| lost_sync | one variant on two shelves, two clerks |
| toggle | one click on the heart of a product page |
| moves | two requests at one line of the bag |

`shop` has 645,000 distinct states, `payments_refunds` 504,000, `orders_concurrent` 550,000,
`services` 74,000, which are checked for liveness.

**Why the bounds are enough to be interesting.** Each hazard needs two actors on
one row: two requests, two sweeps, two approvals, two clerks, two votes or two runs are
there wherever they can meet. Two units in stock let the last unit be contended after
an earlier one was taken; a cap of one with two rows makes a request release a victim
while the victim's owner checks out. Three runs over two processes give both two runs of
one process and two processes; with a Ttl of one tick and delays of two, jobs outlive their locks,
are stolen from, and release late. Two runs of the retry job read the same deliveries while a first
attempt is under way. Two shelves and an order of three units make a routing take
from both, and two routings put another order's units beside those of a shipment that is
reported twice. Two parts to a cent and odd amounts make the rounding of a share go over the
balance and over the total. One order is enough where every reference names its order (wallet, payments);
two events (one order to come, one delivered before) where they share a balance. Two years and three
orders let a number be taken on either side of the change. Two pods with two readers give a
flight that is shared and one that is not. Three products of two brands let a filter
hold and exclude. A view of a page has one query and one save because queries
do not depend on one another. Symmetry is used only in runs without liveness, over
requests, approvals, staff and users, which no action compares.

**The constants bound the model, not the code**: MaxReservations, MaxQty, MaxOrders,
StockLevels, VariantEdits, MaxFailures, MaxDelay, MaxIntents, Edited, MaxCount, MaxFaults, Approvals, Vouchers,
MaxShelf, MaxOrderRows, MaxShipments, MaxRoutings, MaxEarned, MaxJobs, MaxUpdates, MaxLosses,
MaxSaves, MaxClicks, MaxLost, MaxStaffEdits, MaxReviews, MaxPlaced, MaxAsked, MaxRows,
MaxLoad, MaxEdits, MaxSwitches, MaxMishaps, MaxCrashes; each is named as a
bound where it is declared. MaxIntents is one in the runs, where a retry that cancels an intent gets
no other; the theorems of PaymentsProofs hold for any number. `Edited` is empty in `services`, whose
job reads nothing that other handlers write. Cap, Ttl, MaxBalance, MaxAmount, MaxRetries,
MaxAttempts, Attempts, FailureThreshold, PageTtl and MaxOrderQty are constants of the code, made
small. Deadlock is not checked: a bounded number of rows lets each system come to an
end.

**Environment.** orders_serial assumes what the code leaves to people: no two requests
about one order overlap (`Apart`; requests about different orders do, and may race for the same
row), forward moves, and RawMoves that need no stock. Each assumption is needed,
and dropping it gives one of the violation runs or an item of section 6. `shop` has one
clerk at the shelves (lost_sync is two) and one person at a page. Overlapping payouts of
an affiliate are there, and `PaidIsEarned` claims of them only that the books agree.

**Fairness** of `services`, each conjunct for the component that runs:

* `LockFairness`: a run that can go on does (WF), and time passes (SF, because `Tick` waits
  for runs at their limit); failures are bounded.
* `ReservationFairness`: an accepted request goes on (WF on `Serve`: Node runs a ready
  continuation, PostgreSQL lets go of row locks); a late row is selected if it can be again
  and again (SF on `Select`: the cron fires every minute, orders by expiry and has a LIMIT,
  and SKIP LOCKED may pass over the row many times but not always); a sweep that can commit
  does so in the end (SF, because `ExpiryAbort` may come first).
* `CardFairness`: a request goes on, or fails; an hour passes; the job, started every hour,
  goes through its batch (WF).
* `JobsFairness`: the queue's worker takes the next handler of a waiting job (WF on
  `RunHandler`, which may throw); lost jobs and workers are bounded.
* `SendersFairness`: a sender goes on, and a delivery that waits falls due (WF).
* `CallsFairness`: a hook that started goes on, a handler answers or fails (runSync has a
  time-out), and time passes (WF). `HealthyIsUsed` assumes a plugin that stays well and
  requests that keep coming to it, and concludes that its breaker stays closed.
* `SyncFairness`: each pod refreshes its mirror on its interval, and a command that was
  given is sent (WF).

Customers, operators, plugins and the gateway owe nothing.

## 4. What is proved

| Module | Theorems |
|---|---|
| InventoryProofs | lemmas: each movement keeps the types, `reserved <= stock` and the two rows equal |
| ReservationProofs | TypeCorrect, ReservedIsAlwaysHeld, NeverOversold, OneOrderEach, ReservedCacheAlwaysInSync, CacheAlwaysInSync; GateIsAdvisory, GateCannotOversell, GateTypeCorrect |
| OrderFulfilmentProofs | OrderTypeCorrect, OrdersNeverOversell, OrdersKeepCacheInSync, ReservedIsAlwaysOwed, ShippedIsAlwaysOrdered |
| PaymentsProofs | PaymentsTypeCorrect, RefundedStaysRefunded, RefundsKeepPromise (the refinement of TwoPhaseRefund) |
| WalletProofs | WalletTypeCorrect, BalanceIsAlwaysBook, RefundsAreAlwaysOnRecord, ClawbacksAlwaysMatch |
| ShipmentsProofs | ShipmentsTypeCorrect, ReservedAlwaysUnsettled, RoutedAlwaysAsBought, CopyIsAlwaysSum; lemmas: sums over finite sets |
| StoreProofs | the components of `shop`, each by itself: Bag, Invoicing, Promotions, PluginRegistries, Rewards, ReadThrough, Checkout, Reviews, Catalogue, WishlistToggle, Pages; then what the run `shop` checks, as theorems of the composed specification: ShopTypeCorrect, ShipmentsStayWhole, RequestsAlwaysUnderstood, CheckoutAlwaysAddsUp, CacheIsAlwaysTrusted, CopiesAlwaysAgree, CatalogueAlwaysAgrees, ScreensAlwaysFollow |
| ServicesProofs | CronTypeCorrect, LockIsExclusive, WorkingRunKeepsLock; SuccessIsAlwaysFinal; BreakerAlwaysHasCause; ServicesTypeCorrect, of the composed specification of MCServices |

They hold for any number of users, requests, variants, rows, and any amounts
that the named ASSUMEs of the modules admit; TLC evaluates those assumptions on
each run. Every invariant that a passing run checks is a theorem here. Some theorems have a hypothesis about the system's surroundings, and say in their
statement which: `CarefulPeople` and `[]Apart` (orders), `OneClerk` (the shelves' copy),
`VariantEdits = {}` (the reservations' copy of the stock). What happens without the first three is
shown by a violation run each (orders_late_payment, orders_cancel_race, lost_sync); of the last
section 6 tells. Two theorems about pages take facts about tables as hypotheses (below).

### Stock

* **Reserved is held.** `ReservedIsHeld` counts: `Quantity(S)` is the number of pairs
  (row, unit). The step lemma shows that each action changes the set of units held by
  exactly what it moves in `reserved`, a disjoint union for `CreateReservation` and a
  difference for `ExpireRow` and `ExpiryCommit`; an action that moves a row from ACTIVE to CONSUMED
  changes neither. That is also why `GREATEST(0, ..)` never clamps. The invariant is
  inductive together with `TypeOK`, without which the counts are not of finite sets.
* **Never oversold** needs no history: it follows from the guard of the conditional
  update and the CHECK, movement by movement, which is the statement that the
  advisory parts (cap, validation, gate) are not needed for it.
* **CacheAlwaysInSync** is I-1 in full and assumes `VariantEdits = {}`: an edit of the
  catalogue row breaks the stock half, and `ReservedCacheInSync` is what is left.
* **The gate is advisory**: every step of FlashGate is a step of CartReservation or
  leaves its variables alone, and `GateCannotOversell` carries the reservation
  theorem over. **Types at the gate**: a gate that exists never counts below zero, for which
  the cold fill needs `NoOversell` of the reservations behind it.
* **Orders never oversell, and keep the rows equal**: lemma `StepIsMovement` shows that every
  step, races included, is one movement of Inventory or none, and each movement keeps both.
* **Reserved is owed, shipped is ordered.** Neither is inductive: a request under way writes by
  what it read. `Sees` says that what it carries is still so, which holds because requests about
  the same order do not overlap; `Dispatches` and `OwingChanges` then relate, for each step,
  the units the order still has to get with those that moved. A movement can only come out
  short (`GREATEST(0, ..)`) if more is taken than the order had reserved, which the
  invariant excludes.
* **One clerk keeps the sums.** `CopyIsSum` needs that what a clerk has summed is what the rows
  will be at its commit, that is, that nobody commits in between. Here the sums stay unexpanded:
  the proof shows that both sides add up the same function.
* **Shipments are whole, with any number of clerks**, although their copies are not in step.
  `ReservedIsUnsettled` is an equation between sums over shipments: `reserved` of a shelf, and what
  deliveries and returns took from it, are together the units of its shipments. It needs no guard
  that keeps a shipment from being delivered twice, which the code has not: a repeated report adds
  to `settled` and takes from `reserved` the same units. `RoutedAsBought` is an inequality.
  Both rest on statements about the transactions under way: `LocksHold` says that no two hold
  one row and that what has been written may be committed, `WorkIsDue` that a transaction is about an
  order or shipment that exists, `RowsInARow` that orders and shipments are numbered without gaps. `RoutedOnce`
  and `FollowsPlan` do the same for an order that is routed once: its shipments, and those that a
  request has still to create, are one for each warehouse of one plan, which gives no more than was
  bought (a lemma about `Greedy`). The lemmas about sums (one term changes, one is added, each is
  no larger) are proved by a smallest counterexample among the subsets of a finite set, since the library's
  induction theorems cannot be instantiated; `ShipmentsAssumption` says what is finite, and that
  warehouses are numbered.

### Money

* **Payments implement TwoPhaseRefund.** `PaymentsInv` relates each request under way to
  what it read and claimed: while a claim stands, the order is paid for and in CANCELLING or
  REFUNDED, and nobody else's claim of it stands (`ClaimsHold`); a record that is COMPLETED has
  money given back behind it. The refinement maps each action to a claim, its end, a movement of
  money or of one of the books, or a stutter of TwoPhaseRefund. Crashes, lost answers and what other
  handlers write are steps like the others; without `stands` the second refund that starts
  after an operator set the status would have no step to map to.
* **Balance is book.** `Money` has one element per unit of money. Every action is
  *still*, *Paid* (a new credit entry and the balance up by its amount) or *Drawn*; the
  lemma `EntryBalances` relates the cardinalities for each. `TypeOK` alone is not
  inductive: an order or an approval that a request carries must exist, which `Linked` says.
* **Refunds are on record** (I-7, I-11): an approval's credit has its RefundRequest first, an
  EXECUTED approval has its entry in the book, and references keep a second credit out. The
  invariant follows an approval through its four transactions, wherever it stopped.
  `ClawbackMatchesRefund` follows a dispute in the same way.
* **Paid is earned**: `OwedIsUnpaid` says that, as long as no two payouts overlapped, at most one
  payer is at work and what it read is still owed; `BookedBefore` that what has a row was booked.
  A coupon's uses are its orders because a shopper's order and usage row come together
  (`OneEach`).
* **Credited once**: each handler writes one entry under its reference, and none where it
  finds one, however often the queue repeats it; who takes points back has seen them earned
  (`TakersSaw`). Points are the sum of the entries because each action adds one entry and its
  amount, or none, which is a statement about cardinalities of sets of orders.
* **Amounts add up**: `CheckoutsFit` bounds what each checkout carries by what it was priced at,
  and the wallet share by the funds that it saw and half a cent, a lemma about rounding. The debit
  of an order whose customer was alone at the wallet is its share, or nothing when rounding took
  the share above the funds.
* **Numbers have no gap.** `NextIsHeld` and `HeldByOne`: whoever has taken a number and
  not committed has the next one of its year, and alone, since the row of the year is
  locked with it. A commit then extends `1..last` by one, and an abort leaves it.

### The store and its pages

* **The bag is kept.** `BagWithinLimits` needs `PlansAreChecked`: what a request is about
  to write was checked when it was planned, and nothing that comes between changes the
  plan. `ItemIsSomewhere` is not inductive: the saved row may be deleted by a move only
  because the line is there, so `MovedIsInBag` says that while some move is at that
  last step, a promise is kept by the line alone.
* **Ratings and votes**: a request that wrote a rating alone still sees the rows that it summed
  (`AloneIsAlone`), and a voter who did not meet another request of its own still finds the row
  it found (`FoundIsCurrent`).
* **Answers are not too old**: an entry's version was current no longer ago than its age and the
  time its load took. The bound is on the ages, for any times to live.
* **Facets and recommendations** are facts about sets, true of every catalogue that is well
  typed, so that the invariant is the type and the work is in the lemmas. `Best` chooses the first
  few by a rank: that such a choice exists is an induction over finite sets, which
  `SmallestSubset` carries out without the library's parametrised theorem: a set of subsets that is
  not empty has a smallest one, because strict inclusion is well-founded.
* **Pages follow the server**: what was acknowledged is in the answer that is on its way, or the
  data is not believed current (`AckedIsOnItsWay`). It rests on a fact about the tables of pages,
  `SavesClearWhatTheyChange`: a save invalidates each query of its page that it changes. The theorem
  takes it as a hypothesis, and MCShop has it as the assumption `TablesClear`, which TLC
  evaluates (tables of literals are its work, not the prover's). A page whose save clears too little
  makes it false.
* **Requests are understood**: `PageRequestsInv` says that a read is asked of a view that has one
  and lets its role in, with the token of its role or none, and that a save sends the fields of
  its form; what the routes make of these is `PagesFitRoutes`, a fact about the literal tables of
  pages, forms, routes and known gaps, which the theorem takes as a hypothesis. The run `shop` is
  what shows that it is true: it starts from every view of every page and sends each of its
  requests, with every choice of fields. What is proved is that nothing else comes up: no lost
  session and no save under way makes a request that the tables do not cover, however many there
  are.
* **Types of the store**: most follow from the invariants above. A list of strategies stays one when
  those of a plugin are taken out (`OthersTyped`); what a review request has summed is a count of no
  more reviews than customers.
* **Hearts**: the last click, its request, and the reload that follows it carry the heart that the
  button shows, until they are overtaken by a later click.

### Services

* **Exclusion.** `AtMostOneHolder` alone is not inductive: it does not say that the row
  which a second run would need is there and fresh. `Owner` does: as long as no run under way has
  outlived its TTL, whoever works owns the row, which is as old as the run's reading of the clock,
  and a thief needs one that is older than that. `WorkingRunKeepsLock` has no such condition: a row
  is deleted by a run with its holder id and stolen by its age, so the lock of a run that works and
  is in time can only be deleted by a run of its own process; that such a run is late is `Owner`.
* **A success is final**: who is at a first attempt is the only one near the row, since the job
  reads rows whose retry has been scheduled. `Settled` is a success that no run has on its list;
  no run takes it up again, since the job does not select it. A run that had read the row before
  sends it again and its answer stands (section 6), which is why the list is in the statement.
* **Breakers open for cause**: `CountsAreStrikes`: the failures a closed breaker counts are
  those since its last success, the calls still under way included.
* **How far a breaker counts**: a failure that comes back while the breaker is open still adds one
  (circuit-breaker.ts:121), so that the threshold is no bound. `HookInv` keeps failures counted and
  calls in flight together below threshold + calls - 1 while it is open, which bounds the count by
  that; a closed breaker has counted fewer than the threshold.
* **How often a delivery is tried**: a run tries the rows as it has read them, without looking at
  `attempts` again (webhooks.service.ts:140). `TriesInBounds` counts those that are still to come, at a
  row or on a run's list, with those made: together at most MAX_ATTEMPTS and the senders, whatever
  runs overlap. With the types of the lock and of the
  switch this gives `ServicesTypeOK`; a behaviour of MCServices is one of each of its components.
* **Permits, registries**: a query that waits has no permit free, and a name in one table of a
  registry is in the other.

### Left to TLC

The liveness properties and what needs ENABLED (out of the prover's reach); the facts about literal
tables that two theorems take as hypotheses, of which TLC evaluates `SavesClearWhatTheyChange` as
the assumption `TablesClear` and checks `PagesFitRoutes` view by view; and every violation. No module declares a RECURSIVE operator: sums in the modules that are proved about
are cardinalities, sums over finite sets with the lemmas of ShipmentsProofs, or stay unexpanded.

## 5. What the violation runs say

* **orders_cancel_race**: the comment at orders 511-512 says that the read and the write are
  atomic because they are in one transaction; under READ COMMITTED they are not.
* **orders_late_payment**: I-2 as the validator words it (invariant-validator 109-110).
* **payments_exhausted**: "After MAX_REFUND_RETRIES attempts a row is marked FAILED"
  (refund-retry 23-24); a run with nothing to retry returns at line 81 before it marks, so a row
  whose last attempt died stays in PROCESSING. `FairSpec`'s fairness is what is meant by
  "hourly", so the counterexample is not a job that never runs.
* **lost_sync**: "so the cache invariant (I-1) holds" (warehouse 66-69); two transactions on two
  warehouses of one variant each sum without the other.
* **toggle**: "WL-02: can add product to wishlist from product detail page"
  (`src/frontend/e2e/wishlist.spec.ts:19`): onMutate flips the store before mutationFn asks it
  what to send, so the request is a DELETE.
* **moves**: "On move, respects maxOrderQty cap" (`src/SYSTEM_DESIGN_FINAL.md:270`);
  moveToCart adds one without reading the cap.

## 6. Known divergences without a run of their own

Met while reading, each at its line; some are excluded by a constant, some are behaviours
of a module that its properties are worded around, some lie outside the models.

Stock and orders

* cart-reservation 484: two reserves of one user pass the cap together, and so does one whose
  victim's release fails (495); `src/SYSTEM_DESIGN_FINAL.md:259` promises a cap.
* cart-reservation 243: a cart that a later gate rejects keeps the tokens of its first items;
  they are given back when PostgreSQL says no (287). inventory 116: a cancelled flash order
  returns its units to the row, not to the gate.
* cart-reservation 224: rows of a cart are locked in the order of its lines; two carts in opposite
  order deadlock, and the one PostgreSQL aborts is not tried again.
* orders 787: two SHIPPED requests that both read a pre-shipment status commit the
  units twice (orders_concurrent only shows that nothing goes negative). admin 370 sets
  SHIPPED or CANCELLED with no movement of stock. orders 906: cancelOrderItem writes back a
  status read before its transaction.
* warehouse: an RTO adds units that were never taken out. 189: a status is accepted whatever the
  shipment's was, so a second DELIVERED, or an RTO after it, takes units that are reserved for another
  shipment, or fails; `ReservedIsUnsettled` counts them. updateOrderStatus and
  updateShipmentStatus are two paths over the same units.
* products 300: an edit of Variant.stock leaves the warehouse row behind, and addVariant makes
  stock with no warehouse row (I-1). invariant-validator 161 tests for 'PACKED', which
  OrderStatus does not have, and counts SHIPPED orders as holding reserved units.

Money

* payments 620: a crash after the claim leaves the order in CANCELLING, which no job picks up;
  `src/docs/runbooks/flash-sale-prep.md:101` says that a cron does. orders 799 and admin 370 write
  any status over a CANCELLING, after which a second refund of the order can start beside the first,
  and the roll-back of the first (679) may put back a status under the second's claim; the calls
  have no key, and what keeps the money from going back twice is that the gateway refunds a
  whole payment once. orders 1026: a refunded item
  makes the order REFUNDED or PARTIALLY_REFUNDED without the gateway, whose payment can then not be
  refunded by refundStripePayment. A RefundRequest may end FAILED
  although the gateway refunded, and FailRefund may overwrite a newer PROCESSING row.
* payments 201 and 215: two retries leave two payable intents; create-intent after a retry returns
  the first, canceled one. 420: a late payment_failed makes a PAID or REFUNDED order UNPAID, and
  a first success that comes after the refund makes it PAID. A REFUNDED order can be retried.
* payments 339: the invoice is made behind the webhook's back; when that fails, nothing asks again.
* orders 235: the wallet's share is rounded after it was clamped, so that it may exceed the balance
  or the total by half a cent where these have parts of a cent; above the balance, the debit fails.
* orders 366: a failed wallet debit is logged and the order stands, while payments
  437 credits walletAmountUsed when the payment fails, debited or not;
  `src/SYSTEM_DESIGN_FINAL.md:450` has the debit in the same transaction.
* admin 624: two approvals of one order share a reference: the second is EXECUTED
  and credits nothing. admin 678: approve and reject race, and both verdicts are written.
* wallet 60: the limit is looked at before the reference, so a repeated credit near the
  limit fails although it was made. orders 967 and the affiliate payout have no limit.
* No code writes paymentMethod 'COD' (`dto.paymentMethod`, orders 129, is not used), so the abuse
  flag of cash on delivery and the risk block never act, and confirmCODDelivery (wallet 258)
  always refuses; two calls of it at once would both confirm.

Events, promotions, jobs

* A coupon that staff withdraw during a checkout still counts (orders 317); the unique key of
  CouponUsage (main.prisma 476) allows one use per customer whatever maxUsesPerUser says.
* Affiliate payouts that overlap pay twice, though affiliate 121 says "Idempotent";
  trackAttribution called twice books the commission twice.
* The referral bonus is lost when two orders are delivered at once or its credit fails; a clawback
  before the earning leaves the points. redeemPoints and the snapshots of carts have no callers.
* event-bus 105 says that subscribing replaces a handler; the registry adds a second one.
* EmailService.send never throws, so that no attempt of its queue is ever repeated.
* webhooks: a crash after the row was created leaves it without nextRetryAt, never tried; the
  lock lasts 55 s and a batch up to 500 s, so runs overlap, and a row that both have read is sent
  twice, the later answer standing: a success may become a failure. The same holds of refund-retry
  (cron-lock 53: one holder only for jobs shorter than their TTL). cron-lock 62: the holder is the
  process, so a late run deletes the lock of its successor in the same process.
* circuit-breaker 86: a half-open breaker lets every concurrent caller through, not one trial.
* plugin-runtime-state 156: a plugin that was switched on again stays off in other pods,
  which line 25 denies; bootstrap seeds 'registered' for plugins that were skipped.
  unregisterPlugin and loadAll have no callers in production (hook-runner 108).

Catalogue, bag, reviews

* reviews 39-42 ("always consistent"): two ratings at once leave an average without one
  of them. 112: an update that compares with a stale rating skips the copy. 123
  ("atomically"), 137: two votes of one customer at once count twice.
* Facets ignore `search`; sizes counted under a chosen color may lead to an empty list; the
  filler of related products may be short.
* cart 83: two adds of one variant at once count once. experience 58: two moves at once count twice;
  clearing the bag and saving again during a move loses the thing.
* fraud 25: "Called after each order/return event"; only a route of the back office calls
  it. 118: a customer may get the same flag twice.

Storefront

* `KnownGaps` of MCShop: a guest's pages ask for delivery slots and for its confirmed
  order, which need a sign-in; the invoice is downloaded without the token; SUPER_ADMIN
  is refused the list of users; impersonation and the redeeming of points have no
  handler; orders are posted without `reservationId`
  (`src/frontend/src/app/(shop)/checkout/page.tsx:380`), since nobody calls
  `cartApi.reserve`, and are refused; and eight forms of the back office send a field the
  pipe forbids, leave out one it demands, or name one that the handler does not read.
* The access token is never renewed, though the session outlives it.
* Pages of the back office other than two have no gate of their own; products/new and
  edit do not invalidate the list, edit fills its form once from the cache and reads
  `/products?id=`, which the backend ignores.
* A fetch that was given up still writes the wishlist and the cart into the store. A partial
  failure of addAll or saveForLater invalidates nothing. Guests cannot fill a bag.

## 7. Abstractions to keep in mind

* The reservation code and OrderFulfilment have one warehouse (DEFAULT), as the code assumes;
  several are in Shipments.
* The transactions' row locks are not taken one by one, so that PostgreSQL's
  deadlock detection shows as a rejected or aborted request.
* Money is a natural number of units; the schema's columns are binary floats
  (`src/prisma/schema/main.prisma:774`), whose own rounding is not modelled. The rounding to
  cents of the wallet's share at checkout is, in parts of a cent (Checkout).
* The gateway, e-mail and plugins are environment: they answer late, twice or not
  at all. An intent is charged and given back at most once.
* The steps inside the checkout page are not a state machine here: its order is refused.
* The values of fields are left out of the HTTP interface; what a handler makes of a save
  is that it takes it, refuses it, or is lost.
* A cached entry's age is counted in ticks; `Redis` fails command by command.

## 8. Not modelled, and what is left

Not modelled: accounts, sessions and tokens, addresses, brands, categories, questions
and FAQs, support tickets, exchanges and abandoned-cart reminders (single rows, no
stock, no money); the prices and dates of flash sales (the reservation code computes
them again); the invariant validator, which only reads and whose checks are properties
here; text search, ranking and analytics; e-mail; the SDK's checks of manifests, which
are functions over strings; the developer packages and deployment. Each has its reason
in PROJECT.json.

What would add most next:

1. **Composition** of CartReservation and OrderFulfilment: the units of a consumed
   reservation are those of its order, so that `ReservedIsHeld` and `ReservedIsOwed`
   become one invariant; the same for Shipments and OrderFulfilment, two paths over one row.
2. **Row locks** of a cart taken one at a time (cart-reservation 224).
3. **Proofs**: the hypotheses `OneClerk` and `Apart` are there because the code breaks the
   theorem without them; the next theorems are those about a composition (1) and row locks (2).

## 9. Running

In this directory, `tlc -config X.cfg M` runs a configuration (PROJECT.json has
the module and the file of each) and `tlapm StoreProofs.tla` checks the proofs of that
module, which is the longest and takes some ten minutes; ShipmentsProofs and ServicesProofs take
some minutes each. The largest runs are shop, orders_concurrent and payments_refunds, some 650,000, 550,000 and
500,000 distinct states; with two workers shop and services take some three minutes and a half, the
others less.
