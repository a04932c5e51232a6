# MetroDrip: TLA+ models and proofs

MetroDrip is a shop: a Django monolith (`apps/`), a scheduler process (`jobs/`),
optional FastAPI sidecars (`services/`) and a React Native app (`mobile/`). Its hard
part is money and stock. A cart is held before an order exists, an order is paid by
a webhook, and the units leave the shelf in a different database schema from the one
the payment is recorded in (`config/database_layout.py`, layout `five`, the
default). No transaction spans two schemas, and a phone sits at the end of it whose
calls overlap, are repeated and lose their answers. This directory models those
parts and checks them.

## 1. Inventory

| Component | State | Operations | Interacts through | Hard behaviour | What makes it correct |
|---|---|---|---|---|---|
| Stock ledger, in process (`apps/inventory/providers/local.py`) | `StockRecord` counters, `Reservation` rows, `IdempotencyRecord` keys, `StockMovement` rows | reserve, commit, release, adjust, restore, TTL sweep | called by the saga and the scheduler | candidates read without a lock, replays, the last unit | never more reserved than on hand; counters, rows and movements agree; ended rows stay ended |
| Remote ledger (`services/inventory/`, `providers/service.py`) and service client (`apps/core/http.py`) | the same tables, one key per request; the breaker's state and count | the HTTP endpoints; `call` with retries and a circuit breaker | threads of Django, the sweep job | lost, late and repeated calls; a breaker shared by threads | the local ledger's promises; what a caller was told is true |
| Fulfilment saga (`apps/orders/checkout.py`, `refunds.py`, `admin.py`, `apps/payments/holds.py`, `providers/`) | `Order.status`, `Payment.status`, `StockHold` receipts, outbox rows | place order, confirm, cancel, refund, deliver, reconcile | ledger calls inside or after an Orders transaction | a ledger call that stays when its caller rolls back, crashes, two deliverers, TTL between attempts | no line sold twice; a refund restores everything; nothing retired unfinished |
| Outbox (`apps/orders/outbox.py`) | `OutboxMessage.state`, `attempts`, `next_attempt_at` | enqueue, claim, deliver, mark | the saga's two handlers | concurrent drainers, blind marks, a crash at any point, starvation | SENT means handled; every message settles |
| Checkout and payments (`checkout.py`, `apps/payments/`, `storefront/views.py`, `mobile_api/views.py`) | `Order`, its lines and snapshots, `Payment`, the provider's page | price, create, open a payment session, confirm (webhook, success page, simulated) | catalogue, zones, PayMongo, mail | catalogue edited between the steps, confirmations that race | the shopper is charged what the order says; one confirmation mail |
| Order state machine and numbers (`orders/models.py`, `services.py`) | `Order.status`, the yearly sequence | `transition_to`, guarded `save`, `next_order_no` | every writer of orders | stale instances, checkouts that roll back | only the seven legal edges; dense numbers |
| Shipments (`apps/shipping/`, `orders/admin.py`) | `Shipment` status and waybill, zones | pack, book, ship, courier webhook | orders, courier | late, repeated and out-of-order reports; a request cut in half | one booking; a delivered report is not lost |
| Console access (`config/consoles.py`, `accounts/login_throttle.py`) | cache buckets, sessions, TOTP devices | sign in, count, clear, permission of each request | concurrent requests | the check is before the act and the count after it | bounded guesses; an enrolled account needs its token |
| Account data and lifecycle events (`apps/accounts`, `apps/core/lifecycle.py`, wishlists, reviews, notifications) | the `Customer` row; rows of other schemas that name it; `ServiceEvent` rows | profile, password, suspend, re-role, delete; write and clean up the referring rows | three schemas, scheduler | whole-row saves of old copies; a crash between two schemas | no clean-up forgotten (that a suspension stands is an expected violation) |
| Mobile app (`mobile/src`) | token pair in the secure store, cart, requests in flight | bag, pay, profile, sign in and out, renewal after a 401 | mobile API | every `await` overlaps; answers lost; killed | one order per press of Pay; the bag's summary is of its own lines |
| Shipping zones and fees (`shipping/zones.py`, the checkout page's script, the app's list) | `ShippingZone` rows; a dropdown, its form model and the fee beside it | resolve, suggest, choose, list, edit | the address search, staff, checkout | suggestions and totals that arrive late or out of order, a row edited after it was listed | on the page, the zone and fee shown are those sent; either client pays the fee it was offered |
| Notifications, push, mail | device tokens, notices | send, register | `on_commit` | best effort | a failure never undoes a transition |
| Catalog, CMS, browsing views, documents, templates, deployment, seeds | rows without a protocol | CRUD, rendering | | | |

`PROJECT.json` lists every component with its status and the hazards of this code
at their lines, with the properties that cover each one.

## 2. Modules

| Module | Models |
|---|---|
| `UnitPool` | What a stock ledger promises: a unit is free, held by one checkout, or sold to one order. Abstract: no counters, rows, keys or processes. |
| `StockLedger` | `LocalInventoryProvider`. One transaction is one action. The sweep and `release_holds` are several: an unlocked read of candidates, then a transaction per row. |
| `RemoteLedger` | Extends `StockLedger` with the service's idempotency keys, the network, and the client's retries and breaker. |
| `Fulfillment` | Extends `StockLedger` with the callers: `place_order`, payment, cancel, refund, `deliver_order_stock`, `deliver_refund`, `reconcile_unknown_holds`. Each call of the ledger is one step, each Orders transaction another. |
| `Outbox` | `drain_outbox`, `_deliver_one`, the `on_commit` attempt, with handlers that return, raise or kill their process. |
| `Storefront` | `place_order` as its callers see it, with prices, fees and the payment; the payment page; the three confirmations; the mail. |
| `MobileApp` | The app's session, its token renewal, the pay button, against the token and checkout views. |
| `BagScreen` | The app's bag and its overlapping questions to `/cart/validate/`. |
| `ZoneChoice` | The tables from a city or province to a zone, the endpoints that suggest one, the web dropdown, the app's list and the totals of its pay button, and the zone and fee `place_order` reads. |
| `OrderLifecycle` | Numbers, all statuses, staff actions, shipments and the courier's webhook. |
| `ConsoleAccess` | Console sign-in, lockout, second factor, and the gate of each request. |
| `AccountData` | The account row and its writers, rows that refer to accounts and products, deletions and their clean-up. |
| `MCFulfillment`, `MCRemoteLedger`, `MCOrderLifecycle`, `MCAccountData` | Values of the constants for TLC. |
| `MCStock` | `StockLedger` called by anyone, and called by `Fulfillment`. |
| `MCPurchase` | `BagScreen`, `ZoneChoice`, `Storefront` and `Fulfillment`, in one specification. |
| `MCDeliveries` | `RemoteLedger` and `Outbox`, in one specification. |
| `MCSessions` | `ConsoleAccess` and `MobileApp`, in one specification. |
| `MCCorrections` | `MCRemoteLedger` with a count of what staff were told of their corrections. |
| `StockLedgerProofs` | Theorems about `StockLedger`, among them that it implements `UnitPool`, and lemmas about counting and summing. |
| `OutboxProofs`, `OrderLifecycleProofs`, `ConsoleAccessProofs`, `AccountDataProofs` | Theorems about the module each is named for. |
| `PurchaseProofs` | Theorems about `Storefront`, `MobileApp`, `BagScreen` and `ZoneChoice`, and about the composition `MCPurchase`. |
| `RemoteLedgerProofs`, `FulfillmentProofs` | Theorems about the two modules that extend `StockLedger`; they reuse its lemmas. |

### StockLedger

`onHand` and `reserved` are the two counters. A `Reservation` row is
`hold[checkout][variant]`, since a cart merges duplicate variants
(`checkout.parse_items`). `claim[c]` is the `reserve_lines` key with the cart it
fingerprints, `refund[o]` the `refund` key. The movements are kept as sums per
order and variant (`sold`, `returned`) and, for those without an order,
per variant (`adjusted`): the code only ever adds rows and sums them. `overdue[c]`
stands for the clock having passed `expires_at`, which all rows of a checkout share.

A call that raises is rolled back and a replay only reads, so neither is a step.
All-or-nothing is therefore the guard of the step: a cart whose lines do not all
fit leaves no row and no key. Two transactions of the code that touch the same
rows are serialised by `select_for_update`; the order in which they take their
locks, and snapshot reads inside one transaction, are below this model's grain.

### Fulfillment

Per order: where `place_order` is (`checkout`), `status`, `payment`, `receipt`
(the `StockHold`), and one outbox `message` per topic. A worker is a request or a
scheduler; `work[w]` is its step. The order's row lock (`Locked`) is held from
`LockOrder` to the end of a delivery, as `select_for_update` holds it, and a crash
frees it. A crash rolls back what the Orders schema had not committed and nothing
of the ledger's. The receipt is updated inside the delivery's transaction, so it
changes only when that commits (`FinishFulfilment`). `stock.commit` messages never
outlive the transaction that creates them: it either retires them or raises and rolls them
back, so they and their handler have no step of their own.

`packed`, `shipped` and `delivered` behave like `paid` for every step here and are
not distinguished (`OrderLifecycle` does). A sweep appears as `ExpireHold`, row by row, and
a release call as the saga's own steps.

### Outbox

`loaded` is the attempt count as the drainer read it, before its own bump;
`MarkFailed` decides with it, as `_deliver_one` does. The marks are unconditional
updates. `request[m]` is the attempt of the request that enqueued the message.
Its crash and its exception leave the same trace and are one action.

### RemoteLedger

The rows and counters are `StockLedger`'s. A request is a record, and the record is
its idempotency key: `claim` (reserve), `commitKey`, `releaseKey`, `adjustKeys`. The
service executes a copy in one transaction, its key included (`Serve`). `call[t]` is
what a thread does and how many attempts it has left; `told[r]` is what the last
caller of `r` was told; `late[r]` counts copies nobody waits for, which arrive at any
later time (`HandleLate`). `breaker` is closed, open or cooled (the cooldown has
passed and every thread is let through). "Unavailable" and "uncertain" answers are
one outcome here: the ledger's callers treat them alike. A key still `in_progress`
is never seen, since a duplicate waits for the first one's row lock. `release_group`
looks at the counter before it takes a row's units off (`EndRows`, `api.py:378`) and raises
when they are not there. `OrderOf` is one-to-one: `place_order` makes a new
checkout id for every order. `asked[r]` counts the calls that ask for `r`. For a correction
a second one may be a genuinely new correction with the same key, so
`OneCallCorrectsOnce` speaks of those asked for by one call; `MCCorrections` counts in
`agreed` how often staff were told that each was made, for the claim that does not hold.

### Storefront, MobileApp, BagScreen, ZoneChoice, and the compositions

`Storefront` walks one `place_order` per request through its reads and writes
(`ReadZone`, `PriceCart`, `ReserveCart`, `CreateOrder`, the session, `RecordPayment`)
while `EditProduct`, `EditVariant` and `EditZone` change what it reads. `page[i]` is
what the provider's page asks for, computed from the order's lines rather than from its
total. Webhook, success page and simulated confirmation all end in `ConfirmPaid`,
one transaction under the payment's lock, and then `SendMail`.

`MobileApp` numbers the token pairs. `stored` is the secure store, whose access and
refresh token are written one after the other (`SaveAccess`, `SaveRefresh`), so a kill
between them leaves a mixed pair. `call[c]` is one `request()`: sent, refused with 401,
renewing, sent again once (`replayed`). A connection that breaks ends the app's wait and not
the request: what was sent is `adrift` and may be served at any later time (`ServeLate`). `SignIn`
stands for login and registration; `SignOutHere` clears the store when there is no refresh token
to revoke.

`BagScreen` numbers the questions as `validationRequest.current` does; the server
reads prices and then stock, with the shop changing between. `Displayed` is
`currentValidation`, which the summary and the checkout button read; `LineMoney(x)` is
what stands beside a line: the answer's total, or the unit price stored with the line
where no answer names it.

`ZoneChoice` has the three tables of `zones.py` in full (names that differ only by an accent
apart), and `resolve_zone`'s two passes over them. `offered` is the list the client
was given, `select` and `formZone` the dropdown and the form's model, which a change
event keeps together, and `shownFee` the amount beside them. `ask[n]` is the question that the
n-th picked address sent; its answer may come at any time, or never. The app shows no fee of
its own: setting its zone asks for a total (`quote[n]`), and whichever answer arrives writes
`payLabel` (`TotalArrives`), as the effect of `CheckoutScreen` does. `OrderToZone` reads
the row as it is when the order is placed. `lastWord` and `chosen` are history: the question
whose answer set the zone last, and the zone picked by hand since the last address.

A press of Pay, the bag, the zone, the checkout and the saga share no variable: each is written
against what the others can do (an order is made or refused, a reserve succeeds or not). The
same holds of the service and the outbox, and of a console and the app. So each
composition is a disjunction: a variable chosen at the start says which part moves, and a run
explores every part in full. The variable is `moves` in `MCPurchase`, `carrier` in `MCDeliveries`,
`client` in `MCSessions`; in `MCStock`, `callers` says whether the ledger is called by anyone, with
sweeps, releases and corrections of its own, or by the saga. Interleaving parts that share
nothing would multiply the states and relate nothing.

### OrderLifecycle

`minted[o]` is the number an open checkout transaction has taken under the lock of
the sequence row; a rollback gives it back. A staff request (`staff[w]`) keeps the
status and shipment as it loaded them; `transition_to` compares with the row under its
lock (`MayBecome`). `mark_as_packed` is the transition, `get_or_create` of the shipment,
the courier's booking and the save of its answer, and a crash can cut it at
each. A webhook delivery (`hook[h]`) reads, saves the shipment, then advances the order.
The shipment's form is here too (`OpenForm`, `SubmitForm`): it saves the page that was loaded, with
whatever status staff chose (`Entries` bounds the choice) and the waybill filled in or
cleared.

### ConsoleAccess

A bucket is a cache key with a time to live. `register_failure` is `cache.add`, then
`cache.incr`, then `cache.set` when the key has expired between, each a step;
`Submit` is the lockout check, `Authenticate` the credentials. `HasPermission` is the
gate of every console request. All browsers share one address, the worst case for
the address bucket. The lockout, the storefront's login (which counts nothing), staff
changes and enrolment are actions. A session whose account has been suspended is an anonymous
one (`User`), which is shown the sign-in form again; `create_console_account` gives a
role and reactivates (`SetConsole`).

### AccountData

`account[c]` is the row, reduced to two columns its writers share: one of what a person is (the
name, or the role) and whether it is active. `job[w].copy` is the
copy a request loaded, `sets` the columns it means to change, `fields` those it writes
(`update_fields`, or all). Who saves the password alone writes neither column. Whole-row writers
are the app's profile patch, the consoles' account form, `create_console_account`
and the consoles' two password forms (`ConsolePasswordChange`). Rows that refer to an account or product by a bare id are
sets or functions; a deletion removes the row and records one event per link in the
same transaction, and the drain lists, locks, applies the clean-up in the other
schema and marks the event as separate steps. `late` remembers rows written by
a request that had read an object before its deletion. Guest orders, order
deletion, registration, read marks and the events' error text are left out.

## 3. Runs

| Run | Instance | Shows |
|---|---|---|
| `stock` | 1 variant of 2 units, 2 checkouts, 1 order. By anyone: lines of 1 or 2, a sweep, a release call, corrections of -1 and +1. By the saga: 2 workers, 1 crash, `MaxAttempts` 1 | no oversell; counters = rows = movements; refunds bounded by sales (a conjunct of `AuditTrail`); ended rows never rewritten; refinement of `UnitPool`; overdue holds end; every message settles |
| `purchase` | bag: 3 carts of 2 wares, 4 questions, 1 change of the shop. zone: 3 localities, 2 picks, 1 edit of a zone. checkout: 2 requests, 2 confirmations, prices 1 and 2, fees 0 and 1, 1 edit, 1 fault. saga: 1 order of 2 variants (2 and 1 units), 2 workers, 1 crash, `MaxAttempts` 1 (and the request's own attempt) | the summary is of the bag's own lines; the zone and fee on the page are those sent; charged as ordered; mailed once; at most one sale per line, complete refunds, truthful released receipts, what SENT means, no sale without payment but by reconciliation |
| `deliveries` | service: 1 variant of 2 units, 1 checkout and order, 2 threads, 2 attempts, breaker at 2 failures, 1 late copy, 1 call per request. outbox: 2 messages (one unhandled), 2 drainers, batch of 1, `MaxAttempts` 2, 1 crash | the service implements `UnitPool`; a caller told "held" or "committed" was told the truth; a refund keeps nothing; a correction asked for once applies once; holds end although the breaker opens. SENT is truthful, nothing starves |
| `order_lifecycle` | 2 checkouts and one number left, 2 staff requests, 2 webhook deliveries, reports in_transit and delivered, 1 crash | dense numbers; legal edges only; one booking; an answered delivery counts |
| `account_data` | 1 customer, 2 products (one bought), 1 phone, 1 order, 2 workers and the scheduler, 2 requests, 1 deletion per object, 1 fault | no orphan forgotten |
| `sessions` | console: a merchant and a superuser, 2 browsers, limits 2 and 2, window of 2 ticks, no compulsory OTP, 1 change. app: 2 presses of Pay, 3 token pairs, 1 other call, 2 breaks | guesses per window; a lockout ends on time; a device means a token; one order per press |
| `zone_claims` | `purchase`'s zone with two other localities: a city no table knows without a province, and Carcar in Cebu | expected violation, section 6 |
| `remote_corrections`, `account_suspension`, `saga_unpaid_sale`, `saga_expired_replacement`, `outbox_poison` | smaller ones of the same parts: 1 thread, 2 calls per correction; 2 requests; 1 worker; 1 drainer | expected violations, section 6 |

Why these bounds are enough to be interesting: two checkouts and fewer units than
they ask for produce every conflict over a row or a counter; a third adds no new
pair. One sweep and one release call already race with each other, with a commit,
and with themselves over time. One crash at any step plus any number of handler
failures gives every partial prefix of a delivery, and a retry on top of it.
Attempts are counted to `MaxAttempts` (8 in the code): the counter only separates
"again" from "give up". In `deliveries` two attempts of each of reserve, commit,
release and refund, a late copy and a second thread give every order of a
request, its retry and its straggler; two failures of either thread open the breaker.
The three localities of `purchase` are a city the tables know, one only its
province places, and one nobody places. Three token pairs allow a renewal, a second renewal that races with it and a
sign-in; two breaks lose a request and its answer. Two browsers that both passed the
lockout check before either failed are what `GuessesBounded` bounds, with their number as a
constant. One fault and a scheduler next to two workers repeat, interrupt and
duplicate any clean-up. `MaxLine`, `MaxOnHand`, `Deltas`, `MaxCrashes`, `MaxEdits`,
`MaxChanges` and the like bound the data and are named as bounds where they are declared.
Symmetry is used only for runs without liveness.
Operators whose comment begins "Mutant of" are no part of the models: each is a
plausible bug in the operator after it, and `PROJECT.json` pairs it with the property
that its substitution breaks.
In a composition a property speaks of the variables of one part, and the other parts cannot change
them. `SweptHoldsEnd` is `OverdueHoldsEnd` where anyone calls the ledger, since the saga's sweep, `ExpireHold`, is
under no fairness.
`CHECK_DEADLOCK FALSE` is set where a finished order or purchase, an emptied shop, a settled
queue or used-up bounds are a legal end; elsewhere somebody can always act, so deadlock says
little there, and the liveness properties carry that question.

## 4. Fairness

* `StockLedger`: weak fairness of starting a sweep (an interval job) and strong
  fairness of sweeping a row: a row may fail any number of times
  (`SweepRowFails`, logged and left to the next sweep) but not for ever.
* `Fulfillment`: weak fairness of each worker's next step (a process that does not
  die finishes what it began) and strong fairness of claiming each message (the
  drain job takes every due message, `OUTBOX_DRAIN_INTERVAL_SECONDS`). Nothing makes
  a shopper, a payment or staff act. Crashes are finite (`MaxCrashes`).
* `RemoteLedger` (`RemoteFairSpec`): strong fairness of `SweepTick`, the interval job
  whose call the breaker admits and the network delivers again and again, though
  any number may be lost (`SweepLost`); weak fairness of `CoolDown`, a clock. No
  thread has to finish, and no late copy to arrive.
* `Outbox`: weak fairness of each drainer and of time. Handlers may raise for ever;
  the attempts then run out. The crash bound matters, as `outbox_poison` shows.
* `FairStockSpec` and `FairDeliveriesSpec` state the same, each condition where its part moves.
* The other modules state no fairness: their properties say what may never happen.

## 5. Proofs

The theorems hold for every set of variants, checkouts, orders, sweeps, workers, threads,
requests, browsers, messages and drainers, of any size, and every opening stock,
price, batch size, threshold and number of attempts. Where a sum or a count is
taken over a set, that set is finite by assumption. They assume only the named
assumptions of the modules:

* `LedgerAssumption`: the opening stock and the bounds are natural numbers,
  corrections are integers, `NoOrder` is no order and `NoCart` no cart.
* `OrdersAssumption`: there are finitely many orders, since the movements are summed over them.
* `OutboxAssumption`: primary keys are natural numbers; `BatchSize` and
  `MaxAttempts` are at least 1.
* `FulfillmentAssumption`: an order has a cart of its own id, and each of its lines a
  replacement of its own id. The first is a `uuid4`, the second a name built from
  the primary keys of the order and the variant (`providers/base.py`), so no two agree.
* `RemoteAssumption`: `OrderOf` is one-to-one (section 2); attempts and threshold are at least 1.
* `LifecycleAssumption`, `ConsoleAssumption`: the reports are the courier's, the placeholders
  are nobody, the limits are at least 1, and there are finitely many browsers.
* `DataAssumption`: `Gone` is no row, "none" and "guest" are no customers, what was bought are
  products, no customer is a product, and the scheduler is none of the workers.
* `StorefrontAssumption`, `MobileAssumption`, `BagAssumption`, `ZoneAssumption`: prices, fees and
  quantities are natural numbers; a cart names finitely many products; an opening state is
  made of rows.

| Theorem | Says | Inductive invariant |
|---|---|---|
| **Stock ledger** | | |
| `TypeCorrect` | `Spec => []TypeOK`: no unsigned counter underflows | `TypeOK`; `EndRow` and `SellRows` check the counter first |
| `NoUnitPromisedTwice` | `Spec => [](NoOversell /\ ReturnedWasSold)` | itself, with `TypeOK` |
| `HoldsAreCounted`, `SalesAreCounted` | `[]ReservedIsHeld`, `[]SoldIsCommitted` | `RowsCounted` |
| `HoldsAreCovered` | `[]CountersCoverHolds` | a row's units are a subset of all held units, and those are on the shelf |
| `EndedRowsAreFinal` | `EndedRowsStay` | `StepMoves` |
| `LedgerImplementsPool` | `Spec => Pool!PoolSpec` | `ReturnedWasSold`, without which a refund could return more than the pool's order has |
| `MovementsAddUp` | `[]AuditTrail` | `BooksAgree` |
| **Remote ledger** | | |
| `RemoteTypeCorrect` | `RemoteSpec => []RemoteTypeOK` | `TypesInv` |
| `RemoteNeverOversells`, `RemoteCountsItsRows` | the ledger's invariants, behind an unreliable network | `LedgerInv`, with `ServerMoves` and `ServerKeeps` |
| `RemoteLedgerImplementsPool` | `RemoteSpec => RemoteImplementsPool` | the same |
| `ToldIsHeld`, `CommittedIsSettled`, `RefundedIsReturned` | `[]ToldHeldIsHeld`, `[]ConfirmedHoldIsSettled`, `[]RefundedOrderKeepsNothing` | `KnowledgeInv` |
| `RemoteMovementsAddUp` | `RemoteSpec => []AuditTrail` | `BooksAgree` |
| `CorrectedOnce` | `[]OneCallCorrectsOnce` | `CorrectionsInv` |
| **Fulfilment saga** | | |
| `SagaTypeCorrect` | `SagaSpec => []SagaTypeOK` | `RecordsInv` |
| `DeliveredOnce` | `[]OneSalePerOrder` | `RowsInv` |
| `RetiredIsDone` | `[]RetiredIsSoldOrExpired` | `DeliveryInv` |
| `RefundsAreWhole` | `[]RefundRestores` | `DeliveryInv` |
| `ReleasedMeansReleased` | `[]ReleasedReceiptHoldsNothing` | `DeliveryInv` |
| `SalesArePaidOrReconciled` | `[]UnpaidSaleIsReconciled` | `RowsInv` |
| `SagaNeverOversells`, `SagaCountsItsRows` | the ledger's invariants, under the saga's calls | `LedgerInv` |
| `SagaMovementsAddUp` | `SagaSpec => []AuditTrail` | `BooksAgree` |
| `SagaImplementsPool` | `SagaSpec => ImplementsUnitPool` | a step of the saga rests, is a step of the ledger, or expires a row |
| **Outbox** | | |
| `OutboxTypeCorrect` | `[]OutboxTypeOK` | `First(d)` is a row of the batch: a non-empty set of primary keys has a least one |
| `SentMeansHandled` | `[]SentWasHandled` | `MarksArePrepared` |
| `DeadMeansExhausted` | `[]DeadIsExhausted` | `BumpsArePersistent` |
| **Orders and shipments** | | |
| `LifecycleTypeCorrect` | `[]LifecycleTypeOK` | with `Working`: a request under way is about an order |
| `EdgesAreLegal` | `OnlyLegalEdges` | `StatusMoves`, of every step |
| `NumbersStayDense` | `[]NumbersAreDense` | `NumbersInv` |
| `OneParcel` | `[]BookedOnce` | `ParcelInv` |
| `NoDeliveryLost` | `[]AnsweredDeliveryCounts` | `ReportInv` |
| **Console access** | | |
| `ConsoleTypeCorrect` | `[]ConsoleTypeOK` | with `FormsAreFilled` |
| `SecondFactorHolds` | `[]EnrolledNeedsToken` | `TokensWereEntered` |
| `LockoutEnds` | `[]LockoutIsFixed` | `LockoutInv` |
| `GuessesStayBounded` | `[]GuessesBounded` | `GuessInv` |
| **Purchase** | | |
| `ShopperPaysTheOrder` | `ShopSpec => []ChargedAsOrdered` | `ShopShape`, `RequestInv`, `MailInv` |
| `MailsGoOnce` | `ShopSpec => []MailedOnce` | the same |
| `PressMakesOneOrder` | `AppSpec => []OneOrderPerTap` | `AppShape`, `PressInv` |
| `BagIsAnswered` | `BagSpec => []SummaryShowsItsLines` | `BagShape`, `BagInv`, `EnoughIsAll` |
| `ZoneStaysAsShown` | `ZoneSpec => []ZoneAsShown` | `ZoneInv` |
| `AppTypeCorrect` | `AppSpec => []AppTypeOK` | `TokensIssued`, `CallsIssued`, `AdriftIssued` |
| `PurchaseTypeCorrect` | `PurchaseSpec => []PurchaseTypeOK` | the above, with `BagBounds`, `ZoneBounds` and others |
| `PurchaseKeepsItsPromises` | the promises of the bag, the zone, the checkout and the saga hold of `PurchaseSpec` | `StagesMoveAlone` |
| **Account data** | | |
| `DataTypeCorrect` | `DataSpec => []DataTypeOK` | `TypesInv` |
| `OrphansAreCleanedUp` | `[]NoOrphanForgotten` | `CleanupInv` |

**Counting rows.** `ReservedIsHeld` compares a counter with a cardinality, and is not
inductive: a cardinality says nothing unless the set is finite, which with
unboundedly many checkouts has to be part of the invariant. `RowsCounted` adds it.
The argument is in two layers. About sets alone: `UnitsStep` says that when two
families of units differ only in one member's share, their cardinalities differ by
that share. About the program: `StepMoves` says that every step leaves rows,
counter and SALE movements alone, or changes the rows of one checkout and moves
the counter and the movements by exactly what changed there, and rewrites no
ended row. One action lemma each for placing, selling and ending rows gives
`StepMoves`; the unlocked candidate lists of sweeps and releases play no part,
because each row is looked at again under its lock.

**Sums.** `AuditTrail` compares a counter with sums over all orders. The library's sum is a fold: a
recursive function over subsets whose next member CHOOSE picks. `SumIterates` shows that this
function exists and takes one member out at a time, by induction on the size of the subset; the induction
principle is stated of a set of numbers (`NatSetInduction`, from the least element outside it),
so no predicate has to be passed. From it follow `SumsAgree`, `SumTakesOut` and `SumMoves`:
the sum depends on the members' values only, a member can be taken out, and a sum moves by what one of its
summands moves. About the program: every step books a sale, a return or a correction of one
order, or nothing (`Booked`), and moves the shelf by the same amount. The service and the saga take
their steps through the same four bookings. `CorrectionsInv` adds that a correction
which is recorded is one more summand, and one already recorded is not applied again.

**Marks.** The outbox writes its marks blindly, so `SentWasHandled` needs to know
that whoever is about to write SENT has seen the handler return
(`MarksArePrepared`), in the request and in every drainer. `DeadIsExhausted` needs
that a claim's bump is never lost: a row in a drainer's batch has been counted at
least once more than that drainer read (`BumpsArePersistent`).

**The saga.** Three layers, each resting on the one before. `RecordsInv` is about the
Orders schema alone: which statuses, payments, receipts and messages go together,
and what the worker that holds the order's lock may be doing to it. `RowsInv` ties ledger rows to
those records: a row of an order's cart or of a replacement exists only where its status
says so, and holds the order's own line. That a line is sold by at most one of its two
rows follows, since a replacement is reserved only for a paid order whose cart's row has
ended, and an ended row stays ended. `DeliveryInv` says what a delivery knows by the point it has
reached: which lines are already sold, released or returned (`LineDone`). It needs that no step
undoes such knowledge (`RecordsMove`, `RowsMove`, `ReturnsMove`), least of all one
of another worker. `RefundRestores` then needs that units return only after the
status says refunded, and that this status ends the sales. Every saga step is a rest, a ledger
step or `ExpireHold`; the ledger's own lemmas do the rest of the refinement.

**Knowledge across a network.** `ServerMoves` says that a request's execution moves the ledger as one
in-process call does, plus its key, whoever sent the copy and whenever it arrives;
so types, counters and the refinement are the ledger's arguments again. What a caller was told
is in `told`, and the truth is in the rows and keys, which other callers
and late copies go on moving. `KnowledgeInv` bridges them: a good answer, told or on its way, has its key
(`Answered`), and a key stays; a late copy comes from a call that began (`WasAsked`); a
commit is asked only for an order that was placed, and a return only after every release
(`AskedForReason`); and the rows of a key are as its request left them (`RowsOfCheckouts`,
`SalesOfOrders`).

**Numbers, parcels and reports.** `NumbersAreDense` needs that at most one open transaction holds a number,
the next one, under the sequence row's lock (`OneNumberOpen`). `BookedOnce` needs that packing is a transition, which one
request makes once: whoever is between it and the booking is alone there, nothing is
booked yet, and no status returns to an early one. `AnsweredDeliveryCounts` needs that what a webhook
delivery has read of the order is out of date in one direction only.

**Guesses.** `GuessesBounded` counts. Every guess is in the counter or owed to it by a browser
(`Owing`), and the guesses made together with the browsers that passed the check and still will
(`Trying`) never exceed the limit by more than the browsers can (`GuessInv`); each step moves one
browser between the two sets. `LockoutIsFixed` needs that the time locked and the time left are
together within one window (`LockoutInv`); `EnrolledNeedsToken` that a form which verified its
session had the token entered in the same browser.

**Purchase.** Each of the five parts is about answers that come late. `RequestInv` says what a
`place_order` has read by the step it is at, and that an order's total is the sum of the lines it wrote, whatever
staff edit meanwhile; `MailInv` that the confirmation which found the payment pending is the only one to
mail. `PressInv` follows a press of Pay through refusal, renewal and its one replay. `BagInv` says that, while the bag is in front,
the newest question is about the lines in it and what is shown is what its end has left, `EnoughIsAll`
that an answer with enough of everything names every line it was asked about. `ZoneInv` says that an answer is `ResolveZone`'s of the
question it answers; that the tables are disjoint (`TablesAreDisjoint`) makes a province's zone the
only one it can suggest.

The types of a purchase need more than the shapes: a revoked token was issued, because whoever
renews or signs out holds one (`CallsIssued`), and a shopper pays what the page asks because the
page is written before anybody is sent to it (`PaidAsAsked`). `StagesMoveAlone` carries
the results to the composition: a behaviour of `PurchaseSpec` is one of each stage.

**Clean-up.** A clean-up is idempotent, and events are repeated, interrupted and handled twice. So what matters is
never how often one ran but that no event some process has applied and is about to mark is the last one
owed to a row left behind: `Owes(l, n)` says that the `n`-th event of the link `l` is pending and that
no process has carried it out and is about to mark it (`CleanupOwed`). A deletion records its events in its own
transaction, so it owes them at once. Rows written later by a request that had read the object before are
`late`, and outside the promise; a deletion makes no other object's rows late, since a row that
two objects share is a review of a bought product, and those are protected (`SharedRow`).
The event's row lock is not needed for any of this.

`CountersCoverHolds`, `DeadIsExhausted`, `OutboxTypeOK` and `SagaTypeOK` are proved and have no
run of their own; `ReturnedWasSold` is checked as part of `AuditTrail`.

Only model-checked: liveness (`SweptHoldsEnd`, `OverdueHoldsEnd`, `MessagesSettle`, `EveryMessageSettles`), which
needs ENABLED. Every safety property that a passing run checks, invariant or of steps, and every
refinement, is proved.

## 6. What the models found

* `saga_unpaid_sale`: when the payment session and its compensation both fail, the
  order is cancelled and its receipt becomes UNKNOWN. UNKNOWN is written nowhere
  else that survives: in `deliver_order_stock` the update is rolled back by the
  exception that follows. So what `reconcile_unknown_holds` finds are orders
  nobody paid for, and it sells their stock if the hold is still ACTIVE.
* `saga_expired_replacement`: a delivery reserves a replacement under a stable
  key and fails or dies; its retry comes after the replacement's TTL.
  `reserve_lines` replays the key, `commit_holds` commits nothing and its answer is
  ignored, and the message is retired with the stock unsold.
* `outbox_poison`: no claim looks at `attempts`, so a message that kills its
  process is tried without end.
* `remote_corrections`: the key of a correction is the hash of its payload
  (`providers/service.py:307`), so a second correction of the same variant by the same amount for
  the same reason is answered from the first one's record: staff are told that it was made, and the
  counter does not move. `service.py:304-306` promises that "a genuinely new one must not be mistaken
  for a replay". `OneCallCorrectsOnce` is what holds: of corrections asked for by one call each.
* `account_suspension`: the app's profile patch saves the whole row (`mobile_api/views.py:585`). One
  that loaded the row before a suspension makes the account active again, against
  `accounts/admin.py:161-163`: "any live session for that account stops working immediately". The
  account form and the consoles' password forms can do the same.
* `zone_claims`: three sentences about the zones that the code breaks, refuted by one behaviour. What no
  table knows is suggested Luzon (`shipping/zones.py:273`), where `zones.py:9` says "Unknown input returns
  None — never a guessed fee". The city is tried before the province, and by any token inside it
  (`zones.py:253`): Carcar holds "car", the Cordilleras' abbreviation, so it lands in Luzon, where `zones.py:4-5`
  says "a Cebu address always lands on VisMin". And a suggestion sets the dropdown whenever it
  arrives (`checkout.html:245`), also over what the shopper picked by hand meanwhile, where
  `checkout.html:201` says "The manual zone dropdown stays authoritative". `OneZonePromiseStands` is the
  disjunction of the three, so that the one behaviour that breaks it breaks each.
  `ZoneAsShown` claims none of them.

Modelled and against what a comment says, without a run of their own, since one look at the
line shows them:

* The money beside a line. `CartScreen.tsx:9-10` says "Every money string on this screen comes from
  /cart/validate/ — including line totals". The line shows
  `server?.line_total_display ?? line.priceDisplay` (`CartScreen.tsx:188`): while there is no current answer, after a
  question that failed, and for a line the shop no longer has, it is the price of one, stored
  when the line was added, whatever the quantity. `LineMoney` models it. `SummaryShowsItsLines`
  claims the server's money for subtotal, shipping and total, and for lines only beside an answer that lets
  the shopper go on.
* The total on the pay button. `CheckoutScreen.tsx:9` says that "the Pay label's amount is the SERVER total
  from zone-aware /cart/validate/". Its effect (`CheckoutScreen.tsx:141-151`) has no request id, so the total of a zone chosen
  before may arrive last and stay (`payLabel`). `ZoneAsShown` speaks of the web page only.

Seen while modelling, and promised nowhere, or in a part that is not modelled:

* Outbox. A claim leaves its rows PENDING and due, so batches of two drainers are not
  disjoint while the first delivers; and a drainer that dies spends an attempt of
  every message in its batch, tried or not.
* Remote ledger. `ServiceUnavailable` may be raised
  although an attempt was applied (`core/http.py:219`). After the cooldown every
  thread passes the breaker, where `core/http.py:113` speaks of one probe. A release
  recorded before a late copy of the reserve makes later releases replay an
  empty answer, and the hold lives until its TTL.
* Orders and shipments. A delivered report that arrives while the order is still PACKED is
  logged and answered 200. `mark_as_shipped` overwrites a newer courier status. A
  crash between PACKED and the shipment's row leaves an order no action ships; a booking
  without an answer leaves a waybill nobody recorded. The staff form writes all it shows.
* Console access. The `cache.set` of an expired count can overwrite a window just
  opened. The storefront's and the app's logins do not count towards the console's lockout. A
  success clears the whole address bucket. Two superusers can suspend each other.
* Account data. The whole-row writers can also undo a change of role or password and insert
  a deleted account again. A review approved after its
  author edited it shows the new text. Rows written after a deletion by requests
  that began before it dangle (`late`). A hundred events that keep failing fill
  every batch of their drain.
* App. Two calls refused at once renew with the same token, and the second clears the
  pair the first stored. A logout sent again after a renewal revokes the old
  token only; a renewal in flight at sign-out stores a session again. `restoreProfile`
  signs out on any error, being offline included. A lost answer keeps the cart, and the
  second press makes a second order: a checkout has no key of its own. A device
  registration in flight at sign-out marks the next shopper's device as registered
  (`hooks/usePushRegistration.ts:82`), so it stays with the former one.
* Refunds. A refund releases the receipt's checkout, not the replacements a delivery had reserved
  (`orders/refunds.py:42`): their units wait for the TTL.
* Checkout. `parse_items` bounds a line before it merges equal ones. A mail is lost if its
  process dies after the payment was confirmed.
* Stock editing. The admin form writes `qty_on_hand` and `qty_reserved` from a page loaded
  earlier and records no movement, where `inventory/models.py:195` speaks of every change.

## 7. Not modelled, and the plan

Abstractions: a transaction is one step everywhere, so lock waits, deadlocks and
snapshot reads inside one are below these models. `clearTokens` deletes its two
keys in one step, and the refresh view checks and rotates in one. The biometric gate
is a choice to restore the session or not. Rate limits other than the console's
lockout, read marks, and views that only read are left out.

Not modelled:

* merchant stock editing: a plain form over the counters; after one stale save no
  ledger property holds, so there is nothing left to check;
* the document service, catalogue, CMS, templates, deployment and seeds: they keep no
  state of their own or follow no protocol;
* push registration on the phone (section 6): a small hook whose promise is not written down;
* money formatting, fingerprints and signatures: data and
  wording; where a decision depends on one, its outcome is the choice of an action.

What is left: liveness, beyond the provers used here. The expected violations of section 6 are
TLC's counterexamples; each is one behaviour and needs no proof.
