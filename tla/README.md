# A verification of technova-pos-api

TLA+ models of the parts of the API in which requests, timers and failures meet over shared rows, TLC runs that
check them on small instances, and TLAPS proofs of the properties that matter most for every instance. Paths
are those of the repository (`src/` is its root); each definition's source lines are listed in `PROJECT.json`
under `map`.

## 1. The system

A NestJS service over PostgreSQL (Prisma). Handlers of one process interleave at every `await`, and several
processes may run behind a proxy; all of them share the database and nothing else. Three patterns recur and make
the code hard to test:

* **Check, then transact.** A handler reads and validates outside its `$transaction`, then writes inside it. What
  was checked may be stale. Some writes repeat the check as a condition (`updateMany ... where`), others do not.
* **READ COMMITTED.** A row written by a transaction is locked until it ends, so two transactions that write the
  same row first run one after the other. Aggregates over *other* rows do not see what is not committed yet.
* **Commit, then tell.** Audit rows, notifications and the operation's own status are written after the business
  transaction, by statements that may fail on their own.

### Components

| Component | State | Operations that change it | Hard behaviour | What makes it correct |
|---|---|---|---|---|
| inventory | `StockLevel`, the `StockMovement` ledger, `InventoryUnit`, `StockTransfer` | adjust, createTransfer, dispatch, receive | status read before the transaction; the level, the ledger and the units are three records of one fact | level never negative, ledger explains level, goods of a transfer move once |
| sales | `Sale`, `SaleItem`, `Payment`, `CreditAgreement`, `CreditInstallment`, accounts | create | locks stock, accounts and units in one transaction after checks on stale reads | a unit is sold once, points and store credit are spent once |
| returns | `Return`, `ReturnItem`; writes nearly everything sales writes | create | remaining quantity read early; shortens installments from the back | never more back than sold, the agreement still adds up |
| credit | `CreditAgreement`, `CreditInstallment`, `CreditPaymentAllocation` | repay; `markOverdue` on every list and detail | absolute writes of balances computed from stale reads; a cent of tolerance; refunds of fractions of a cent, rounded column by column | balances, installments and statuses agree |
| purchasing | `PurchaseOrder`, `PurchaseOrderItem`, `GoodsReceipt` | create, approve, receive | completeness counted without uncommitted receipts | status matches receipts |
| supplier portal | `SupplierOrderResponse`, `SupplierShipment`, `SupplierInvoice` | respond, review, dispatch, uploadInvoice | proposals reviewed after the order moved on | what is shipped was agreed |
| loyalty | `LoyaltyAccount`, `LoyaltyRule` | adjust, createRule, updateRule | conditional decrements | points never negative by redemption |
| customers | `Customer`, credit limit | create, update | next number computed from rows read | limit holds when credit is granted, a refused creation has a cause |
| notifications | `DomainEvent`, `NotificationOutbox` | publishFromAudit, processPending | claim, send, record: three steps, the middle one outside | every message sent or given up, one owner at a time |
| notification worker | none of its own | 30 s delivery timer, hourly alerts, promotion launches | timer and administrator scan at once; process stops | a reminder is never forgotten |
| offline sync | `OfflineSyncBatch`, `OfflineSyncOperation` | submit (and retry) | a device repeats what it got no answer to | an operation sells at most once |
| audit | `AuditEvent` | record | follows a commit and may fail | - |
| users, roles | `User`, `UserRole`, `Role`, `RolePermission` | create (and its mail), updateAccess, remove, roles.update | checks of actor, target and last super administrator before the transaction | one super administrator stays; nobody gives more than a super administrator decided |
| auth | `RefreshSession`, `SecurityToken`, `AuthAttempt`, `User.sessionVersion` | login, refresh, logout, change and reset of the password | rotation against revocation, sign-in against a change | what ended stays ended, a code resets once |
| discounts | `DiscountRule`, `DiscountApplication` | create, update, remove | races with the worker's launch and with checkouts | announced once and as it is; applied on its terms; a failing launch does not stop the worker |
| warranties | `WarrantyPolicy`, `Warranty`, `QrAccessGrant` | createPolicy, updatePolicy, activate, (sale, return) | activation races with a return; months end early | one active policy, a void warranty stays void |
| catalog, storage, organizations | product media, logo, barcode; objects | uploads, removals, update, barcode generation | a row and an object written by two systems | rows and objects agree, a product has one barcode |
| dashboards | `VisualTheme`, `Dashboard`, `DashboardTemplate` | create, update, setDefault, delete, list, fork | the default is unset and set by two statements; dashboards are listed by branch and may change it | one default row, for a dashboard one of each branch |
| suppliers | `Supplier` and its portal `User` | create, update | a mail after the commit; what is taken back when it fails takes two statements; the users service writes the account too | portal and account agree, again after each update |
| AI intelligence | none of its own | recommendations, loyalty, overview, forecasts | the model fails or answers about goods the shop has not; days of Colombo on a clock of UTC | advice names what exists; a feature uses the past only |
| business assistant | none of its own | chat | two models with retries, tools that fail | every question answered, degraded exactly when no model answered |
| branches, reports, customer app, health, idempotency, deployment | one table, or none | single-row writes, queries, scripts | - | - |

How they meet: `sales` and `returns` write the rows of inventory, credit, loyalty and warranties inside their own
transactions (no component calls another's service for it); `purchasing.receive` brings stock in and completes what
the supplier portal shipped; the portal's `review` rewrites the order's items; offline sync calls `sales.create`;
every handler calls `audit.record`, which calls `notifications.publishFromAudit`; the worker calls
`notifications.processPending` and publishes reminders.

## 2. The modules

| Module | Models |
|---|---|
| `Inventory` | levels, ledger, units, transfers: adjust, createTransfer, dispatch, receive |
| `StockRoom` | extends `Inventory` with the other writers of stock: sales at the tills, returns, receipts of purchase orders; composes inventory, sales, returns and purchasing over the shared rows |
| `CreditLedger` | a credit sale's money: create, repay, returns, overdue marking, with fractions of a cent and their rounding |
| `Accounts` | a customer's points, store credit and credit limit across sales, returns, repayments, adjustments |
| `Purchasing` | order, receipts, supplier's responses, reviews and shipments |
| `Sessions` | sign-in, refresh rotation and reuse, sign-out, password change and reset, and what a change of access does to them |
| `Staff` | users and roles: who may give whom which role, and who removes whom |
| `Promotions` | discount rules from creation to edit, launch and use at the till; the worker's round |
| `Warranties` | policies, links, activation, sale and return of serialized units |
| `Catalog` | images, video and logo in the database and in the store; generated and typed barcodes |
| `Defaults` | the tables of which one row is chosen (theme, dashboard of a branch, loyalty rule), and the system template |
| `Partners` | a supplier's portal account with its mail and what the users service does to it, and the numbers of customers |
| `Forecast` | the daily calendar, its features, the request for a forecast; the sales tool's date range |
| `Advice` | recommendations, loyalty, overview and demand, with and without the model |
| `Assistant` | one question from the route's guard to the answer: plan, tools, two models, degraded answers |
| `Outbox` | audit events, reminders, outbox rows, scans by timer and administrator, the provider |
| `Delivery` | abstract specification: what the outbox promises of a message. `Outbox` instantiates it (`Promise`) and implements it |
| `OfflineSync` | batches, operations, overlapping submissions, failures after a commit |
| `Settlement` | abstract specification: what synchronization promises a device, batch by batch. `OfflineSync` instantiates it (`Settles`) and implements it |
| `Services` | composes `Promotions`, `OfflineSync` and `Assistant`: what goes on by itself once started |
| `BackOffice` | composes `Staff`, `Warranties`, `Catalog`, `Defaults`, `Partners`, `Advice`, `Forecast`, `Purchasing`, `Promotions` |
| `Sums` | lemmas about sums of functions over finite sets, for the proofs about money, points and forecasts |
| `StockRoomProofs`, `AccountsProofs`, `CreditLedgerProofs`, `SessionsProofs`, `OutboxProofs`, `ServicesProofs`, `BackOfficeProofs` | theorems (section 6) |
| `MC*` | the instances of section 4 |

**The compositions by focus.** No component in `Services`, or in `BackOffice`, reads a row that another one writes, so a
step of one cannot be told from a stutter by the others, and a property that speaks of one holds of all running together
exactly if it holds of that one running alone. A behaviour therefore follows one component, `focus`, and the others stay where
they start. That keeps the sum of the state spaces instead of their product; nothing about interaction is claimed. Components that do
share rows (`StockRoom` over `Inventory`, sales and returns; the parts of `Accounts`, `Outbox`, `Sessions`) are interleaved for real.

### How code becomes actions

A request is two steps. *Begin* is the handler up to its `$transaction`: it takes the reads and the early returns
and remembers what was read. *Commit* is the transaction: one step, because its first write locks the row that
every competitor writes first, and because a transaction that throws leaves nothing. Everything the transaction
does, the rows of the ledger, the units, the status and the totals, is in that step. Two handlers are cut a second
time, at the aggregate inside the transaction that does not see another transaction's uncommitted rows
(`returns.create`, where it decides on `REFUNDED`; `purchasing.receive`, where it decides on `RECEIVED`): they have
a stage *counted* between count and commit.

A client that gives up, and an early return, are the request's going back to idle: nothing was written. Requests
are desks, tills, clerks, callers, of which the instances have two each, so properties are checked with two requests
of the same kind open at once. Where a handler works outside the database between its writes, it is cut there as well: the mail
of a new account (`Staff`, `Partners`), the object store (`Catalog`), the provider (`Outbox`), the models (`Advice`, `Assistant`). A `WHERE` that
compares with the clock uses a moment that was read before the statement ran (`CommitEdit`: some `now` since the request began).

Data is abstracted to what properties tell apart: products, units, transfers, sales, customers are model values;
money and quantities are integers of the smallest unit (a cent, the smallest quantity; `CreditLedger` divides the cent further); prices, taxes, documents and texts
are left out. A date is a day number in `CreditLedger`, a fact ("due") in `Outbox`,
a moment of a short clock in `Promotions`, months with a day in `Warranties`, and half hours in `Forecast`, where the code's arithmetic on Colombo's five and a
half hours is what matters. A password is the number of its changes; what a rule grants is the number of its edits.

### State and code

* `Inventory`/`StockRoom`: `level` is `StockLevel.quantityOnHand`, `moved` the signed sum of a branch and product's
  `StockMovement` rows, `unit` the status and branch of each `InventoryUnit`, `status` the transfer's, `shipped`, `landed` and
  `outgoing` what the movement rows of a transfer add up to and which units they name; `saleUnits`, `returned` and `backUnits` come from
  `SaleItem` and `ReturnItem` rows. An adjustment, a dispatch and a sale decrement under the condition of their `updateMany`; what
  comes in is added without one. `desk` and `till` are the requests in progress.
* `CreditLedger`: `ledger[s]` is the `Sale` row (paid total, balance, status), its returns, its agreement and its installments (due, paid,
  status). `repay` fills installments from the first, a return shortens from the last, `markOverdue` looks at due dates only.
  What is stored is a number of cents. A refund is `lineTotal / quantity` times what came back (`returns.service.ts:252`), not rounded: it is a number of *grains*, `Grain[s]` to the cent, enough of them for the unit
  prices of the sale to be whole. `Stored` is what a `Decimal(18, 2)` column makes of it; each column rounds for itself, and an installment's status is taken from the sum before it is rounded (`Reduced`), as in the
  code. The code computes in doubles; a comparison that falls exactly on a cent is taken as it is written.
* `Accounts`: `points`, `credit` and `limit` are columns of the customer's rows, `sale` what each sale owes and was not returned; `request`
  holds what a clerk's handler read.
* `Purchasing`: `order` is the order's status with the quantity and received quantity of each item (in halves of a piece, since the portal takes
  decimals), `responses` the supplier's answers with their reviews, `shipments` the status of each shipment.
* `Outbox`: `event` says how far the publishing of a message got, `row` is its `NotificationOutbox` row, `scan` each scan's batch as read and
  the row it is at, `accepted` how often the provider took the message.
* `OfflineSync`: `batch` and `operation` are the stored statuses, `post` each submission's remaining work, `sold` the sales each operation
  created.
* `Sessions`: `account` is the user's status, `sessionVersion` and password, `session` the `RefreshSession` rows in the order of creation, `token` the
  reset codes with their attempts.
* `Staff`: `employee` is the status and roles of each user, `grants` the permissions of each role, `asked` what a request was let through for.
* `Promotions`: `rule` is the row, `edit` an update or removal between its check and its statement, `cart` the rule a checkout was priced with,
  `toLaunch` what a round has read and not launched yet, `launched` the announcements, `clock` the time. An edit's statement is `Writable` only if the start is ahead of the moment it compares with;
  it is *overtaken* if the rule has started by the time it is written.
* `Warranties`, `Catalog`, `Defaults`, `Partners`: the rows named after their tables, the objects of the store, and the request in progress. In `Defaults`, `site` is the branch of a dashboard, and `beside` the rows that
  became the chosen one while another one of their branch was, which nothing looked for: a list made one, a shared one was forked, one was moved, or a choice did not see it. The next choice unsets them all.
  In `Partners`, `change` is an update or its mail; an update's take-back is two steps, the account (`SupplierMail`) and the supplier's switch (`SwitchOff`), between which it may stop; `OverruleAccount` and
  `DeleteAccount` are the users service's.
* `Forecast`: `sold` maps the time of a sale to its total; `days`, `features`, `forecast` are the values the services compute from one another. `Advice`
  and `Assistant`: the question in progress with what its reads, tools and models have returned.

**History variables** record what the code does not store but a property has to speak of: how often goods moved,
or whether two requests on one row were ever open together (`contended`, `raced`, `clashed`, `overlapped`, `amended`,
`stale`, `stranded`, `overtaken`, `disturbed`, `cut`, `crossed`, `late`, `doubled`, `demoted`, `outdated`, `regranted`, `tardy`, `moved`
of `Promotions`, `overlaid`, `adrift`, `crowded`, `beside`, `hasty`, `twice`, `astray`), and what `CreditLedger` adds up (`repaid`, `offset`, `uneven`: the refunds of a sale that were not whole cents). They never guard an action. A property such
as `GoodsTravelOnce` holds for transfers that are not `contended`; the run `double_receive` shows that the exception is needed.
An exception names what the race happened to: a sale, a rule, a family of sessions, a row. A property with such an exception does not show that the race is harmless (it is not); it shows that nothing else leads there. Section 7 lists
what the races do.

## 3. Plan

The order was by weight: stock and units (shared by most writers), money, orders, delivery and synchronisation; then sessions,
staff and promotions, where a race has the widest consequences; then what is chosen once per organization, media, partners, and the services around the models.
Two abstract specifications were worth stating: the outbox's (`Delivery`) and synchronization's (`Settlement`), whose retries, stops and overlaps hide what a message or a device may
rely on. Proofs follow the properties that hold for any number of requests and rest on a check that somebody may overtake. What would come next:

1. A transfer as "drafted, sent, arrived", implemented by the uncontended transfers of `Inventory`.
2. The sign-up of customers with its two-step codes, and the throttle of attempts, in `Sessions`.

## 4. The runs

Every passing run also checks a type invariant, and each property has a mutant of the code that TLC finds violated under the run's own
configuration.

| Run | Instance | Shows |
|---|---|---|
| `stock_room` | two branches, a product by quantity and a serialized one, two units (one in stock, one still with the supplier), a transfer there and one back, two sales of the same goods, two desks, two tills; `MaxDelta` 1 bounds an adjustment, `MaxLevel` 1 a level that is increased | `StockIsBooked`: all interleavings keep the level non-negative and explained by the ledger; `LevelCountsUnits`: and equal to the units in stock where nothing raced; `TransfersKeepGoods`: goods of an uncontended transfer move once and no unit is stranded; `SoldForGood`: no unit is sold twice, and a sold unit stays sold |
| `credit_ledger` | one sale of three cases for 11 cents, so that one is worth 3 2/3, and a charger for 5; 8 are paid at the till, 2 by points, 6 are credit in installments of 3 and 4, a cent more than the balance; `Grain` 3; two clerks; repayments of 3 and 7 up to `MaxRepaid` 7; `MaxDay` 3 passes both due dates | `MoneyAddsUp`, `StatusesSayWhatHappened`: balances, installments and statuses agree through repayments, returns of whole and of broken cents, and overdue marks; `PaidStaysPaid` |
| `accounts` | one customer with two points and a unit of store credit; two sales that each want all of it; limits 2 and 3; two clerks; `MaxGranted` is the sum of points above which nothing is adjusted upwards, `Amounts` the repayments and returns | `BalancesCovered`: points are spent once, balances are covered except where a return or checkout overlapped; `CreditGrantedWithinLimit` |
| `sessions` | one user, two requests; `MaxSessions` 3, `MaxTokens` 2, `MaxChanges` 2, `MaxAttempts` 1 wrong code for the code's five | `AccessEnds`: one live session per family, sessions follow a change of access or password, a code resets once; `EndedStaysEnded` |
| `outbox` | a reminder and a notice; the timer and one administrator; `MaxAttempts` 2 for the code's five; `MaxStops` 2 interruptions | `RowsLookedAfter`: one owner per row, nothing given up silently; `DeliversAsPromised`: the outbox implements `Delivery`; `NothingForgotten`: everything is settled, reminders are published |
| `services` | promotions: one editor, a rule that is made and edited (`MaxEdits` 1) and one that always applies, `MaxClock` 2, any number of failing launches; offline sync: three operations in three batches, one shared, two submissions, `MaxFaults` 2; assistant: up to `MaxTopics` 2 topics, `MaxPrimary` 3 and `MaxFallback` 2 calls, as in the code | `AnnouncedOnce`; `SettlesAsPromised`: synchronization implements `Settlement`, so an operation sells once and its answer is final; `StatusesTellTruth`, `AnswerTellsTruth`; and that each comes to an end: `WorkerKeepsGoing`, `BatchesSettle`, `EveryQuestionAnswered` |
| `back_office` | two requests in each service. Staff: two super administrators and a manager, `MaxWrites` 3. Media: `MaxImages` 1 for eight, `MaxObjects` 3; barcodes: two, `MaxDraws` 2 for five. Defaults: three rows, of which dashboards use two, one branch and none (`Shops`, `Dashboards`), two organizations, `MaxStandard` 2. Customers: `MaxAttempts` 3 for five, `Widest` 4 for 999999, `MaxCustomers` 6. Warranties: two units, policies of one month, sold in January on the 31st and in May. Advice: two products, one the shop has not, `MaxSold` 1. Forecast: sales on either side of midnight in Colombo, in the hours of a discount and in the last week; horizons 1 and 7. Purchasing: one piece of two items, a proposal of one and a half cables, `MaxResponses` 2, `MaxShipments` 1. Promotions: two editors, `MaxClock` 2, `MaxEdits` 1 | `SuperAdminStays`, `NoEscalation`, `WarrantiesKept`, `CatalogAgrees`, `OneDefault`, `ThemeKept`, `PartnersServed`, `AdviceIsNew`, `ForecastsFromThePast`, `OrderTellsTruth`, `StatusMovesOn`, `TermsHold` |
| `double_receive`, `store_credit_spent_once`, `last_super_admin`, `weekday_in_colombo`, `today_counted` | the instances above, with `Parts` the one that matters | section 7 |

**Why the bounds are enough.** Each hazard needs two requests on one row, and the instances have two of each kind,
plus enough rows for the cases to differ: a unit that can be sold at either branch and be underway; a return that
closes an installment and one that only shortens it, by whole cents or by thirds; six customers are two more than numbers that sort; a row that is retried and one that is given up; a batch that
overlaps another one; a session that is rotated while its family is revoked; a row that is chosen while another one is. Levels of 1 are the boundary
of every stock condition. Where a count of the code is lowered (attempts, draws, images), the lower one still has the case that goes on and the one that
gives up. Times are the boundaries: before, at and after a rule's start; the end of a month that is shorter; half hours around a midnight. An update of `Staff`
changes the status or the roles, not both: the two are written independently. What the bounds cannot show is a fault that needs three requests on one row; the
theorems cover any number.

**Symmetry** is used on desks, tills, clerks and callers, and on the two super administrators, which the specifications do not distinguish, and in no run
with a liveness property (`back_office` has action properties only). **Deadlock** is checked except in `Sessions`, `Outbox`, `Services` and `BackOffice`,
where the system may stop: everything is sent, submitted, launched or answered and the bounds are used up.

## 5. Fairness

* `Outbox`: weak fairness of the timer's `BeginScan` (the worker's `setInterval` of 30 seconds calls
  `processPending`, and a restarted process sets it again), of each step of a scan (a handler goes on after its `await`; the
  provider answers or times out), of the passing of `nextAttemptAt`, and of publishing a reminder (the hourly alerts look for it
  every time). No fairness of administrators: the liveness does not rest on them. Assumed besides: `promotionLaunches`, which the same
  timer runs first, ends without an error often enough (`notification-worker.service.ts:46`): one that throws ends the round before `processPending` (see `Promotions`), and then only administrators deliver. A reminder
  is queued once for its key, which names the UTC day (`:257`, `:321`): "a row is missing" is about the reminder of one day. A row left `PROCESSING` by a process that stopped is
  never settled, because no query selects it; `EventuallySettled` says so by its exceptions (`stranded`, and `overtaken`: a row that a
  scan failed with a stale attempt count may become one that no query selects).
* `Promotions` (in `Services`): weak fairness of the worker's next step. The timer starts a round every thirty seconds, a round awaits its launches one by one and
  then delivers; a launch that throws ends the round and clears the running flag. Launches may fail without limit: `WorkerKeepsGoing`
  says that due promotions are launched and every round that follows delivers, *or* launches of promotions that are there fail again and again (`LaunchBreaks`). The second case is real: a promotion whose launch throws each
  time ends every round before `processPending`, and nothing is delivered by the timer any more. Removals under the worker are not such a case, and do not stop it. Nothing makes time pass or a request arrive.
* `OfflineSync`: weak fairness of every submission's own steps (a handler goes on). Nothing makes a device submit again, so `BatchesSettle`
  excepts batches cut off by a stopped process.
* `Assistant`: weak fairness of the steps of one question: tools and models answer or fail (every call has a timeout), and the orchestrator goes on.
* In `Services` only the service in focus is scheduled. The other modules have no liveness: nothing obliges a user to receive a transfer or pay a debt.

## 6. Proofs

All by TLAPS, for every value of the constants under the assumptions the modules name, and so for any number of desks, clerks, requests, submissions and calls.
TLC checked every property first. Each theorem rests on an inductive invariant; what is said below is what that invariant adds to the property, and why.

* **`StockRoomProofs`**: `TypeCorrect` (`TypeOK`) and `StockStaysBooked` (`StockIsBooked`): every decrement carries its condition in the same `UPDATE`, and every step
  that moves a level moves the ledger's sum by the same amount. `TransfersInOrder` (`TransfersKeepGoods`): the status that a request read may be stale, so of every
  transfer that is not contended at most one request is open, and what it read is still so (`AloneInv`); requests know only transfers that exist in the state they read
  (`RequestInv`). `UnitsSoldForGood` (`SoldForGood`): no unit is sold twice because of the unique index that the sale's insert meets, whatever overlaps; a sold unit stays
  sold as long as no two requests overlap on a transfer or a unit (`Orderly`), since a unit that a till picked is then still where it was picked (`TillInv`) and a sold unit
  is in no transfer (`UnitInv`). `LevelsCountUnits` (`LevelCountsUnits`): a sale and a transfer move as many units as they move pieces, because what they found is one
  distinct unit for each piece (`FoundInv`, `TravellingCounted`); the cardinalities then move with the levels (`ShelvesCounted`).
* **`AccountsProofs`**: `AccountsTyped` (`TypeOK`), `CustomersSpendWhatTheyHave` (`BalancesCovered`) and `LimitHeld` (the action property `CreditGrantedWithinLimit`). What a
  customer spent is a sum over sales of which one completes per step (`SpentStep`); the invariant says what the credit, the debt and the limit that a request was let through with are
  still worth unless something changed under it (`RequestInv`), and that the points left and the points spent were all given (`PointsInv`).
* **`CreditLedgerProofs`**: `LedgerTypeCorrect` (`TypeOK`), `MoneyAlwaysAddsUp` (`MoneyAddsUp`), `StatusesAreRight` (`StatusesSayWhatHappened`) and `PaidIsPaid` (the action
  property `PaidStaysPaid`), for any prices and quantities. First what each handler writes: a repayment, served installment after installment, lowers what is owed by exactly the amount (`AllocatedParts`), a refund, taken from the last ones
  first, likewise (`ReductionParts`), an overdue update touches no amount. Then what rounding does: a column holds the nearest number of cents (`StoredNearest`), and of the installments a refund shortens all but the last are
  shortened to nothing, so only one is rounded, by the same fraction as the agreement's balance (`TakenOff`, `ReturnedCents`). That is why the installments still owe the agreement to the cent however many refunds are uneven, while the
  balance may be half a cent off for each (`RoundedOnce`), and why one installment at most is left unpaid with nothing due (`LaterPaidOff`). So a row whose amounts and statuses agree (`RowSound`) is written to a row that agrees
  (`RepaidSound`, `ReturnedSound`), if the row was read as it is. The invariant says that: what a request on a sale without overlap has read and counted is sound and still so (`RequestInv`, `CountOK`), and the balance is what the
  history of repayments and returns makes of it (`BalanceTrue`).
* **`SessionsProofs`**: `SessionsTypeCorrect` (`TypeOK`), `AccessDoesEnd` (`AccessEnds`) and `EndedFamiliesStayEnded` (the action property `EndedStaysEnded`). A rotation was begun on a live
  session (`RotationsLive`), so a family that none crossed has one live session (`OneOfFamily`); a reset token that was spent is marked (`SpentIsUsed`). The bound of a token's wrong codes is part of
  `TypeOK` and needs the codes that are compared and not yet counted: those and the counted ones are no more than the limit and the requests together (`AttemptsCounted`).
* **`ServicesProofs`**: `OperationSoldOnce` (an operation sells at most once), whatever is submitted how often and whatever fails: a client id belongs to the batch that inserted it (the unique index), only the
  submission that created a batch executes it, and what a submission has still to do has not sold. On it rests the refinement `SettlementKept` (`SettlesAsPromised`): initial states map to initial states of `Settlement`,
  every step to a step of it or a stutter. The sales of which the
  record slipped are the operations that failed after their sale had committed (`disturbed`); such an operation has sold, and no submission that is about to call it applied holds it (`SlipInv`), so an answer "applied" means a
  sale and "rejected" none or a slip. `StatusesAreTrue` (`StatusesTellTruth`): what a submission has counted as applied and rejected is what its operations are
  (`ProgressOf`), and a status is read off these counts (`BatchTold`). `AnswersAreTrue` (`AnswerTellsTruth`): tools are taken in the order of the plan, calls
  end with the first that does not fail for a time (`CallsInOrder`). `ServicesTypeCorrect` (`ServicesTypeOK`): that a submission counts no more than its batch has needs that what it counted and
  what is left are together the batch (`WorkCounted`).
* **`OutboxProofs`**: `OutboxTypeCorrect`, `RowsStayLookedAfter` (`RowsLookedAfter`) and the refinement `PromiseKept` (`DeliversAsPromised`): initial states map to
  initial states of `Delivery`, every step to a step of it or a stutter. The invariant adds who owns a row (`Owned`), that unwritten rows are untouched (`Written`), and
  how far what the provider took, and what a scan has read, may be from the attempts on record (`Counted`): without it a stale scan could count an attempt away.
* **`BackOfficeProofs`**, in the order of the file:
  * Staff: `ManagersLendNoPower` (`NoEscalation`). The writes check nothing again, so what a manager asked for is harmless unless the role's permissions were replaced
    since (`AskedHarmless`). `SuperAdminRemains` (`SuperAdminStays`): a removal counts another super administrator in the state it checks; what may take that one away before the write is exactly what the exceptions name.
  * Promotions: `AnnouncedAsIs` (`AnnouncedOnce`) and `TermsStay` (`TermsHold`). The argument is the clock: a rule is launched or applied only once it has
    started, and what has started is written only by a statement that the start overtook, since the statement compares with a moment before it is run (`tardy`); so what was read for a launch or a cart
    stays the rule's terms (`AllFixed`). A write that was overtaken takes the mark of the launch away once (`Launches`), and a rule that has yet to start again was launched for its past starts alone (`Waits`, `Pending`). That a rule ends after
    it starts needs that an edit was validated against the row it meets, which the number of edits tells (`Validated`). Without the condition on the start `TermsHold` fails (the mutant `AnyWrite`).
  * Purchasing: `OrderIsTrue` (`OrderTellsTruth`) and `StatusOnlyMovesOn` (`StatusMovesOn`). The invariant keeps what a request was begun with (`WellGrounded`), and
    what a receipt has counted: complete stays complete, because an amendment waits for the rows that the receipt locked; incomplete stays so unless another
    receipt was written, which the goods that came tell (`CountsHold`).
  * Warranties: `WarrantiesAreKept` (`WarrantiesKept`). Goods that came back while nobody was opening their link have a void warranty (`ReturnsVoid`), and whoever is opening one began before they came back (`OpenedInTime`).
  * Catalog: `CatalogDoesAgree` (`CatalogAgrees`). An object that is put is new to every row and request; what a request is going to name no other request names or took from a row (`Apart`), so no object
    of the store is without a row, a request or a failure that answers for it (`NothingLost`).
  * Defaults: `OneIsChosen` (`OneDefault`) and `ThemeIsKept` (the action property `ThemeKept`). A choice unsets what it saw chosen; what it did not see, and what a list, a fork or a move
    did not look for, is what puts a row beside another one of its branch (`ChosenAlone`, `SettledAlone`); a list of templates that is alone still finds what it found (`ListsAlone`).
  * Partners: `PartnersAreServed` (`PartnersServed`). A portal and the account there is agree (`Linked`), and an enabled portal has an account unless one has just been taken back (`Furnished`), but while they are astray; every attempt at a
    number failed because one more customer was there (`SignupInv`).
  * Forecast: `ForecastsRestOnThePast` (`ForecastsFromThePast`). The invariant says that the rows are those of the sales asked for, from the first day to the last, and the features those of the rows. Days are
    disjoint parts of the sales, so their sums add up (`RowsAreComplete`); a feature of a day is a sum over earlier days, so two histories that agree before it have the same
    (`FeaturesLookBack`).
  * Advice: `AdviceStaysNew` (`AdviceIsNew`). What is left out was read after the question; what the customer had when asking and has not given back is still there to be read (`PurchasesGrow`), so it is left out; the shop's list is filtered
    and cut from an order in which no product comes twice (`OnlyOfList`, `TopOfList`).
  * The composition: `BackOfficeIsSafe` states the safety invariants and action properties of the run of the composed specification (for `Services`, `ServicesAreSafe`). It is the theorems above by a lemma about focus,
    that `BackOfficeSpec` implies each service's specification without its fairness (`ServicesWorkTogether`).
  * The types, `BackOfficeTypeCorrect` (`BackOfficeTypeOK`): the invariants above type what their arguments need, and the last part of the file the rest. Not all of it is a matter of course: that an upload keeps its
    kind's fields follows from what each request may go on to (`UploadShape`), that a refused number counts no more customers than there can be from `SignupInv` (`SignupBounds`), that a warranty ends on a
    date from the arithmetic of months (`EndsOnDate`), and that the revenue of a day is an amount from the sum it is.

**Sums.** Money, points and revenues are `SumFunctionOnSet` of the community modules. The library's induction theorems take an operator, which the provers cannot instantiate, so
`Sums` does the induction by hand: if a statement about subsets of a finite set failed for one, it would fail for a smallest one (`SmallestBad`, from the well-foundedness of inclusion), and taking an element out of
that refutes it. From this follow that a sum does not depend on the order (`SumWithout`), changes with one place by as much (`SumChanges`), is monotone and additive, and is the sum over the parts of a
partition (`SumOfParts`); and what a sequence of places that each take what the earlier ones left takes together (`SumServed`), which is how repayments and refunds meet installments.

**Assumptions on constants**, besides those that say a bound is a number. Units, lines of a sale, sales, requests and goods are finite sets, as rows and open requests are. Each unit is of a serialized product
and a receipt writes one unit per piece, so the opening levels count the units in stock (`OpeningAssumption`); a transfer joins two different branches (`inventory.service.ts` refuses others). The operations of a batch are a finite set and not empty (`offline-sync.dto.ts:23`). A sale has
a line, with a positive quantity (`sale.dto.ts:53`, `:20`); of its prices nothing is assumed but that they are amounts. Installments are positive (`sale.dto.ts:36`) and add up to the balance to the cent
(`sales.service.ts:436`), except the one of nothing that the code makes of credit for less than half a cent. Dashboards use rows of the table. Promotions of one product have different priorities. The parts of a payment are no more than the total.
`"none"`, which stands for the column's null, is no barcode.

**Only model-checked**: the liveness properties `WorkerKeepsGoing`, `BatchesSettle`, `EveryQuestionAnswered` and `NothingForgotten`. **Out of the prover's reach**: liveness under fairness, `ENABLED`, and
what a `RECURSIVE` operator computes, of which no module here has one.

## 7. Where the code and its own words differ

| Run | The code | What it says |
|---|---|---|
| `double_receive` | two `receive` of one transfer both find it `IN_TRANSIT` and both raise the destination's level | `inventory.service.ts:378` "Only in-transit transfers can be received." |
| `store_credit_spent_once` | store credit is decremented without the condition that points have | `sales.service.ts:327` "The customer has insufficient store credit." |
| `last_super_admin` | a change of roles is not checked, and the count is made before the transaction, so two removals both find two | `users.service.ts:328` "The organization must keep at least one active super administrator." |
| `weekday_in_colombo` | the calendar takes `getUTCDay` of midnights of Colombo, which is the day before | `sales-data-extraction.service.ts:157` "Days of week and weekend indicators are properly computed in Colombo local time." |
| `today_counted` | a range of one day begins and ends at the same midnight, and the last day of a longer one is left out | `date-utils.ts:79` labels the answer with those days |

The same pattern of an early check is behind three more messages, which the exceptions of the properties account for: two returns of a line both fit (`returns.service.ts:243`
"Return quantity exceeds the remaining quantity"); points that paid for part of a sale come back as money (`returns.service.ts:264` "the refundable paid amount"); a proposal
approved after a receipt lowers the quantity below what came (`purchasing.service.ts:297`, by way of `supplier-portal.service.ts:256`), and may be a fraction
(`purchasing.service.ts:179` asks for whole numbers, `supplier-portal.dto.ts:32` does not).

The other races that exceptions account for: a unit that a transfer takes away while a till sells it; a credit sale whose customer's debt or limit changed; balances written from figures that a return or a repayment
changed; a slow second approval of an order; a role whose permissions were replaced between check and grant; a warranty whose link is opened while the goods come back, two policies made active at once; a default theme
given up on an outdated check; an edit that the start of its promotion overtakes. Where no run shows the race itself, the property says only that nothing else leads there.

Met while modelling, with no text to hold against them:

* Credit and accounts: a refund is not rounded before it is stored in four columns (`returns.service.ts:252`), so that balances may drift by half a cent with each, and an installment of which a fraction of a cent was left stays `PENDING`, or becomes
  `OVERDUE`, with nothing due while its agreement is `PAID`; a repayment by `STORE_CREDIT` lowers no store-credit account (`credit.service.ts:119`); a return takes back one point per hundred whatever the loyalty rule
  gave (`returns.service.ts:440`); `IdempotencyService` is injected nowhere.
* Users: a change of a role's permissions raises `sessionVersion` of its users and leaves their refresh sessions as they are (`roles.service.ts:112`), so that the next
  refresh goes on with the new permissions; `lockedUntil` is read and never set.
* Promotions, defaults: listing themes makes the theme named Default the default again when no other one is, undoing an unset; customer numbers compare as strings, so behind
  CUS-1000000 every creation is refused (`customers.service.ts:294`). A list of the default dashboards of a branch makes another default dashboard if the user's is of another branch (`dashboards.service.ts:58-65`, `:100-128`); an update of the branch
  and the fork of a shared dashboard do not look for the one there is. A promotion whose launch throws each time keeps the timer from delivering anything (`notification-worker.service.ts:46-47`). A launch again writes its event again; mails and
  messages that a customer had are skipped by their key (`:167`).
* Suppliers: an update takes back account and switch by two statements outside a transaction (`suppliers.service.ts:217-222`), so that a stop leaves the portal enabled without an account; create does it in one. The users service lists the
  portal's user like others and changes or deletes it, and the supplier is not asked.
* Warranties: `activate` ends by `setMonth`, which rolls over into the next month, while `calculateWarrantyEndDate` stops at its last day.
* Assistant and advice: the planner never passes identifiers, so recommendations for a customer, a product or a cart cannot succeed by way of the assistant. Two rules say who may use a tool: the registry,
  "authorized for this user" (`business-assistant.orchestrator.ts:28`), asks for every key of the tool (`tool-registry.service.ts:35`), the orchestrator, where it runs one, for some (`:82`). The route lets in only users with `dashboard:view`
  (`business-assistant.controller.ts:17`) and every tool lists that key, so the second rule refuses nobody, and a user without `customers:view` gets `CustomersTool` run, which the first would not list. No property is stated of it; a cart given by SKU is not left out of the fallback; a fallback may say `reorder_now` with quantity 0; `modelStatus` is
  always `connected`; a forecast starts from the last day with a sale; `buildFutureCalendar` is not called; loyalty's newest products may name what the customer bought.

## 8. Not modelled, and why

* *Branches*: single-row writes whose only rule is a unique index. *Reports, customer app, health*: queries (the app writes read marks only). *Idempotency*: a service nothing
  uses. *Deployment*: scripts that build, start and roll back containers.
* *Supplier portal*: `uploadInvoice` adds a row nothing else depends on. *Notifications*: templates, preferences, in-app rows, and the webhook, one idempotent upsert.
* *Auth*: customers' own sign-up, Google tokens, two-step codes and the throttle of attempts; tokens and passwords are cryptography.
* *Users, roles*: branch assignments; `roles.create`, which adds a role nobody has. *Catalog, organizations, storage*: the columns that are one row behind a unique index; the validation and
  reading of files.
* *Dashboards*: layouts and the templates users make. *AI intelligence*: demand features and the figures of the overview, which are sums; an overview error that names a
  model file counts as unavailable. *Assistant*: the queries of the tools other than sales, prompts and wording.
* The pure computations of prices, discounts and taxes.
