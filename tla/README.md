# A formal model of AcocosDB

AcocosDB is the sales, stock and production system of a small clothing maker: a
Django application on PostgreSQL, served by several Gunicorn workers, with a
scheduler process, two Telegram bots and a WhatsApp webhook next to it. Money
is kept in сом with two decimals, payments may come in three currencies, and
the stock is an append-only ledger of movements.

This directory holds TLA+ specifications of it, the TLC runs that check them on
small instances and the TLAPS proofs that hold for instances of any size. Paths
below are relative to the repository's root. `PROJECT.json` has the line-by-line
map from definitions to code, the runs, a mutation of the code for every
property, and the list of hazards.

    tlc -workers 2 -config SaleLedger.cfg MCSaleLedger.tla    # one run
    tlapm SaleProofs.tla                                      # one proof module

Contents: 1 the system, 2 the modules, 3 the runs and what they show,
4 bounds, 5 fairness, 6 proofs, 7 where the code and its words differ,
8 what is not modelled, 9 the plan.

## 1. The system

### 1.1 How requests run

There is no `ATOMIC_REQUESTS`: a view reads in autocommit mode, and a service
that is decorated with `transaction.atomic` opens its own transaction. The
database works at READ COMMITTED. So nearly every request is

1. the view's read of an object and the checks on it, unlocked;
2. the service, which may or may not lock the row and look at it again.

Whatever two other workers do fits in between. This is the main source of
hard behaviour in the code, and the models are built around it: a worker's
request is a record in `req` (or `form`, `run`, `call`, `tap`), filled by the
action that models what the view has read, and consumed by the service's action
later.

The cache (Redis with errors ignored, or per-process memory without Redis) is
outside of the transactions. Signals clear it inside of them. The session of a
seller is loaded whole when a request starts and stored whole when it ends.

### 1.2 Inventory

| Component | State | Operations | Interacts with |
|---|---|---|---|
| Sales (`apps/sales`) | sale rows: status, historical flag, total; lines; change log | confirm, cancel, return, historical confirm | writes stock movements; reads availability, which depends on open orders |
| Stock ledger (`apps/inventory`) | movement rows, cost prices | intake, write-off, count, bulk moves, `available_by_variant` | read under row locks by confirm and hand-over |
| POS draft and undo (`apps/pos`) | draft lines; undo and redo stacks and a pending token in the session | open a new sale, add, change, remove, clear, undo, redo, client; nightly clean-up | edits the rows that confirm reads |
| The till (`apps/pos/views.py`) | nothing of its own | live panel of a payment form, check and confirm, repay | confirms a sale, records its payment; reads rates from row and cache |
| Production orders (`apps/orders`) | order status, lines with produced quantity, linked sale, deposits | create, add, remove, deposit, produce, cancel, hand over | reserves stock; becomes a sale; files production |
| Payments (`apps/sales/services.py`) | payment rows (append-only, reversals), batch ids | pay, pay with change, pay oldest first, void, void a batch, deposit | balance of a sale; rates for foreign money |
| Manufacturing (`apps/manufacturing`) | production runs, expenses, contractor entries, cost prices | single run, batch grid, expense, contractor's operation, edits in the panel, audit | order lines (`mark_produced`), stock, rates |
| Personal expenses (`apps/personal`) | expense rows with tags | record, sum by tag | rates |
| Exchange rates (`apps/core`) | current rate per currency, cached copy, change log | daily refresh, owner's dialog, panel, delete | frozen into payments and expenses |
| Cached stock pages (`inventory/cache.py`, `reports/storage.py`, the grid of `pos`) | version number and pages in the cache | read through, bump by signal | every movement |
| Campaigns (`apps/campaigns`) | campaign status, a row per recipient, interactions | send, retry, re-run | client consent, weekly cap, messengers |
| Requests and alerts (`apps/inbox`) | client requests, stock alerts, the thread of a client | create under a limit, confirm, decline, notify on intake, answer by hand | production orders, stock movements, bots |
| WhatsApp (`apps/wa`) | hand-off time and consent per client, message log | webhook, automatic replies, typed orders, STOP | inbox, clients |
| Telegram bots (`bot/`) | a dialog per chat, in memory | contact, order request in two questions, free message | inbox |
| Clients and statements (`apps/clients`) | client rows, opening balance | statement, debts by currency, debtors | payments, sales |
| Dashboard and daily report (`apps/reports`, `apps/core`) | none of their own | sums over periods, sheets | all of the above, read-only |
| Sign-in (`apps/core`) | counters in the cache, failures and security events, one-time passwords | limit, lock out, sign in | cache |
| Scheduler (`scheduler.py`) | the next time it sleeps until | run the jobs of a time | rates, drafts, reports, backups |
| Backups (`docker/`, `backup_db`) | files with a stamp, a remote copy | dump, checksum, encrypt, sync, prune | — |
| Rendering, import, configuration | — | receipts, exports, charts, catalog import | read-only, or run by hand |

### 1.3 What is hard, and what makes each part correct

*Sales and stock.* Two confirmations of one draft, a return against a
cancellation, and a confirmation against a count all share rows. Correct means:
what the ledger says a sale took is what its lines say; a sale takes only what
is on hand and not promised to an order; it is confirmed once and closed once,
although `return_items` saves the status of an object that was loaded before
the lock. `SaleLedger`, `SaleLocking`.

*Draft and undo.* The cart is edited without locks while the same seller, or a
second tab, may confirm it; a double tap on the first item must not make two
sales; the clean-up looks at drafts in three statements. Correct means: the
lines of a confirmed sale never change except by a return, a cart holds what was
added to it, and a sale that was confirmed is never removed. `SaleLedger`,
`Drafts`.

*The till.* What the panel shows, what the check before the confirmation looks
at, what the confirmation freezes and what the payment records are four
computations at four moments, from a rate that lives in a row and in a cache.
Correct means: one payment per confirmation, risks acknowledged before they are
taken, change as promised, no excess nobody was asked about. `Checkout`.

*Orders.* Adding, removing, taking a deposit and cancelling trust the status
that the page saw; producing and handing over lock. Correct means: one order
becomes one sale of exactly its lines, never of somebody else's reservation;
nothing is produced beyond what was ordered; the client is told once; deposits
end up with the sale. `ProductionOrders`.

*Payments.* The amount is checked by the view and by the service, a split
repayment is allocated on an unlocked read, and change is handed back from the
same row. Correct means: no payment takes more than is owed without saying
so; a void undoes a payment and its change exactly once, a batch as a whole;
repayments over the same sales do not deadlock. `Payments`.

*Figures.* Nine places add up the same money, each in its own way: in the
currency of the sale or in сом, rounded per sale or per sum, with or without
historical sales, deposits, change and reversals. Correct means that they tell
one figure up to a known rest, that statements cut at any date fit together,
and that a change of rates or costs leaves the past alone. `Books`, `Figures`,
and for what is paid out `Spending`.

*Manufacturing.* A batch is many rows and one of them may count for an order
line that fills up meanwhile. Correct means: a batch is whole or absent, its
cost is neither gained nor lost to rounding, and the cost price is the last
absorbed cost. `Manufacturing`.

*Rates and pages.* A read-through cache, a signal that clears it or raises a
version before the commit, writers with different transaction layouts. Correct
means: no payment is frozen at a rate that never was, every rate is in the audit
trail, staleness ends, and a page is wrong only where a write overlapped its
making. `ExchangeRates`, `StockPages`.

*Messages to clients.* Long loops that can be killed at any point and are then
started again, over messengers that lose answers. Correct means: no duplicate
without a lapse behind it, the weekly cap, a history that tells the truth, an
end, and everybody who waits is told. `Campaigns`, `StockAlerts`.

*Messages from clients.* Webhooks are delivered at least once, to several
workers at once; the bot runs a task per update over one dialog. Correct means:
what is acknowledged is kept, bursts go quiet, a wish becomes one request with
one outcome and the quantity meant for it. `ClientChat`, `OrderRequests`,
`ClientBot`.

*Sign-in.* A counter that is read and raised in several steps, in a cache that
may be down and does not say so. Correct means that the excess over the limit is
bounded by what runs at once. `SignIn`.

*Nights.* A loop that picks the next time after the last job has ended, copies
that are pruned by the copies already pruned before. Correct means: nothing runs
twice for its time, what is lost has a reason, and every day that should have a
copy has one. `Nightly`, `Backups`.

## 2. The modules

Every operation is one action (or one per transaction step) with the code's
name where it has one; `PROJECT.json` maps each to its lines.

### Sales, orders, payments

**SaleLedger** is the abstract specification of the core: one database
transaction per step. State: `status`, `historical`, `lines`, `billed` (the
lines the stored total was computed from), `sold` and `onHand` (the two sums the
code takes over the movement rows: per sale and variant, per variant),
`reserved`, `req`. The movement rows themselves, receipt numbers, prices and
discounts are left out: no decision in these operations depends on them beyond
the sums. `Load` is the view; `ItemAdd`, `ItemRemove`, `Restore` the cart;
`Confirm`, `Cancel`, `Return` the services; `Receive`, `WriteOff`, `Recount`
the stock forms; `Promise` every effect of orders on reservations;
`HandOver` the order that becomes a sale. `OverlappingEdits` says whether cart
edits may overlap other requests on their sale. Nothing in the code prevents
it. With FALSE the run and two theorems state what holds for one careful user
per draft, with TRUE run `sales_undo` shows what goes wrong; `StatusAdvances`,
`NothingHeld` and `NoOversell` are proved for both.

**SaleLocking** extends SaleLedger with the statements inside the services:
`LockSale`, `ReadItems`, `LockVariant` row by row in the default order of the
model, product, size and color (`Rank`), `ReadStock`, `ReadReserved`, and the
commits. Locks are sets of holders, so that a missing lock shows as two holders
and not as a type error. Foreign keys count: a movement or an order line waits
for a locked variant (`FOR KEY SHARE` against `FOR UPDATE`), and that, not a
check, is why an intake or a promise cannot slip between a confirmation's reads
and its commit. The keys of a cancellation or a return are checked at commit, one
after the other (`ShareVariant`). The locking query is sorted by the product's
name, so it joins the products and locks their rows too (`LockProduct`), which
makes rings of waiting transactions possible: `Abort` is the database breaking
one. Its property `ServicesAreAtomic` is SaleLedger's `Init /\ [][Next]_vars`:
the identity refinement that licenses the one-step services everywhere else.

**ProductionOrders** has the orders, their lines, deposits and the sale each
becomes. `mark_produced` is two actions, because it locks the line, then the
order, and its decision about "ready" is made between. `Reserved`, `sold` and
`onHand` give the refinement mapping: `ImplementsLedger == Ledger!Spec`, where
`Ledger` instantiates SaleLedger with the reservations derived from the open
orders. So the claim that SaleLedger's `Promise` and `HandOver` stand for
everything orders do is itself checked. **MCProductionOrders** puts two
instances into one run: with `focus = "overlap"` two orders for one variant and
every overlap, with `focus = "alone"` one order of two variants whose unlocked
requests are alone with it, which is what the properties about deposits and
about the ready status need.

**Payments** keeps the payment rows as a sequence in primary-key order; what a
sale is owed is computed from it as the code does. `record_payment` is one step
after `LoadSale`, because it holds the sale's lock throughout;
`pay_oldest_first` is `Allocate`, one `PayRow` per sale and `CommitOldest`;
voids are lock and commit. One currency, whole units of money. `Deposits`
selects whether deposits occur, and whether they may be voided before the
hand-over.

**Drafts** is how a cart comes to be: `OpenPage` puts a token into the session,
the first tap (`FirstTap`, `GetOrCreate`) makes the sale or finds the one with
that token, `ReadCart` and `WriteCart` are `item_add`'s read and write,
`SaveSession` stores the whole session again. `Select`, `Collect` and `Delete`
are the three looks of `cleanup_draft_sales`. The cart of a production order
fills by the same statements, without the limit.

**Checkout** is one sale and its payments in two currencies: `DebtPayRecalc`
and the panel (`Preview`), `SaleConfirm` with the checks (`Passes`),
`ConfirmSale` with the frozen total, `Record` with the excess, the change and its
rounding. `SetPrice`, `TabStarts` and `TabStores` are the cart and its client in
another tab, `SetRowRate` and `RateAges` the two copies of a rate.

### Figures

**Books** keeps the rows that reports read: sales with frozen rate and cost,
payments with theirs, an opening balance, and the live rate and cost price.
Services run one after the other here; their interleavings are the subject of
the modules above. Amounts are integers in the smallest unit and rates are
halves, so that all three roundings of the code (up for totals, half even for
stored amounts, none in SQL) have something to round.

**Figures** extends it with the queries, each written as the code computes it:
`Debts`, `Statement` with its grouping of batches (`GroupOf`), `DebtsRow`,
`Metrics`, `CalendarDays`, `TopProducts`, `Channels`, `Methods`,
`DashboardSheets`, `SalesSheet`, `TotalsSheet`, `Snapshot`, and the recomputation
of `audit_stale_totals`. It has no actions; its properties relate figures that
must agree.

**Spending** is what is paid out: expenses, contractors' operations, personal
expenses and single production runs with their frozen rates, edits of currency
and date in the panel, the figures by section, category, tag and contractor, the
statement of a contractor, the cost gap, and the audit's verdict on a row.

### Production, rates, pages

**Manufacturing** is the batch grid: `Post`, one `FileRow` per row in grid
order, `Commit` or `RollBack`, and the plain `Produce` on the same order line.
Rounding is the code's (`ROUND_HALF_UP`, shares rounded one by one, the last row
with goods takes the rest).

**ExchangeRates** is one foreign currency: three writers (refresh and dialog:
row first, audit row in a second transaction; panel: both in one), the signal
that clears the cache, `Get`/`Load`/`Fill` as separate steps of a reader, and a
payment that freezes what it read. Redis may fail at any call (`RedisFails`).
The variant without Redis, with one memory cache per process, is not modelled.

**StockPages** is the catalog's version: `WriteRow`, `BumpAdd` and `BumpIncr`
(the signal's two calls), `CommitRow` or `Rollback`; `ReadVersion`, `Look` and
`Store` of a reader; expiry and eviction. A page is modelled by the number of
committed rows it was computed from, and the figures of storage, tiles and the
picker are operators of that number.

### Clients

**Campaigns** is `send_campaign`: `Start` (quiet hours, audience), `Pick`,
`Send` with the answers a messenger can give, `Wake`, `Note`, `Save`, `Finish`,
and `Kill` anywhere. `delivered`, `lapses` and `together` are history variables.

**StockAlerts** is `notify_back_in_stock` after an intake: one list of those who
wait, then per alert a message (`SendPing`) and a row that is marked (`Mark`),
killed anywhere. Asking is a query (`Find`) and an insert under a partial unique
constraint (`Ask`).

**OrderRequests** has the requests of clients: `Count` and `Insert` of one
transaction that locks nothing, `Open`, `Confirm`, `Decline` and `Reject` of the
staff, `Tell` after the commit, `Kill` before it. **ClientChat** extends it with
a webhook call, statement by statement (`Deliver`, `Log`, `Note`, `Burst`,
the choice of an answer, `Wish…`, `Reply`, `Ack`), redelivery after a kill or an
error, the manager who takes over, and time in ticks of the burst window.
**ClientBot** is the dialog of one Telegram chat with tasks that interleave at
database calls.

### Around it

**SignIn**: the probe and the four calls of the rate limiter in the cache
(`Get`, `AddKey`, `Incr`, `SetKey`), outage and expiry of the cache, the lockout
by account and address, password and code. **Backups**: a cycle as `Dump`,
`Checksum`, `Encrypt`, `Sync`, `Prune`, with `Misses`, `Fails` and `KillCycle`,
for the backup service or the scheduler's snapshot (`job`). **Nightly**: `Pick`,
`Wake`, `RunCommand`, `Finish`, `Stop`, `Start`, and what the daily report, the
security digest and the purge do to what has happened.

### Compositions and conventions

    SaleLocking      ==refines==>  SaleLedger  <==refines==  ProductionOrders
    (statements, same state)                                 (orders, derived state)
    Payments       sees sales as status and total; deposits arrive by CarryOver
    Manufacturing  shares the order line (produced) with ProductionOrders
    Checkout       confirm_sale and record_payment as one till sees them
    Figures        EXTENDS Books          ClientChat  EXTENDS OrderRequests

The **MC** modules extend these with inputs and symmetry sets. Where components
meet only in rows that each module has for itself, an MC module puts several
side by side with a constant variable `focus` that selects the one a behaviour
shows: the state space is the sum of theirs, not the product, and a property
`OfficeTill == focus = "till" => TillKeepsWord` is about that module only. They
do not claim anything about interleavings of two such components.

**SaleProofs** (the ledger and its statements), **ProductionOrdersProofs**,
**PaymentsProofs**, **ManufacturingProofs** (batches and what is paid out),
**CacheProofs** (rates and pages), **MessagesProofs** (campaigns and alerts, requests,
conversation, bot) and **OfficeProofs** (sign-in, backups, the night, carts, the till)
extend their modules, or the MC module that puts them side by side, with theorems.
**SumsProofs** has the lemmas about sums over finite sets that most of them need. Definitions marked
`mutant` are plausible mistakes in the definition that follows them; no
specification uses them, they exist to see that each property notices.

## 3. The runs and what they show

Every property of a passing run has a mutation in `PROJECT.json` that breaks
it: a dropped guard, a missing lock, a stale read used in place of a fresh one.
Several properties are conjunctions of named parts; the module gives each part
its own comment.

| Run | Modules | Shows |
|---|---|---|
| `sales` | SaleLedger | What the ledger took for a sale is its lines (`LedgerMatchesLines`), the stored total is the total of its current lines (`BilledMatchesLines`), sales take only what is available, the lines of a confirmed sale change only by what comes back. |
| `sales_undo` | SaleLedger | *Violation.* Undo that overlaps a confirmation rewrites a confirmed sale (7.1). |
| `locking` | SaleLocking | The services are atomic (`ServicesAreAtomic`, a refinement of SaleLedger), what they read under their locks stays true until they commit (`LocksHold`), and confirmations that sell no two variants of one product never deadlock. |
| `orders` | ProductionOrders | With every overlap of requests: orders refine SaleLedger, nothing is produced beyond the order, the client is told once (`MakingHolds`), an order becomes one sale and two orders never the same. With unlocked requests alone on their order: deposits go to the sale (`AloneDeposits`), a delivered order stays what was sold, and an order whose lines are all made is ready, even if two workers made the last two at once (`AloneOrders`). |
| `orders_closed` | ProductionOrders | *Violation.* A cancellation turns a delivered order into a cancelled one (7.2). |
| `payments` | Payments | Payments settle by what is true when they are written, repayments take from each sale at most its debt and finish, voids happen once and wholly. |
| `pay_deposit` | Payments | *Violation.* A voided deposit still counts after the hand-over (7.3). |
| `production` | Manufacturing, Spending | Batches are whole, costs add up to the last tyiyn, batches do not block each other (`BatchesFiled`), cost prices are the last absorbed cost (`BatchPrices`). What is paid out adds up in every period and by every key, a contractor's statement closes on the balance at any cut, a rate the currency never had is listed by the audit (`MoneySpending`). |
| `rates` | ExchangeRates, StockPages | No rate that was taken back is frozen, the audit trail is complete, a stale cached rate goes away. A page of stock is behind only where a write overlapped its making, its parts explain each other, a tile promises no more than there is (`CachePages`), and pages catch up. |
| `campaigns` | Campaigns, StockAlerts | Duplicates have a lapse behind them and the history is true (`CampaignsSent`), the weekly cap, runs that end. A waiting client has one row, is told no more often than intakes and kills explain, is never marked untold (`AlertsSent`), and is told in the end. |
| `inbox` | ClientChat, OrderRequests, ClientBot | What is acknowledged is in the inbox, a typed order is kept or a person has the conversation, a burst gets two replies at most (`InboxKeeps`). The limit of open requests is missed by at most those created at once, a request has one outcome (`RequestsHold`). A question is answered for the variant it was asked for and makes one request (`BotAnswers`). |
| `office` | Figures, SignIn, Backups, Drafts, Checkout, Nightly | Statements close on debts, slices join, batches are one row, debts have sales (`OfficeStatements`); one debt and one revenue in all reports (`OfficeReports`); a closed past stays (`HistoryStands`); limits of the sign-in (`OfficeSignIn`); retention (`OfficeBackups`); carts (`OfficeCarts`); the till (`OfficeTill`); the jobs of the night (`OfficeNights`). |

Some properties deserve a word, because they state less than one would like.

*`ConfirmsNeverDeadlock`.* The ordering of `ProductVariant` is product name,
size, color. It is not unique, and it brings the product's row into the query
and under its lock. A sale of variants 1 and 2 of one product locks 1, the
product, 2; a sale of variant 2 locks 2, the product. They can wait for each
other, and so can a cancellation whose foreign keys are checked in the order of
its lines. PostgreSQL aborts one, its user sees an error page, nothing is
written. What the code does ensure is stated with these cases set apart, and
that an abort does no harm is part of `ServicesAreAtomic`.

*`WeeklyCap`.* An audience is decided before its messages are sent, so the cap
is exact only while no two runs go on at once; the property bounds the excess by
the number of other runners. The same kind of bound is in `OpenWithinLimit`
(requests), `LimitHolds` (sign-in) and `PingsAccounted` (alerts): each counts
what was at work at the same time, and allows no more.

*`OneDraftPerVisit`.* A double tap makes one sale if both taps found the token
in the session; a tap that starts after the other has stored its session makes a
second sale. The property says the first, and section 7 the second.

*`HistoryStands`.* Metrics, calendar, channels and statements up to a day that is
over do not move when a rate, a cost price or a payment does. Returns,
cancellations and sales entered after the fact move them on purpose
(`Rewritten`). Payment methods are left out: they move when a payment of that
period is voided later.

*`PaymentIsKept`.* `sale_confirm` checks, confirms and pays in separate
transactions. A confirmed sale without its payment is possible; the property
lists the only ways it comes about.

## 4. Bounds

* *Two sales, two orders.* Interference is through shared rows; one other sale
  or order is enough to take a unit, a reservation or a lock away. `sales` has
  three workers, so that two confirmations and a return can overlap, the others
  run two.
* *One or two units, one variant* where variants are independent; two in
  `locking` and for the order that is alone, where the order of locks and the
  last two lines matter. Availability is a comparison, so short, exact and plenty
  are all there (`MaxStock`, `MaxShort`, `MaxReserved`).
* *Money in Payments*: a total of 3 and payments of 4 with a tolerance of 1 give
  an exact, an excessive and an almost settled payment; four payment rows are
  room for a repayment over both sales and the void of both.
* *Books*: three sales (two of a client in a foreign currency, one of a passer-by
  in сом), four events in two days, rates of one and a half and two and a half
  сом, which leave halves to round. Four events are room for a confirmation, a payment, a change of the rate
  or the cost, and a void, a return or a repayment after it.
* *Checkout*: eight forms, chosen so that each refusal and each warning occurs and a
  rate is left behind in a form whose currency has changed,
  two requests, and one edit of the cart or a rate.
* *Manufacturing*: three variants, grids in which the order's line is first, in
  the middle, alone or absent, cost 5 that does not divide by the weights, three
  runs in the database. The worst rounding needs four rows (section 7).
* *Spending*: dates before, on and after today, three rows, two production runs,
  two changes of rates or corrections by hand, one foreign currency that has no
  rate at first.
* *Rates*: 100 and 120, so that a refresh may be beyond the 10% bound of what was
  typed. *StockPages*: two rows, two writers, one reader, one eviction: a page is
  stale if one write overlaps its making, the second write is what repairs it.
* *Campaigns*: one client, a cap of one in a week of two half days, four half
  days, one unrecorded delivery in a run of the model. Clients only share the
  order in which a run meets them. *StockAlerts*: two clients, two intakes, one
  kill.
* *Inbox*: a limit of one open request and three requests, so that it can be
  missed by one and no more; two messages, two webhook workers; two staff; two
  tasks over one dialog.
* *SignIn*: a limit of one and three posts by two workers; *Backups*: thirteen
  cycles over all three tiers of retention, one kill and one step that goes wrong;
  *Drafts*: two taps at once, four pages and taps in all, one night; *Nightly*: four jobs,
  three of them at one time of day, two days, one restart, one failure.

Symmetry is used for model values only, and only in runs without liveness. The
deadlock check is on everywhere but in Payments, Manufacturing, MCInbox and
MCOffice, where the bound on rows, messages or events stops the model when the
tables are full.

## 5. Fairness

Fairness is assumed only of steps that the program takes by itself.

* `Payments`: a worker commits a repayment that it has locked (WF) and, if a
  row it waits for is free again and again, gets it (SF). PostgreSQL queues
  waiters per row, which is stronger. No user has to do anything.
* `ExchangeRates`: a worker takes the next step of a request it has begun, and a
  cached value expires (the code stores it for an hour). Nobody has to ask for
  anything; `StaleRatesExpire` is conditional on writes coming to an end.
* `StockPages`: a writer and a reader finish what they have begun, and time
  passes, so that pages expire. The number of rows is bounded, so writes end.
* `Campaigns`: a runner takes its next step. Being killed ends a run too, and
  nobody has to start it again.
* `StockAlerts`: a notifier goes on with its list until it is killed. Nobody has
  to ask and nothing has to come in: `WaitersHear` is about those a notifier has
  on its list.

The other modules make no liveness claim: their steps are requests of people.

## 6. Proofs

All theorems hold for any sets of sales, variants, workers, orders, rates,
clients, requests and messages and any value of the bounds. They assume only the
named assumptions of the modules (`LedgerAssumption`, `RankAssumption`,
`OrdersAssumption`, `PaymentsAssumption`, `ManufacturingAssumption`,
`SpendingAssumption`, `RatesAssumption`, `PagesAssumption`,
`CampaignsAssumption`, `AlertsAssumption`, `RequestsAssumption`, `ChatAssumption`,
`BotAssumption`, `SignInAssumption`, `BackupsAssumption`, `NightlyAssumption`,
`DraftsAssumption`, `CheckoutAssumption`), which TLC evaluates in the runs. Most of what these say is that a
number is a number. Some say that a set is finite, because what the theorem bounds
is a count or a sum over it: rows of a table, the processes of a server, the
variants of a model. A
webhook call is about one client; an order has at least one line to put things on.

**SumsProofs**

The models write sums with `MapThenSumSet`, a fold in an order that `CHOOSE` picks.
The library's induction theorems take operators as parameters and cannot be used
here, so induction is in set form: `EveryNumber` and `EverySubset` say that a set
of numbers, or of subsets, that is closed under adding one has them all, and a
property is given to them as the set of those that have it. They rest on
`LeastOf`, which is well-foundedness of the numbers. `SumIsFold` unfolds the
recursion once and for all; from it `SumRemove` (the order does not matter), `SumUnion`, `SumAtMost`, `SumBound`,
`SumChange`, `SumTwo` and `SumGroups` (a sum is the sum of the sums of its groups).

**SaleProofs**, of `SaleLedger` first, one transaction per step

* `TypeCorrect`: `Spec => []TypeOK`. It is inductive by itself; the step that
  needs care is a return, whose lines stay natural numbers because the check
  under the lock compares them with what comes back.
* `StatusAdvances`: `Spec => StatusOnlyAdvances`. The property is about single
  steps, but it needs the history of a request: `return_items` writes the status
  its view saw. `LifeInv` adds to the types that a return in flight has seen
  "confirmed" (`SeenConfirmed`) and that a historical sale is confirmed or
  cancelled (`HistoricalIsClosed`). With the lock's check that the sale is still
  confirmed, the write changes nothing or cancels.
* `NothingHeld`: `Spec => []NothingHeldUnconfirmed`, with `HeldInv`, which is
  `LifeInv` and the property itself.
* `LedgerMatches`, and `BilledMatches` from it: without overlapping edits,
  ledger, lines and stored totals agree. `LedgerInv` adds `EditsAlone`: an edit
  in flight belongs to a draft that no other edit and no confirmation is working
  on. This is exactly what the code does not ensure by itself, and why the
  theorems have an assumption; `sales_undo` shows that it cannot be dropped.
* `ConfirmedOnlyReturns`: under the same assumption
  `Spec => ConfirmedLinesOnlyReturn`. `ReturnShrinks` is the arithmetic of a
  return, `OthersKeepLines` uses `EditsAlone` for the edits: they are on drafts.
* `NoOversell`: `Spec => SalesTakeOnlyAvailable`, from types alone: a step that
  raises what a sale holds is a confirmation or a hand-over of a sale that is
  not historical, and its guard is the property.

**CacheProofs**

* `RateInv` strengthens the types by `StepsFit` (which steps a request goes
  through, and that a writer has a rate unless it deletes) and `OnRecord`:
  everything that is in the row, in the cache, read by a request or frozen has
  been on record; only what a writer is about to commit has not. The last part is
  why clearing the cache before the commit is harmless: the reader that refills
  it can only find a committed row.
* `TypeCorrect`, `FrozenRates` (`Spec => []FrozenWasOnRecord`) and
  `AuditComplete` (`Spec => []EveryRateLogged`) follow from it, the last with a
  step lemma: a rate that is new to the record came with its audit row (panel) or
  with a writer whose old rate differs from it, because the old one was on record.
* `PagesAreTrue`: `PSpec => []PagesTrue`. `PageInv` adds to the types that there is room
  for the rows being written and a version for each (`RoomForRows`), and `Fresh`:
  while the cache has lost nothing, no page or reader is ahead of the version, and
  what is found or will be stored under it is current (`Current`: nothing but order
  lines came after its rows, and no writer has raised the version already) or was
  overlapped. A reader that stores late is the hard case: it stores under the
  version that it read first. The columns of the storage report and what a tile
  promises are sums over rows; they need no invariant, only `SumGroups` and its like.
* `CacheShowsTruth` and `CacheKeepsRates` say the same of the instance that is checked.

**MessagesProofs**, first of what comes in

* `RequestsAreKept`: `RSpec => []RequestsHold`, for any finite set of processes
  that create requests. `OutcomeInv` adds `TellsOnce` to the types: a worker who is
  about to tell a client does so of a request that is handled, that nobody has
  told of yet, and that no other worker is about to tell of. Confirming and
  declining go by a row that is still unhandled, which is what makes the worker
  the only one.
* `LimitInv` is the counting argument behind `OpenWithinLimit`: a client's open
  requests and those about to be inserted are together at most the limit and one
  less than the processes. Counting adds one to a number below the limit,
  inserting only moves one from the second group to the first. This is the exact
  price of a count without a lock.
* `ChatKeepsRequests`: `CSpec => []RequestsHold`. A webhook call changes requests
  only by the steps of a creator, or by being killed (`ChatMakesRequests`,
  `KillKeepsRequests`), so the invariants carry over.
* `AcknowledgedIsKept`: `CSpec => [](AckedIsInInbox /\ WishIsKept)`. `MailInv` adds
  `CallsAreAbout`: what has become of a call's message by each of its steps, that
  is, from which step on it is logged and has been answered with a request or a
  person. Kills and redeliveries keep it because all of it only grows.
* `InboxIsKept`: `CSpec => []InboxKeeps`, with `BurstInv` for the part about bursts.
  A reply is logged before it is sent, so for every age up to the window, either as
  many messages as make a burst are logged, or the replies so far and the calls
  that may still reply are no more than the messages (`RepliesLogged`); a call that
  finds a burst replies no more, so replies and calls that may reply are together
  fewer than the threshold (`RepliesFew`). Time moves every message and every reply
  one age on, the call that has counted stays with what it has seen.
* `BotKeepsToItsQuestions`: `BSpec => []BotAnswers`. `BotInv` counts each question as a
  request, a task that files one, or the open dialog (`EachAsked`), and keeps a
  quantity with its variant (`OfItsVariant`).
* `InboxHolds`: the three of them in the instance that is checked.

**MessagesProofs**, of what goes out

* `OutgoingAlerts`: `OutgoingSpec => []AlertsSent`, from `AlertsAreAccounted`, for any finite
  set of workers. `RowsInv` has the types and the order of the rows, `WaitsInv` the constraint and
  that a mark follows its message. `PingsCounted` is the counting argument: the
  messages of an alert are at most the workers that are done with it plus those
  whose mark a kill took away; a worker sends one only for an alert that is still
  on its list, and is done with it afterwards. Nothing in the code locks here,
  so this is the best there is.
* `OutgoingSentOnce`: `OutgoingSpec => []CampaignsSent`, from `CampaignsSendOnce`.
  `TurnsInv` fits a runner's step to the recipient it is at: who is about to note has
  delivered, who is about to save a success has noted (`RecordsFollow`). `OnceInv` counts:
  while the runs of a campaign do not overlap, a client who is not marked as sent has
  been delivered to as often as there were lapses, and once more only between
  delivery and record.
* `OutgoingCapped`: `OutgoingSpec => []CampaignsCapped`, from `CapIsKept`. `CapInv` adds to
  what a client has been sent this week the runs that have him on their list
  (`Holding`); together they exceed the cap by no more than the other runners.
  Starting a run is what checks the cap, and adds one runner to the count.

**SaleProofs**, of `SaleLocking`, statement by statement; the first three theorems
assume, like `LedgerMatches`, that cart edits do not overlap other requests on their
draft

* `ReadsHold`: `LSpec => []LocksHold`. `LockInv` is `LTypeOK`, the invariant of
  the one-step ledger (`LedgerInv`), one holder per lock (`OneHolder`), and for
  every worker what its transaction can be by its statement (`TxFits`): it owns the
  row of its sale, whose status is still the one that the service found under the
  lock (`Owns`), and each of its reads is still true (`ReadsFit`). The lemma that
  does the work is `Undisturbed`: a step of somebody else keeps what a worker has
  read, because it would need a row that the worker holds.
* `ServicesAtomic`: `LSpec => ServicesAreAtomic`, the refinement. The last statement
  of a service is SaleLedger's step, by the reads that still hold; all others
  stutter.
* `StatementsKeepLedger`: so `LedgerMatches` and `NoOversell` hold of the statements.
* `NoRingOfConfirms`: `LSpec => []ConfirmsNeverDeadlock`, with or without overlapping
  edits. `OrderedInv` says that a worker holds a beginning of its rows in their order,
  each with its product before the next. A worker that waits is at a place, twice
  the rank of the row it wants and one more if it has the row and wants the product
  (`Place`). Whoever it waits for is further along (`WaitsForFurther`), so of those who
  wait the one at the greatest place waits for nobody. That is where the finite set
  of variants is needed, and where the property sets two variants of one product
  apart.

**ProductionOrdersProofs**

* `MakingIsSafe`: `Spec => [](LockedCheckHolds /\ AnnouncedOnce)`. `LineInv` adds
  that one worker at a time makes units of a line (`OneMaker`), which is the lock of
  the line: what another request may do to it meanwhile leaves the check true.
  `NotYetTold` is the strengthening for the announcement: nobody has been told of an
  order before it is ready, and no step leads from ready back to where an order can
  become ready again.
* `HandOverIsOnce`: `Spec => HandedOverOnce`, with `SoldIsClosed`: an order that
  became a sale is delivered or (the disagreement of `orders_closed`) cancelled,
  never open. So the overlap that can save it as cancelled cannot sell it twice.

* `MakingAlwaysHolds`: `Spec => []MakingHolds`. That is the above with the types, of
  which the stock's are the hard ones: `StockInv` bounds what is on hand by what
  other movements bring and what the lines have made, a sum (`Made`) in which a deleted
  line counts for the most it can have made.
* `OrdersKeepTheLedger`: `Spec => ImplementsLedger`, the refinement, for every overlap.
  What is reserved is a sum over the lines of open orders. Producing leaves every
  summand (`SameRows`) and takes stock in; a hand-over closes one order, so the sum
  splits in two (`ReservedSplits`) and SaleLedger's `HandOver` finds its cart inside of
  the reservation; everything else is a promise. That the sale taken has no lines
  and is nobody's is in the guard, that the order had none is `SoldIsClosed`.
* `DepositsCount` and `OrdersAreComplete`: `FocusSpec => []AloneDeposits` and
  `[]AloneOrders`. `AloneInv` says what being alone is good for: what a request has read
  is still there when it writes (`RequestsFresh`), and there is one order. Locked
  requests need none of this for themselves; but an edit under their feet would
  break the properties, which is what `orders_closed` and section 7 are about.

**PaymentsProofs**

* `PaymentsInvariant`: `Spec => []PaymentInv`. The rows fit together (`RowsFit`: a reversal
  is younger than what it reverses, a batch has the key of its first row), there is
  room for what requests in flight will still write (`RoomKept`, a sum over workers),
  a repayment has one row per sale at most, and every request fits what it has
  locked (`RequestsInv`): while the sale's row is held, what was read of its balance is
  true of the rows, although rows of others are appended to the same table.
* `BatchesKept` (`[]BatchesHold`) follows with the lemmas about balances: `NetSum` of a
  table that one row is appended to.
* `PaymentsAreSettled`: `Spec => PaymentsSettle`, an action property, from the same
  invariant and one lemma per way of paying.
* `VoidsCountNothing`: as long as no deposit is voided before its hand-over,
  `Spec => []VoidedCountsNothing`. `VoidInv` adds that only payments of sales are reversed
  (`SalesOnly`) and that what a sale was paid is the sum over the rows that are neither
  reversed nor reversals. The condition is the one that `pay_deposit` shows to be
  needed.

**ManufacturingProofs**

* `BatchesAreFiled`: `MoneyOutSpec => []BatchesFiled`. `BatchInv` says of every batch in
  flight that what it has filed are its first rows in grid order and that the line
  still needs what the batch makes for it (`FormFits`), and that one batch at a time
  has the line's row. That the ledger has what was typed is arithmetic
  (`SplitShares`): the shares before the last are each off by half a tyiyn at most, so
  the last is not below zero if the cost is at least half a tyiyn for each piece and
  row (`CostsCoverRounding`, the theorem's hypothesis, true of the instance and of any
  real batch; section 7 has what happens below it). `SavedRuns` places the rows of a
  commit behind all others, so batches keep apart. No two batches wait for each other:
  of those under way, the one whose next row is furthest in the grid waits for nobody
  (`SomeGoesOn`).
* `PricesAreLast`: `MoneyOutSpec => []BatchPrices`, for any cost.
* `SpendingAlwaysHolds`: `MoneyOutSpec => []MoneySpending`. `SpendInv` has the types, of
  which those of the rows say the most (`GoodRows`): a som row has the rate 1, a
  foreign one whose currency nobody changed has a rate that was on record once, or 1;
  rows, cache and what a slow request is about to store are all within what was on
  record (`RatesKnown`). `PriceByRun` adds that the cost price is that of the last
  costed run unless a hand set it. From it the audit and the cost gap follow. That
  figures add up needs sums only: every figure of a period is the worth of a set of
  rows, and the sets part or meet as the figures do (`WorthOfCategories`, `UnitsAddUp`
  through `SumGroups`). A statement closes because what comes before its last row, by
  date and then by order of filing, is all of it (`LastIs`).

**OfficeProofs**, one part after the other, each of the instance that is checked

* `DoorHolds`: `OfficeSpec => []OfficeSignIn`, for any limits and finite sets of workers,
  accounts and addresses. `SignInInv` has the types and three counts. `KeyCounts`: the key
  holds what was let through and not lost, and as long as the cache answers, the key
  and the requests that have still to raise it are together at most the limit and the
  number of other workers: a request that has read it below the limit is one, and
  one that wrote late has raised what is lost by as much. `DoorCounts` is the same for
  those let in while the cache was gone, `GuessCounts` for wrong passwords behind the
  lockout's question.
* `CopiesAreKept`: `OfficeSpec => []OfficeBackups`, for any tiers, horizon and number of
  cycles. `BackupsInv` adds to the types what a cycle has of its own copy by its step
  (`OwnCopy`), that half a copy is being written or was killed (`Halves`), and where a plain
  dump may be (`PlainLeft`). The work is in `NothingIsUncovered`: that what is pruned leaves
  every day and week its copy is a fact about retention at one time, and it has to go on
  being true while the days that count move on.
* `NightsAreAccounted`: `OfficeSpec => []OfficeNights`, for any list of jobs. `NightInv`: a
  sleeping scheduler sleeps to the next time on the list and for all of its entries
  (`SleepsToNext`), what was begun was due, once, and is not left to do
  (`BegunBefore`), what was due was begun, is left to do, or came while the scheduler was at
  work or down (`DueAccounted`), and a report has the sales of its day so far
  (`RunsTell`). Dates are quotients; `DayTicks` is any positive number.
* `CartsAreKept`: `OfficeSpec => []OfficeCarts`. `DraftsInv` bounds lines, and what a tap is
  about to write, by the stock (`WithinStock`) and their number by the workers
  (`FewLines`). That a cart never holds more than was added needs a mark for each line,
  the most it can have held, so that a write that is late overwrites no more than
  that (`NeverMore`); without overlap the two are equal (`Exact`). Why two taps of one page
  make one sale: no two drafts have one token (`TokensApart`), the token of a draft that is
  still in the session is about to be taken out of it (`Settled`), and what a page or a
  request holds of an older draft is nothing (`OldUnheld`, `QuietUnheld`); all of this only
  while no session was stored over a newer one (`revived`).
* `TillKeeps`: `OfficeSpec => []OfficeTill`, for any forms, prices and rates. `TillInv` says that
  one request confirms (`OneSells`), that a panel nobody has moved under shows what
  would be computed now (`PanelInForce`), and what a request may rely on between its three
  transactions (`ChecksInForce`): if nothing was moved, it is still what was checked, its
  sale is frozen at the rate of the check, and nobody has paid. The rest is arithmetic:
  a total is rounded up and the balance of a draft to the nearest, so that they differ by
  one at most (`PreviewIs`), and the change, cut to multiples of `Step`, is what was
  promised or one step less (`FloorsNext`).

Each invariant is proved in the same way: the initial states satisfy it, one
lemma per group of actions shows that it is kept, and temporal logic combines
the two.

Only model-checked: `OfficeStatements`, `OfficeReports` and `HistoryStands`, and all
liveness, which needs fairness and is beyond the prover. The
figures rest on orders by date (`SetToSortSeq`), of which the library says nothing for
sales of one moment, and on sums over rows whose batches the books do not keep apart
by anything but their numbers.

## 7. Where the code and its words differ

With a run that shows it:

1. `apps/pos/undo.py:11` says that nothing there can touch a confirmed sale.
   `_restore` rewrites the lines without looking at the status again (`sales_undo`).
2. `cancel_order` refuses closed orders, by the object the view loaded
   (`apps/orders/services.py:447`): an order handed over meanwhile is saved as
   cancelled, its sale stays (`orders_closed`).
3. A deposit that was voided before the hand-over is linked to the sale without
   its reversal (`apps/orders/services.py:432`) and still counts (`pay_deposit`).

Met on the way, without a run of its own. The models contain the behaviour; the
properties are stated so that they hold in spite of it.

*Sales, drafts, the till*

* "Race-safe against a double-tap" (`apps/pos/views.py:721`) holds only if both
  taps loaded the session before either stored it. The session is stored whole,
  so a token that was used can come back with an older copy of it, contrary to
  `apps/sales/models.py:113-120`; and `get_or_create` does not look at the status
  of the sale that it finds.
* The check of `sale_confirm` reads the rate's row, `record_payment` freezes the
  cached copy. The check does not look at an adjusted change, nor at change in a
  currency that cannot be reckoned: the sale is then confirmed and its payment
  refused, though the comment says "the pre-check above should already have caught
  this". The balance of a draft is rounded half up and the total up, so change can
  be a step less than the panel has promised.
* `record_payment` computes the excess "from the SINGLE source of truth … so preview
  and confirm can never disagree" (`apps/sales/services.py:476`), which reckons сом as
  сом, but takes any rate that was typed for the rate of the payment (`:620`) and
  stores the amount times it (`apps/sales/models.py:617`). The panel hides the field
  when the payment is in the sale's currency
  (`templates/pos/partials/payment_panel.html:62`), the form of the sale still sends
  what was typed before (`templates/pos/partials/sale_body.html:133`): the owner types
  89 for dollars, changes to сом, pays 100, and 8900 are filed. `NoExcessUnasked`
  and `ChangeAsPromised` set these forms apart (`SomRate`, `OwnRate`).
* An order line's addition writes the quantity it has read plus one: adding twice
  at once loses one of the two. An order whose last unfinished line is removed
  does not become ready (`apps/orders/views.py:376`).

*Payments and figures*

* A payment within the tolerance of what is owed is recorded as it is, also on a
  sale that is settled or overpaid by less than that (`apps/sales/services.py:512`):
  `PaymentsSettle` says "but for the tolerance" for this reason.
* A repayment whose sales were paid meanwhile drops the rest silently
  (`apps/sales/services.py:806`), although the service otherwise "raises rather
  than guessing". A deposit that a stale page takes after the hand-over stays
  unlinked (`apps/orders/services.py:53`).
* `total_kgs` is rounded up while payments are not, and the sums in сом have no
  tolerance: a foreign sale that is paid in full can stay a debt of less than a
  unit, contrary to `apps/clients/services.py:199-201`. Two rests within the
  tolerance can pool to a debt that no sale has and that `pay_oldest_first`
  refuses. The tolerance of 1.00 сом applies to other currencies as well.
* `audit_stale_totals` recomputes half even what was frozen rounded up, so it
  reports healthy foreign sales every night, though its docstring says that it
  "should never fire going forward".

*Rates, pages, what is paid out*

* A page that has read the rates before the first one was saved can leave an empty
  copy behind for an hour (`apps/core/currency.py:90`), and a payment made
  meanwhile is frozen at 1.0, contrary to `apps/sales/services.py:580-584`.
* The change form of a rate records no old rate, and a row even when nothing
  changed (`apps/core/admin.py`). A daily refresh may overwrite a rate that the
  owner typed after the refresh read the row.
* `inventory/cache.py:1-13` says that pages go stale the instant a movement
  happens. The version is raised before the commit, so a page made in between is
  kept under it until it expires, and lines of orders raise nothing although
  tiles subtract them. A tile may say that a model is out while one of its
  variants can be sold.
* `audit_expenses` does not look at personal expenses, and
  `contractor_transaction_add` has no check for a missing rate: a foreign
  operation is filed at 1.0. A row whose currency was changed in the panel keeps
  the old rate and passes the audit. The page of all time, which is to show every
  expense, leaves out those dated after today.
* A batch without any goods drops its typed cost
  (`apps/manufacturing/services.py:163-164`).
* "Never a fraction of a сом gained or lost" (`apps/manufacturing/services.py:145`) is
  true of the shares, not of what is filed: a last share below zero is not filed
  (`apps/manufacturing/services.py:245`). A cost of 0.02 over four variants with one
  piece each is filed as 0.03. It takes a cost under half a tyiyn for each piece and
  row; the costs of the run are above that, and the theorem says so.

*Messages*

* `apps/campaigns/models.py:87-88`: "nobody is messaged twice, even if the send
  command is re-run after a crash". A crash between delivery and record, or a
  lost answer, does message twice; `DuplicatesAccounted` states what is true.
  Quiet hours and a withdrawn consent are not looked at again during a run.
  Stock alerts are "never pinged twice" in the same sense.
* A webhook with a wish over the limit ends in an error and is delivered again,
  though `apps/wa/views.py:160` says it is always answered with 200. STOP is not
  heeded while a person has the conversation, though
  `apps/wa/client_replies.py:105` says it unsubscribes at once.
* Labels of the bot's menu other than the catalog's count as answers in a dialog.

*Sign-in, nights*

* The lockout counts a username and an address each for itself
  (`AXES_LOCKOUT_PARAMETERS`), so failures from the shared address of the office
  lock everybody out of it, contrary to `apps/core/auth_views.py:109-130`. A late
  `set` of the rate limiter can throw away what others have counted.
* A cycle that is killed leaves a plain dump or half a unit behind, with the
  newest stamp, and retention may keep it as the copy of its day. The sync mirrors
  deletions.
* The scheduler looks for the next time after the last job has ended: a job whose
  time passes meanwhile waits a day. Sales after the hour of the report, and the
  whole report if it is held up beyond midnight, are in no daily report.

## 8. What is not modelled

Components without a module: the rendering of pages, receipts, statements,
exports, charts and messages, which show figures that the modules compute; the
catalog import, a batch that is run by hand on an empty shop; configuration,
scripts, templates and browser code. They keep no state that another part relies
on. `PROJECT.json` lists them with that status.

Within the modelled parts: discounts per line and receipt numbers; the admin's
direct edits of an order's status; the crash of a process between two
transactions of one request, except in Campaigns, StockAlerts, OrderRequests,
ClientChat and Backups; memory caches per process; the locks that orders take (a
deadlock between producing and handing over is possible, see hazards); the rate
fetch itself; audience filters; favourites and the catalog pages of the bot; the
staff's bot; enrolment of one-time passwords and permissions of roles; the
delivery of a report by mail and chat. Interleavings of two components that an MC
module only puts side by side are not modelled either: where the code makes them
meet (orders and sales, payments and deposits, production and order lines, a
request and its conversation, the till and confirm_sale), one module has both.

## 9. The plan

The order follows the damage a mistake would do: stock and money first, then
what is told to people, then what is only shown. The modules of section 2 are
written. What is left:

1. **OrderLocking**, extending ProductionOrders as SaleLocking extends
   SaleLedger: line, order, variant and product locks of `mark_produced`,
   `hand_over` and a batch, with two lines of one order, for the one hazard
   without a property.
2. An abstract payment ledger (a balance per sale that payments lower and voids
   raise) that both Payments and Books implement.

Theorems: what is left are the figures.
