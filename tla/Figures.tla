-------------------------------- MODULE Figures --------------------------------
(***************************************************************************)
(* What the reports read from the books: debts and statements of clients,  *)
(* the dashboard, the POS and statistics figures, and the daily report.    *)
(* Every figure is computed here from the rows, the way its query does it; *)
(* the properties relate figures that must agree, and say which of them    *)
(* may still move once their day is over.                                  *)
(*                                                                         *)
(* Figures in som are in halves of its unit; those in the currency of a    *)
(* sale are in thirtieths until they are rounded.                          *)
(***************************************************************************)
EXTENDS Books

Sum(Op(_), S) == MapThenSumSet(Op, S)
Day(s)        == DayOf(sale[s].at)
PaidOn(p)     == DayOf(payment[p].at)
ClientSales   == {s \in Confirmed : ~WalkIn(s)}

\* confirmed_revenue: what counts as revenue.
ConfirmedRevenue == {s \in Confirmed : ~sale[s].historical}

SoldIn(from, to) == {s \in ConfirmedRevenue : Day(s) \in from..to}

-----------------------------------------------------------------------------
(* Debts *)

Kept(amount) == amount > Tolerance \/ amount < 0

\* client_debts_by_currency, before and after it drops what counts as settled.
Pooled(cur) ==
    (IF cur = "KGS" THEN Parts * opening.amount ELSE 0)
    + Parts * Sum(Total, {s \in ClientSales : Draft[s].currency = cur})
    - Sum(InParts, {p \in Payments : Draft[payment[p].sale].currency = cur})

Debts(cur) == IF Kept(ToCents(Pooled(cur))) THEN ToCents(Pooled(cur)) ELSE 0

ClientDebt(cur)   == Max({Debts(cur), 0})
ClientCredit(cur) == Max({-Debts(cur), 0})

WithCredit(s) == 2 * TotalKgs(s) - Sum(Net, OfSale(s))               \* mutant

\* client_debts_kgs: sale by sale, at the frozen rates.
Outstanding(s)  == Max({0, 2 * TotalKgs(s) - Sum(Net, OfSale(s))})
ClientDebtsKgs  == Sum(Outstanding, ClientSales)

\* The dashboard's debt: now, and as of the end of a day.
OutstandingAsOf(s, d) ==
    Max({0, 2 * TotalKgs(s) - Sum(Net, {p \in OfSale(s) : PaidOn(p) <= d})})

DebtAsOf(d) == Sum(LAMBDA s : OutstandingAsOf(s, d), {s \in ClientSales : Day(s) <= d})

Bucket(s)    == Min({2, (today - Day(s)) \div 2})
Aging(b)     == Sum(LAMBDA s : OutstandingAsOf(s, today), {s \in ClientSales : Bucket(s) = b})

\* The Debts sheet: how many sales a debt spans, and since when.
Unpaid(cur)  == {s \in Confirmed : Balance(s) > 0 /\ Draft[s].currency = cur}
DebtsRow(cur) == [debt |-> ClientDebt(cur), sales |-> Unpaid(cur)]

-----------------------------------------------------------------------------
(* The statement of a client *)

NoReversal(p) == TRUE                                               \* mutant

\* Payments of a batch are one row, and their reversals another.
Apart(p) == Original(p)

GroupOf(p) ==
    IF payment[p].batch = 0 THEN {p}
    ELSE {q \in Payments : payment[q].batch = payment[p].batch /\ Apart(q) = Apart(p)}

OfLiveSales == {GroupOf(p) : p \in {q \in Payments : payment[q].sale \in Confirmed}} \* mutant

PaymentRows == {GroupOf(p) : p \in Payments}

\* Sales, groups of payments and the opening balance, with what each adds.  A
\* payment of a sale that was cancelled stays; the sale does not.
Entries(cur) ==
    {[at |-> sale[s].at, kind |-> "sale", of |-> s, delta |-> Parts * Total(s)]
        : s \in {s \in ClientSales : Draft[s].currency = cur}}
    \cup
    {[at |-> payment[Min(g)].at, kind |-> IF Original(Min(g)) THEN "payment" ELSE "reversal",
      of |-> Min(g), delta |-> -Sum(InParts, g)]
        : g \in {g \in PaymentRows : Draft[payment[Min(g)].sale].currency = cur}}
    \cup
    IF cur = "KGS" /\ opening # NoOpening
    THEN {[at |-> opening.at, kind |-> "opening", of |-> 0, delta |-> Parts * opening.amount]}
    ELSE {}

Deltas(entries) == Sum(LAMBDA e : e.delta, entries)

UpToFrom(e, from) == DayOf(e.at) <= from                            \* mutant

Precedes(e, from) == DayOf(e.at) < from

\* client_statement for the days from..to: what precedes them, the rows with the
\* balance after each, and what they close on.
Statement(cur, from, to) ==
    LET all    == {e \in Entries(cur) : DayOf(e.at) <= to}
        before == {e \in all : Precedes(e, from)}
        rows   == SetToSortSeq(all \ before, LAMBDA a, b : a.at < b.at)
    IN  [opening |-> ToCents(Deltas(before)),
         rows    |-> [i \in DOMAIN rows |->
                        [entry   |-> rows[i],
                         balance |-> ToCents(Deltas(before) + Deltas({rows[j] : j \in 1..i}))]],
         closing |-> ToCents(Deltas(all))]

-----------------------------------------------------------------------------
(* Revenue, profit and cash *)

Revenue(S)   == 2 * Sum(TotalKgs, S)
UnitsIn(S)   == Sum(LAMBDA s : sale[s].units, S)

LiveCost(s)  == 2 * sale[s].units * cost                            \* mutant

\* _LINE_COGS: the cost frozen on the line.
LineCost(s)  == 2 * sale[s].units * sale[s].cost

Handed(from, to) ==                                                 \* mutant
    Sum(LAMBDA p : payment[p].amount * payment[p].rate, {p \in Payments : PaidOn(p) \in from..to})
    + Revenue({s \in SoldIn(from, to) : WalkIn(s)})

\* Walk-ins have no payment; their whole total counts as received.
Received(from, to) ==
    Sum(Net, {p \in Payments : PaidOn(p) \in from..to})
    + Revenue({s \in SoldIn(from, to) : WalkIn(s)})

Metrics(from, to) ==
    LET sold == SoldIn(from, to)
    IN  [revenue  |-> Revenue(sold),
         profit   |-> Revenue(sold) - Sum(LineCost, sold),
         units    |-> UnitsIn(sold),
         received |-> Received(from, to),
         expected |-> Revenue(sold) - Received(from, to)]

\* The period of some days that ends today, and the one before it.
Windows(n) == [from |-> today - n + 1, to |-> today,
               prevFrom |-> today - 2 * n + 1, prevTo |-> today - n]

\* The calendar of the dashboard, and the last days of the statistics page.
CalendarDays(from, to) ==
    [d \in from..to |-> [revenue |-> Revenue(SoldIn(d, d)), units |-> UnitsIn(SoldIn(d, d))]]

LastDays(n) ==
    [d \in (today - n + 1)..today |-> Revenue({s \in ConfirmedRevenue : Day(s) = d})]

TodayOfAnyKind == Revenue({s \in Confirmed : Day(s) = today})         \* mutant

TodayRevenue == Revenue({s \in ConfirmedRevenue : Day(s) = today})

Channel(s) == Draft[s].client
Channels(from, to) ==
    [c \in BOOLEAN |-> Revenue({s \in SoldIn(from, to) : Channel(s) = c})]

\* Ranked by what was charged: the line at the frozen rate, not rounded.
LineKgs(s) == Total(s) * sale[s].rate
TopProducts(from, to) ==
    [s \in SoldIn(from, to) |-> [revenue |-> LineKgs(s), profit |-> LineKgs(s) - LineCost(s)]]

UnitsSold(days) == UnitsIn({s \in ConfirmedRevenue : Day(s) > today - days})

\* A payment that was voided counts for no method, and neither does its reversal.
Methods(from, to) ==
    Sum(Net, {p \in Payments : Original(p) /\ ~Reversed(p) /\ PaidOn(p) \in from..to})

\* The workbook of the dashboard: the sheet of each list has its own total.
DashboardSheets(from, to) ==
    [svodka   |-> Metrics(from, to),
     vyruchka |-> Sum(LAMBDA d : CalendarDays(from, to)[d].revenue, from..to),
     kanaly   |-> Sum(LAMBDA c : Channels(from, to)[c], BOOLEAN),
     oplaty   |-> Methods(from, to),
     dolgi    |-> Aging(0) + Aging(1) + Aging(2)]

\* The sales sheet of the daily report: today's sales with all their payments.
SalesSheet ==
    LET sold == SoldIn(today, today)
    IN  [revenue   |-> 2 * Sum(TotalKgs, sold),
         collected |-> 2 * Sum(LAMBDA s : Sum(NetApplied, OfSale(s)), sold)]

\* Its sheet of totals is the dashboard of today.
TotalsSheet ==
    LET m == Metrics(today, today)
    IN  [revenue |-> m.revenue, received |-> m.received, expected |-> m.expected]

\* The statistics page: some days, the channels, the debts, and what sold.
Snapshot(n) ==
    [today |-> TodayRevenue, days |-> LastDays(n), debt |-> ClientDebtsKgs,
     channels |-> Channels(today - n + 1, today), sold |-> UnitsSold(n)]

\* The dashboard for a period of some days, next to the one before it.
DashboardData(n) ==
    LET w == Windows(n)
    IN  [metrics |-> Metrics(w.from, w.to), before |-> Metrics(w.prevFrom, w.prevTo),
         debt |-> DebtAsOf(today), debtBefore |-> DebtAsOf(w.prevTo),
         days |-> CalendarDays(w.from, w.to), methods |-> Methods(w.from, w.to)]

\* audit_stale_totals reckons the total in som again, and rounds it to the even
\* unit; it alerts about each sale whose own differs.
Recomputed(s) == HalfEven(Total(s) * sale[s].rate)
StaleTotals   == {s \in Confirmed : Recomputed(s) # TotalKgs(s)}

-----------------------------------------------------------------------------
(* Properties *)

FTypeOK ==
    /\ today \in Days /\ event \in 0..MaxEvents
    /\ \A s \in Sales : sale[s] = NotYet \/ sale[s].units \in 0..Draft[s].units
    /\ \A p \in Payments : payment[p].change * payment[p].amount >= 0
    /\ \A p \in Payments : 2 * payment[p].change <= Max({0, payment[p].amount * payment[p].rate})

\* What the statement walks to is what the client owes everywhere else, but for a
\* rest that counts as settled: also after returns, cancelled sales that were
\* paid, overpayments and payments in another currency.
StatementClosesOnDebt ==
    \A cur \in Currencies :
        LET closing == Statement(cur, 0, today).closing
        IN  closing = Debts(cur) \/ (Debts(cur) = 0 /\ ~Kept(closing))

\* Statements of two periods that follow each other fit: one closes on what the
\* other opens with, and each closes on the balance of its last row.
SlicesJoin ==
    \A cur \in Currencies, d \in Days :
        LET first  == Statement(cur, 0, d)
            second == Statement(cur, d + 1, LastDay)
        IN  /\ first.closing = second.opening
            /\ second.rows # <<>> => Last(second.rows).balance = second.closing

\* A payment that was split over several sales is one row of the statement, and
\* voiding it is one more, which takes the same amount back.
BatchIsOneRow ==
    \A g \in PaymentRows :
        /\ \A p \in g : Original(p) = Original(Min(g))
        /\ Original(Min(g)) /\ (\E p \in g : Reversed(p)) =>
              \E h \in PaymentRows : Sum(InParts, h) = -Sum(InParts, g) /\ ~Original(Min(h))

\* Nobody is listed with a debt that no sale explains: it is at most what the open
\* sales leave to pay, the opening balance, and a settled rest per sale.
DebtHasSales ==
    \A cur \in Currencies :
        LET row == DebtsRow(cur)
        IN  row.debt <= Sum(Balance, row.sales) + Tolerance * Cardinality(ClientSales \ row.sales)
                        + IF cur = "KGS" THEN Max({0, opening.amount}) ELSE 0

\* The dashboard, the age of the debts and the statistics page tell one debt.
OneDebt ==
    /\ DashboardData(1).debt = ClientDebtsKgs /\ Snapshot(1).debt = ClientDebtsKgs
    /\ DashboardSheets(today, today).dolgi = ClientDebtsKgs

\* All the reports tell one revenue, a net profit that products add up to within
\* the unit that every sale is rounded up by, and two periods that follow each
\* other without a gap or an overlap.
RevenueViewsAgree ==
    /\ LET m == Metrics(today, today)
       IN  /\ m.revenue = TodayRevenue
           /\ m.revenue = CalendarDays(0, today)[today].revenue
           /\ m.revenue = Snapshot(1).days[today] /\ m.revenue = SalesSheet.revenue
           /\ TotalsSheet.expected + TotalsSheet.received = m.revenue
    /\ LET all   == Metrics(0, today)
           top   == TopProducts(0, today)
           sheet == DashboardSheets(0, today)
           page  == Snapshot(today + 1)
       IN  /\ all.revenue = Sum(LAMBDA d : page.days[d], 0..today)
           /\ all.revenue = Sum(LAMBDA c : page.channels[c], BOOLEAN)
           /\ all.revenue = sheet.vyruchka /\ all.revenue = sheet.kanaly
           /\ all.units = page.sold
           /\ all.profit - Sum(LAMBDA s : top[s].profit, DOMAIN top) \in 0..Cardinality(DOMAIN top)
    /\ \A n \in 1..(today + 1) :
          LET d == DashboardData(n)
          IN  d.metrics.expected + d.before.expected = Metrics(Windows(n).prevFrom, today).expected

\* What the daily report has collected for today's sales is what the dashboard
\* received for them today, but for the half unit that a payment is rounded by.
CollectedWasReceived ==
    LET paid == {p \in Payments : payment[p].sale \in SoldIn(today, today)}
        gap  == SalesSheet.collected
                - (Received(today, today) - Revenue({s \in SoldIn(today, today) : WalkIn(s)})
                   - Sum(Net, {p \in Payments \ paid : PaidOn(p) = today}))
    IN  gap \in -Cardinality(paid)..Cardinality(paid)

\* Over the whole history the methods add up to the payments, although one side
\* leaves out what was voided and the other adds it up with its reversal.
VoidsLeaveNoTrace == Methods(0, today) = Sum(Net, Payments)

\* The audit reports no sale that is right but for the unit that a foreign total
\* is rounded up by: those it reports every night.
AuditFindsRounding ==
    \A s \in StaleTotals : Draft[s].currency # "KGS" /\ TotalKgs(s) = Recomputed(s) + 1

\* The statement of a client fits the debts, its own parts, and the payments.
StatementsHold == StatementClosesOnDebt /\ SlicesJoin /\ BatchIsOneRow /\ DebtHasSales

\* No two pages, reports or audits disagree on what was earned and received.
ReportsAgree == FTypeOK /\ OneDebt /\ RevenueViewsAgree /\ CollectedWasReceived /\ VoidsLeaveNoTrace
                /\ AuditFindsRounding

-----------------------------------------------------------------------------
(* History stands *)

\* What is reported of the days up to d.
Past(d) == [metrics |-> Metrics(0, d), calendar |-> CalendarDays(0, d),
            statement |-> [cur \in Currencies |-> Statement(cur, 0, d)],
            channels |-> Channels(0, d)]

\* The ways to change it: a sale of those days is cancelled or returned, or one
\* is entered for them after the fact, or an opening balance.
Rewritten(d) ==
    \/ opening' # opening
    \/ \E s \in Sales : sale'[s] # sale[s] /\ sale'[s] # NotYet /\ DayOf(sale'[s].at) <= d

\* Nothing else moves the figures of a day that is over: no new rate, no new cost
\* price, no payment, and no void, which is booked on the day it is made.
HistoryStands ==
    [][\A d \in Days : d < today /\ ~Rewritten(d) => Past(d)' = Past(d)]_bvars
=============================================================================
