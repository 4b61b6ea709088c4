--------------------------------- MODULE Books ---------------------------------
(***************************************************************************)
(* The rows that every report reads: sales with the rate and the cost that *)
(* were frozen when they were confirmed, payments with theirs, a client's  *)
(* opening balance, and the live rate and cost price that go on changing.  *)
(*                                                                         *)
(* Services run one after the other here (SaleLocking and Payments show    *)
(* their interleavings).  Amounts are in the smallest unit of a currency,  *)
(* rates in halves of a som (2 is the som itself), so that converting      *)
(* leaves fractions to round.  A sale has one line without a discount.     *)
(***************************************************************************)
EXTENDS Integers, Sequences, FiniteSets, FiniteSetsExt, SequencesExt

CONSTANTS
    Sales,        \* ids of the sales
    Draft,        \* what each of them is before: price, units, currency, client or not
    Amounts,      \* amounts that are paid
    Openings,     \* amounts of the opening balance
    Costs,        \* cost prices
    DollarRates,  \* rates of the foreign currency
    Tolerance,    \* PAYMENT_ROUNDING_TOLERANCE
    LastDay,      \* bound: days
    MaxEvents     \* bound: what happens on them

ASSUME BooksAssumption ==
    /\ {LastDay, MaxEvents, Tolerance} \subseteq Nat
    /\ \A s \in Sales : {Draft[s].price, Draft[s].units} \subseteq Nat \ {0}

VARIABLES
    today,    \* the local date
    event,    \* how much has happened, the clock of a day
    sale,     \* SaleOrder and its line
    payment,  \* Payment rows in the order of their making
    opening,  \* ClientOpeningBalance, in som
    cost,     \* ProductVariant.cost_price
    dollar    \* ExchangeRate

bvars == <<today, event, sale, payment, opening, cost, dollar>>

NotYet     == [status |-> "draft"]
NoOpening  == [amount |-> 0]
Currencies == {"KGS", "USD"}
Days       == 0..LastDay
Rate(cur)  == IF cur = "KGS" THEN 2 ELSE dollar

\* Timestamps: midnight of an opening balance, noon of a backdated sale, then
\* what happened, which is taken to be after noon.
Length     == MaxEvents + 2
At(d, t)   == d * Length + t
DayOf(at)  == at \div Length
Now        == At(today, 2 + event)

RoundUp(x)  == (x + 1) \div 2      \* of a number of halves
HalfUp(x)   == IF x >= 0 THEN (x + 1) \div 2 ELSE -((1 - x) \div 2)

Confirmed   == {s \in Sales : sale[s].status = "confirmed"}
Payments    == DOMAIN payment
Total(s)    == sale[s].units * Draft[s].price

\* SaleOrder.total_kgs, rounded up.
TotalKgs(s) == RoundUp(Total(s) * sale[s].rate)

\* What a payment takes off a debt, in halves: the expression of the queries.
Net(p)      == payment[p].amount * payment[p].rate - 2 * payment[p].change

\* Payment.net_applied_kgs: the same, rounded to the even unit by the property.
HalfEven(x)   == (x + (IF x % 4 = 3 THEN 1 ELSE 0)) \div 2
NetApplied(p) == HalfEven(payment[p].amount * payment[p].rate) - payment[p].change

OfSale(s)   == {p \in Payments : payment[p].sale = s}
Owed(s)     == TotalKgs(s) - MapThenSumSet(NetApplied, OfSale(s))

\* Quotients by a rate of a sale, exact in thirtieths.
Parts       == 30
InParts(p)  == (Parts \div sale[payment[p].sale].rate) * Net(p)
ToCents(x)  == IF x >= 0 THEN (2 * x + Parts) \div (2 * Parts)
                         ELSE -((Parts - 2 * x) \div (2 * Parts))

Gross(s) ==                                                         \* mutant
    LET received == MapThenSumSet(LAMBDA p : payment[p].amount * payment[p].rate, OfSale(s))
    IN  ToCents((Parts \div sale[s].rate) * received)

\* SaleOrder.paid_amount and SaleOrder.balance
PaidAmount(s) == ToCents(MapThenSumSet(InParts, OfSale(s)))
WalkIn(s)     == ~Draft[s].client
Balance(s)    ==
    IF s \notin Confirmed \/ WalkIn(s) \/ Total(s) - PaidAmount(s) <= Tolerance
    THEN 0 ELSE Total(s) - PaidAmount(s)

-----------------------------------------------------------------------------
(* Sales *)

MayHappen == event < MaxEvents /\ event' = event + 1

Frozen(s, at, historical) ==
    [status |-> "confirmed", at |-> at, historical |-> historical,
     units |-> Draft[s].units, cost |-> cost, rate |-> Rate(Draft[s].currency)]

Confirm(s) ==
    /\ MayHappen
    /\ sale[s] = NotYet
    /\ sale' = [sale EXCEPT ![s] = Frozen(s, Now, FALSE)]
    /\ UNCHANGED <<today, payment, opening, cost, dollar>>

\* A purchase of a client from before the system, at noon of its day and at
\* today's rate and cost.
ConfirmHistorical(s, d) ==
    /\ MayHappen
    /\ sale[s] = NotYet /\ ~WalkIn(s)
    /\ sale' = [sale EXCEPT ![s] = Frozen(s, At(d, 1), TRUE)]
    /\ UNCHANGED <<today, payment, opening, cost, dollar>>

\* cancel_sale touches neither the lines nor the payments.
Cancel(s) ==
    /\ MayHappen
    /\ s \in Confirmed
    /\ sale' = [sale EXCEPT ![s].status = "cancelled"]
    /\ UNCHANGED <<today, payment, opening, cost, dollar>>

\* return_items: the last unit takes the line, and the sale with it.
Return(s, n) ==
    /\ MayHappen
    /\ s \in Confirmed
    /\ n \in 1..sale[s].units
    /\ sale' = [sale EXCEPT ![s].units = @ - n,
                  ![s].status = IF n = sale[s].units THEN "cancelled" ELSE @]
    /\ UNCHANGED <<today, payment, opening, cost, dollar>>

-----------------------------------------------------------------------------
(* Payments *)

Row(s, amount, rate, change, batch, reverses) ==
    [sale |-> s, amount |-> amount, rate |-> rate, change |-> change, at |-> Now,
     batch |-> batch, reverses |-> reverses]

ExcessUnclamped(s, amount, rate) == Max({0, (amount * rate) \div 2 - Owed(s)})  \* mutant

\* compute_change_preview: what is over the balance, a foreign amount rounded down.
Excess(s, amount, rate) ==
    LET received == (amount * rate) \div 2
    IN  Min({received, Max({0, received - Max({0, Owed(s)})})})

\* record_payment: the excess is handed back, or stays on the client's account.
Pay(s, cur, amount) ==
    /\ MayHappen
    /\ s \in Confirmed /\ ~WalkIn(s)
    /\ \E change \in {0, Excess(s, amount, Rate(cur))} :
          payment' = Append(payment, Row(s, amount, Rate(cur), change, 0, 0))
    /\ UNCHANGED <<today, sale, opening, cost, dollar>>

\* oldest_first_open_sales and allocate_oldest_first
OpenSales(cur) ==
    SetToSortSeq({s \in Confirmed : Draft[s].currency = cur /\ Balance(s) > 0},
                 LAMBDA a, b : sale[a].at < sale[b].at)

Applied(open, amount) ==
    [i \in DOMAIN open |->
       LET before == FoldLeft(LAMBDA n, s : n + Balance(s), 0, SubSeq(open, 1, i - 1))
           left   == amount - before
       IN  IF left <= 0 THEN 0 ELSE Min({left, Balance(open[i])})]

\* pay_oldest_first: one payment per sale, under one batch id; nothing may be over.
PayOldest(cur, amount) ==
    /\ MayHappen
    /\ LET open  == OpenSales(cur)
           share == Applied(open, amount)
           paid  == SelectSeq([i \in DOMAIN open |-> i], LAMBDA i : share[i] > 0)
       IN  /\ MapThenSumSet(LAMBDA i : share[i], DOMAIN open) = amount
           /\ \A i \in DOMAIN open : Excess(open[i], share[i], Rate(cur)) <= Tolerance
           /\ payment' = payment \o [i \in DOMAIN paid |->
                            Row(open[paid[i]], share[paid[i]], Rate(cur), 0, event', 0)]
    /\ UNCHANGED <<today, sale, opening, cost, dollar>>

Reversed(p)   == \E r \in Payments : payment[r].reverses = p
Original(p)   == payment[p].reverses = 0

ChangeKept(p) == Row(payment[p].sale, -payment[p].amount, payment[p].rate,
                     payment[p].change, payment[p].batch, p)        \* mutant

\* _create_reversal: every field of money changes its sign, at the same rate.
Reversal(p) == Row(payment[p].sale, -payment[p].amount, payment[p].rate,
                   -payment[p].change, payment[p].batch, p)

\* void_payment, and void_payment_batch for all of a batch.
Void(p) ==
    /\ MayHappen
    /\ Original(p) /\ ~Reversed(p)
    /\ LET all == IF payment[p].batch = 0 THEN {p}
                  ELSE {o \in Payments : payment[o].batch = payment[p].batch}
       IN  /\ p = Min(all)
           /\ payment' = payment \o LET q == SetToSortSeq(all, <)
                                    IN  [i \in DOMAIN q |-> Reversal(q[i])]
    /\ UNCHANGED <<today, sale, opening, cost, dollar>>

-----------------------------------------------------------------------------
(* The rest *)

SetOpening(amount, d) ==
    /\ MayHappen
    /\ opening = NoOpening
    /\ opening' = [amount |-> amount, at |-> At(d, 0)]
    /\ UNCHANGED <<today, sale, payment, cost, dollar>>

SetCost(c) ==
    /\ MayHappen
    /\ cost' = c /\ cost' # cost
    /\ UNCHANGED <<today, sale, payment, opening, dollar>>

SetRate(r) ==
    /\ MayHappen
    /\ dollar' = r /\ dollar' # dollar
    /\ UNCHANGED <<today, sale, payment, opening, cost>>

NextDay ==
    /\ today < LastDay
    /\ today' = today + 1
    /\ UNCHANGED <<event, sale, payment, opening, cost, dollar>>

-----------------------------------------------------------------------------
BInit ==
    /\ today = 0 /\ event = 0
    /\ sale = [s \in Sales |-> NotYet]
    /\ payment = <<>>
    /\ opening = NoOpening
    /\ cost = Min(Costs) /\ dollar = Min(DollarRates)

SaleStep(s) ==
    \/ Confirm(s)
    \/ \E d \in 0..today : ConfirmHistorical(s, d)
    \/ Cancel(s)
    \/ \E n \in 1..Draft[s].units : Return(s, n)
    \/ \E cur \in Currencies, a \in Amounts : Pay(s, cur, a)

BNext ==
    \/ \E s \in Sales : SaleStep(s)
    \/ \E cur \in Currencies, a \in Amounts : PayOldest(cur, a)
    \/ \E p \in Payments : Void(p)
    \/ \E a \in Openings, d \in 0..today : SetOpening(a, d)
    \/ \E c \in Costs : SetCost(c)
    \/ \E r \in DollarRates : SetRate(r)
    \/ NextDay

BSpec == BInit /\ [][BNext]_bvars
=============================================================================
