------------------------------- MODULE Payments -------------------------------
(***************************************************************************)
(* The money of one client, in сом: payments against confirmed sales,      *)
(* change, repayments split over several sales, voids, and the deposits    *)
(* that a production order carries into its sale.                          *)
(*                                                                         *)
(* Payment rows are never changed but for the sale a deposit is linked to; *)
(* a void appends a reversal.  Their order is the order of their primary   *)
(* keys.  What a sale is owed is derived from them.                        *)
(*                                                                         *)
(* record_payment holds the sale's row lock from start to end and is one   *)
(* step, after the view's unlocked read (`Load`).  pay_oldest_first        *)
(* allocates on an unlocked read and then locks sale after sale; its rows  *)
(* appear when it commits.  A void locks the payment, checks, and commits  *)
(* its reversal.  Other currencies, and who may override what, are left    *)
(* out: a request that is refused for these changes nothing.               *)
(***************************************************************************)
EXTENDS Integers, FiniteSets, Sequences, FiniteSetsExt

CONSTANTS
    Sales,         \* ids of the sale rows, in the order of confirmation
    Workers,       \* web worker processes
    Ops,           \* the requests staff make in this instance
    Totals,        \* bound: totals of the sales
    Amounts,       \* bound: amounts paid or asked for
    MaxPayments,   \* bound: payment rows
    Tolerance,     \* PAYMENT_ROUNDING_TOLERANCE
    Deposits       \* "none" are taken here, or they are "kept", or some are
                   \* "refunded": voided before their order is handed over

AllOps == {"pay", "oldest", "void", "batch"}

ASSUME PaymentsAssumption ==
    /\ Sales \subseteq Nat \ {0} /\ Ops \subseteq AllOps
    /\ Totals \subseteq Nat \ {0} /\ Amounts \subseteq Nat \ {0}
    /\ MaxPayments \in Nat /\ Tolerance \in Nat
    /\ IsFiniteSet(Sales) /\ IsFiniteSet(Workers)
    /\ Deposits \in {"none", "kept", "refunded"}

VARIABLES
    status,    \* SaleOrder.status: "none", "confirmed" or "cancelled"
    total,     \* SaleOrder.total
    payments,  \* the payment rows, by primary key
    req        \* the request each worker is serving

pvars == <<status, total, payments, req>>

None == 0   \* no sale, no batch, no reversed payment
Idle == [op |-> "idle"]
Dispositions == {"none", "change", "credit"}   \* "debt" is stored like "credit"

Row == [sale : Sales \cup {None}, amount : Int, change : Int,
        disp : Dispositions, batch : Nat, reverses : Nat]

\* `owed` is the balance the view read; `plan` the allocation of a repayment
\* and `paid` what its locked rows will commit; `targets` what a void locked.
Request == [op : AllOps, sale : Sales \cup {None}, owed : Int, asked : Nat,
            plan : [Sales -> Nat], paid : [Sales -> Nat],
            locked : SUBSET Sales, target : Nat, targets : SUBSET (1..MaxPayments)]

TypeOK ==
    /\ status   \in [Sales -> {"none", "confirmed", "cancelled"}]
    /\ total    \in [Sales -> Nat]
    /\ payments \in Seq(Row) /\ Len(payments) <= MaxPayments
    /\ req      \in [Workers -> Request \cup {Idle}]

-----------------------------------------------------------------------------
Lesser(a, b)   == IF a < b THEN a ELSE b
AtLeastZero(n) == IF n < 0 THEN 0 ELSE n
Total(f)       == MapThenSumSet(LAMBDA s : f[s], Sales)
NoMoney        == [s \in Sales |-> 0]
Rows           == DOMAIN payments

\* net_applied: what stays with the shop.
Net(row)     == row.amount - row.change
Applied(s)   == MapThenSumSet(LAMBDA p : Net(payments[p]),
                              {p \in Rows : payments[p].sale = s})
Owed(s)      == total[s] - Applied(s)

BalanceSigned(s) == Owed(s)                                      \* mutant

\* SaleOrder.balance: a residue within the tolerance is nothing owed.
Balance(s) ==
    IF status[s] = "confirmed" /\ Owed(s) > Tolerance THEN Owed(s) ELSE 0

ReversedRows  == {payments[p].reverses : p \in Rows}
IsReversal(p) == payments[p].reverses # None

Serving(w, op) == req[w] # Idle /\ req[w].op = op
Finish(w)      == req' = [req EXCEPT ![w] = Idle]

\* A repayment of u holds the sale's row.
Holds(u, s) == req[u] # Idle /\ s \in req[u].locked

\* No other worker holds it.
SaleFree(w, s) == \A u \in Workers \ {w} : ~Holds(u, s)

PaymentFreeAlways(p) == TRUE                                     \* mutant

\* No uncommitted void holds the payment's row.
PaymentFree(p) == \A u \in Workers : req[u] # Idle => p \notin req[u].targets

\* Rows that a request may still write; the bound MaxPayments lets a request
\* start only if there is room for them.
RowsOf(r)  == IF r = Idle THEN 0
              ELSE IF r.op \in {"oldest", "batch"} THEN Cardinality(Sales) ELSE 1
RoomFor(n) ==
    Len(payments) + MapThenSumSet(LAMBDA w : RowsOf(req[w]), Workers) + n <= MaxPayments

-----------------------------------------------------------------------------
(* The view's half of a request. *)

Blank(op) ==
    [op |-> op, sale |-> None, owed |-> 0, asked |-> 0, plan |-> NoMoney,
     paid |-> NoMoney, locked |-> {}, target |-> 0, targets |-> {}]

Start(w, r) ==
    /\ req[w] = Idle /\ r.op \in Ops
    /\ RoomFor(RowsOf(r))
    /\ req' = [req EXCEPT ![w] = r]
    /\ UNCHANGED <<status, total, payments>>

LoadSale(w, s) ==
    /\ status[s] = "confirmed"
    /\ Start(w, [Blank("pay") EXCEPT !.sale = s, !.owed = Owed(s)])

LoadVoid(w, p) ==
    /\ payments[p].sale = None => Deposits = "refunded"
    /\ Start(w, [Blank("void") EXCEPT !.target = p])

LoadBatch(w, b) ==
    /\ \E p \in Rows : payments[p].batch = b
    /\ Start(w, [Blank("batch") EXCEPT !.target = b])

-----------------------------------------------------------------------------
(* record_payment *)

\* The excess this one payment creates over what is owed.
Excess(owed, a) == Lesser(AtLeastZero(a - AtLeastZero(owed)), a)

\* The change a payment may hand back, computed or adjusted by hand: never
\* more than was paid (a check constraint), and none while a debt remains.
MayHandBack(owed, a, c) == c <= a /\ (c > 0 => owed - (a - c) <= Tolerance)

FitsAsSeen(s, a, seen) == Excess(seen, a) <= Tolerance           \* mutant

\* Without a disposition the payment may not exceed the balance: the view's
\* check on what it saw, and the service's on what is true under the lock.
Fits(s, a, seen) == Excess(seen, a) <= Tolerance /\ Excess(Owed(s), a) <= Tolerance

NewRow(s, a, c, disp, batch) ==
    [sale |-> s, amount |-> a, change |-> c, disp |-> disp, batch |-> batch,
     reverses |-> None]

\* The sale's status is not read again: it may have been cancelled.
RecordPayment(w, a, c, disp) ==
    LET s == req[w].sale IN
    /\ Serving(w, "pay")
    /\ SaleFree(w, s)
    /\ disp = "none" => Fits(s, a, req[w].owed)
    /\ IF disp = "change" THEN MayHandBack(Owed(s), a, c) ELSE c = 0
    /\ payments' = Append(payments, NewRow(s, a, c, disp, None))
    /\ Finish(w)
    /\ UNCHANGED <<status, total>>

-----------------------------------------------------------------------------
(* pay_oldest_first *)

\* allocate_oldest_first: what is left after the older sales.
Allocation(a) ==
    [s \in Sales |->
        LET older == MapThenSumSet(Balance, {t \in Sales : t < s})
        IN  Lesser(Balance(s), AtLeastZero(a - older))]

Allocate(w, a) ==
    /\ a <= MapThenSumSet(Balance, Sales)
    /\ Start(w, [Blank("oldest") EXCEPT !.asked = a, !.plan = Allocation(a)])

ToLock(w) == {s \in Sales : req[w].plan[s] > 0} \ req[w].locked

AnyToLock(w, s) == s \in ToLock(w)                               \* mutant
NextToLock(w, s) == s \in ToLock(w) /\ \A t \in ToLock(w) : s <= t

AsPlanned(w, s) == req[w].plan[s]                                \* mutant
StillOwed(w, s) == Lesser(req[w].plan[s], Balance(s))

\* Lock the next sale and take no more than is still owed on it.
PayRow(w, s) ==
    /\ Serving(w, "oldest")
    /\ NextToLock(w, s)
    /\ SaleFree(w, s)
    /\ req' = [req EXCEPT ![w].paid[s] = StillOwed(w, s), ![w].locked = @ \cup {s}]
    /\ UNCHANGED <<status, total, payments>>

\* A set of keys as a list, the smallest first.
InOrder(S) ==
    CHOOSE list \in [1..Cardinality(S) -> S] :
        \A i, j \in 1..Cardinality(S) : i < j => list[i] < list[j]

\* The rows of one repayment share a batch id (here its first key).
CommitOldest(w) ==
    LET paid == InOrder({s \in Sales : req[w].paid[s] > 0})
        new  == [n \in DOMAIN paid |->
                    NewRow(paid[n], req[w].paid[paid[n]], 0, "none", Len(payments) + 1)]
    IN  /\ Serving(w, "oldest")
        /\ ToLock(w) = {}
        /\ payments' = payments \o new
        /\ Finish(w)
        /\ UNCHANGED <<status, total>>

-----------------------------------------------------------------------------
(* void_payment and void_payment_batch *)

CanVoidBatched(p) == ~IsReversal(p) /\ p \notin ReversedRows     \* mutant

CanVoid(p) ==
    /\ payments[p].batch = None
    /\ ~IsReversal(p)
    /\ p \notin ReversedRows

LockVoid(w) ==
    LET p == req[w].target IN
    /\ Serving(w, "void") /\ req[w].targets = {}
    /\ PaymentFree(p)
    /\ CanVoid(p)
    /\ req' = [req EXCEPT ![w].targets = {p}]
    /\ UNCHANGED <<status, total, payments>>

Originals(b) == {p \in Rows : payments[p].batch = b /\ ~IsReversal(p)}

LockBatch(w) ==
    LET ours == Originals(req[w].target) IN
    /\ Serving(w, "batch") /\ req[w].targets = {}
    /\ \A p \in ours : PaymentFree(p)
    /\ ours \ ReversedRows # {}
    /\ req' = [req EXCEPT ![w].targets = ours \ ReversedRows]
    /\ UNCHANGED <<status, total, payments>>

ReversalKeepsChange(p) ==                                           \* mutant
    [payments[p] EXCEPT !.amount = -@, !.reverses = p]

\* A reversal mirrors every sign and keeps the sale and the batch; like any
\* row that refers to a sale, it waits for the sale's lock.
Reversal(p) ==
    [payments[p] EXCEPT !.amount = -@, !.change = -@, !.reverses = p]

CommitVoid(w) ==
    LET targets == InOrder(req[w].targets) IN
    /\ Serving(w, "void") \/ Serving(w, "batch")
    /\ targets # <<>>
    /\ \A p \in req[w].targets : payments[p].sale # None => SaleFree(w, payments[p].sale)
    /\ req[w].targets \cap ReversedRows = {}   \* payment_one_reversal_per_payment
    /\ payments' = payments \o [n \in DOMAIN targets |-> Reversal(targets[n])]
    /\ Finish(w)
    /\ UNCHANGED <<status, total>>

\* Refused by a check, a permission or a form; nothing is written.
Refuse(w) ==
    /\ req[w] # Idle
    /\ req[w].op # "oldest" /\ req[w].targets = {}
    /\ Finish(w)
    /\ UNCHANGED <<status, total, payments>>

-----------------------------------------------------------------------------
(* The sales. *)

IsNext(s) == status[s] = "none" /\ \A t \in Sales : t < s => status[t] # "none"

ConfirmSale(s, t) ==
    /\ IsNext(s)
    /\ status' = [status EXCEPT ![s] = "confirmed"]
    /\ total'  = [total EXCEPT ![s] = t]
    /\ UNCHANGED <<payments, req>>

\* cancel_sale and return_items lock the sale; payments are left alone.
ShrinkSale(s, t) ==
    /\ status[s] = "confirmed" /\ t < total[s]
    /\ \A w \in Workers : ~Holds(w, s)
    /\ status' = [status EXCEPT ![s] = IF t = 0 THEN "cancelled" ELSE @]
    /\ total'  = [total EXCEPT ![s] = t]
    /\ UNCHANGED <<payments, req>>

\* record_deposit: a payment of a production order, with no sale yet.
TakeDeposit(a) ==
    /\ Deposits # "none" /\ RoomFor(1)
    /\ payments' = Append(payments, NewRow(None, a, 0, "none", None))
    /\ UNCHANGED <<status, total, req>>

\* hand_over links the order's deposits.  A reversal has no production
\* order, so it is not among them; the update waits for a void's lock.
CarryOver(s, t) ==
    /\ Deposits # "none" /\ IsNext(s)
    /\ \A p \in Rows : payments[p].sale = None => PaymentFree(p)
    /\ status' = [status EXCEPT ![s] = "confirmed"]
    /\ total'  = [total EXCEPT ![s] = t]
    /\ payments' = [p \in Rows |-> IF payments[p].sale = None /\ ~IsReversal(p)
                                   THEN [payments[p] EXCEPT !.sale = s]
                                   ELSE payments[p]]
    /\ UNCHANGED req

-----------------------------------------------------------------------------
Init ==
    /\ status   = [s \in Sales |-> "none"]
    /\ total    = NoMoney
    /\ payments = <<>>
    /\ req      = [w \in Workers |-> Idle]

LoadStep(w) ==
    \/ \E s \in Sales : LoadSale(w, s)
    \/ \E p \in Rows : LoadVoid(w, p) \/ LoadBatch(w, p)
    \/ \E a \in Amounts : Allocate(w, a)

LockStep(w) == (\E s \in Sales : PayRow(w, s)) \/ LockVoid(w) \/ LockBatch(w)

CommitStep(w) ==
    \/ \E a \in Amounts, disp \in Dispositions : \E c \in 0..a : RecordPayment(w, a, c, disp)
    \/ CommitOldest(w)
    \/ CommitVoid(w)
    \/ Refuse(w)

SaleStep ==
    \E s \in Sales :
        \/ \E t \in Totals : ConfirmSale(s, t) \/ CarryOver(s, t)
        \/ \E t \in Totals \cup {0} : ShrinkSale(s, t)

Next ==
    \/ \E w \in Workers : LoadStep(w) \/ LockStep(w) \/ CommitStep(w)
    \/ SaleStep
    \/ \E a \in Amounts : TakeDeposit(a)

Spec == Init /\ [][Next]_pvars

\* A worker runs its transaction to the end; a row that is freed again and
\* again is granted in the end.
Fairness ==
    \A w \in Workers : SF_pvars(\E s \in Sales : PayRow(w, s)) /\ WF_pvars(CommitOldest(w))

FairSpec == Spec /\ Fairness

-----------------------------------------------------------------------------
(* Properties. *)

\* A new payment without a disposition never takes a sale beyond what is
\* owed by more than the tolerance (a sale that is overpaid already takes such
\* an amount as well), and change is handed back only when nothing is owed any
\* more: both by what is true when the row is written, not by what the view saw.
PaymentsSettle ==
    [][\A s \in Sales : \A p \in DOMAIN payments' \ Rows :
          payments'[p].sale = s /\ payments'[p].reverses = None =>
              /\ payments'[p].disp = "none" => Owed(s)' >= Lesser(0, Owed(s)) - Tolerance
              /\ payments'[p].change > 0    => Owed(s)' <= Tolerance]_payments

\* Under its locks a split repayment takes from every sale at most what is
\* still owed on it, whatever was paid since the allocation was shown.
BatchWithinDebt ==
    \A w \in Workers : Serving(w, "oldest") =>
        \A s \in req[w].locked : req[w].paid[s] <= Balance(s)

\* A split repayment is reversed as a whole or not at all.
BatchVoidedWhole ==
    \A p \in Rows : payments[p].batch # None =>
        Originals(payments[p].batch) \cap ReversedRows
            \in {{}, Originals(payments[p].batch)}

\* void_payment's check, made under the row lock, still holds when it
\* writes: payment_one_reversal_per_payment never fires.
ConstraintNeverFires ==
    \A w \in Workers : req[w] # Idle => req[w].targets \cap ReversedRows = {}

\* Payments that belong together are made and reversed together.
BatchesHold == TypeOK /\ BatchWithinDebt /\ BatchVoidedWhole /\ ConstraintNeverFires

\* A voided payment counts nothing: its sale is owed what it would be if the
\* payment had never been made.
VoidedCountsNothing ==
    \A s \in Sales :
        Applied(s) = MapThenSumSet(LAMBDA p : Net(payments[p]),
                         {p \in Rows : /\ payments[p].sale = s
                                       /\ ~IsReversal(p) /\ p \notin ReversedRows})

\* Split repayments lock the sales oldest first, so they all finish.
RepaymentsEnd ==
    \A w \in Workers : Serving(w, "oldest") ~> req[w] = Idle

=============================================================================
