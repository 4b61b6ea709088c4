----------------------------- MODULE Manufacturing -----------------------------
(***************************************************************************)
(* Production by contractors: a batch filed from the size and color grid,  *)
(* its cost split over the rows and absorbed into the cost price of their  *)
(* variants, and the order line that one of the rows may count for.        *)
(*                                                                         *)
(* A batch is one transaction that files its rows in grid order; nothing   *)
(* of it is seen before it commits.  Until then it holds what it changed:  *)
(* the order line from mark_produced on, and every variant whose cost      *)
(* price it set.  The form passes the whole cost as material cost, so no   *)
(* labor is accrued.  Money is in tyiyn, the hundredth of a сом, and is    *)
(* rounded as the code does.                                               *)
(***************************************************************************)
EXTENDS Integers, FiniteSets, Sequences, FiniteSetsExt

CONSTANTS
    Variants,     \* the active variants of one product, in grid order
    LineVariant,  \* the variant of an order line that is being produced
    Ordered,      \* quantity of that line
    Workers,      \* web worker processes
    Grids,        \* bound: the grids that are typed
    Costs,        \* bound: total costs of a batch
    MaxRuns       \* bound: production runs

ASSUME ManufacturingAssumption ==
    /\ IsFiniteSet(Variants) /\ Variants \subseteq Nat \ {0} /\ LineVariant \in Variants
    /\ Ordered \in Nat /\ Costs \subseteq Nat /\ MaxRuns \in Nat
    /\ \A grid \in Grids, v \in Variants :
          grid[v].accepted \in Nat /\ grid[v].defect \in Nat

VARIABLES
    price,     \* ProductVariant.cost_price
    produced,  \* OrderItem.produced_qty of the order line
    runs,      \* ProductionRun rows with their material Expense
    form       \* the batch each worker is filing

vars == <<price, produced, runs, form>>

NoForm == [total |-> 0]

\* What was typed (`grid`, `total`), whether the form was opened from the
\* order line, and the rows filed so far: their runs are not committed yet.
Form == [total : Costs, grid : Grids, line : BOOLEAN,
         filed : SUBSET Variants]

\* `spent` is the amount of the run's Expense row, 0 if it has none.  `batch`,
\* `rows` and `total` tell which form the run comes from.
Run == [variant : Variants, accepted : Nat, spent : Nat,
        batch : Nat \ {0}, rows : SUBSET Variants, total : Costs]

\* The last conjunct: the line was never produced beyond its quantity.
TypeOK ==
    /\ price    \in [Variants -> Nat]
    /\ runs     \in Seq(Run)
    /\ form     \in [Workers -> Form \cup {NoForm}]
    /\ produced \in 0..Ordered

-----------------------------------------------------------------------------
(* The arithmetic of a batch. *)

HalfUp(n, d)  == (2 * n + d) \div (2 * d)   \* ROUND_HALF_UP of n/d
SumOver(f, S) == MapThenSumSet(LAMBDA x : f[x], S)

SplitEachRounded(total, weight) ==                                  \* mutant
    LET whole == SumOver(weight, Variants)
    IN  [v \in Variants |->
            IF whole = 0 THEN 0 ELSE HalfUp(total * weight[v], whole)]

\* split_cost_proportionally: the shares are rounded, the last row with goods
\* takes what is left of the total.  A batch without goods has no shares.
Split(total, weight) ==
    LET taking   == {v \in Variants : weight[v] > 0}
        share(v) == HalfUp(total * weight[v], SumOver(weight, Variants))
    IN  [v \in Variants |->
            IF v \notin taking THEN 0
            ELSE IF v = Max(taking) THEN total - MapThenSumSet(share, taking \ {v})
            ELSE share(v)]

UnitCostOrZero(share, accepted, old) ==                             \* mutant
    IF accepted > 0 THEN HalfUp(share, accepted) ELSE old

\* The cost price after a run: its cost absorbed by the accepted units.  It
\* stays when there is no cost, or nothing to absorb it.
UnitCost(share, accepted, old) ==
    IF accepted > 0 /\ share > 0 THEN HalfUp(share, accepted) ELSE old

-----------------------------------------------------------------------------
(* production_add *)

Filing(w)    == form[w] # NoForm
RowsOf(grid) == {v \in Variants : grid[v].accepted + grid[v].defect > 0}
ToFile(w)    == RowsOf(form[w].grid) \ form[w].filed
IsLine(w, v) == form[w].line /\ v = LineVariant
Share(w, v)  == Split(form[w].total, [u \in Variants |-> form[w].grid[u].accepted])[v]

\* Rows that no other transaction has changed and not yet committed.
LineFreeAlways(w) == TRUE                                           \* mutant
LineFree(w) ==
    \A u \in Workers \ {w} : Filing(u) => \A v \in form[u].filed : ~IsLine(u, v)

PriceFree(w, v) ==
    \A u \in Workers \ {w} : Filing(u) => ~(v \in form[u].filed /\ Share(u, v) > 0)

\* _production_batch_post up to its transaction.  A malformed or incomplete
\* form changes nothing.
Post(w, grid, total, line) ==
    /\ ~Filing(w)
    /\ RowsOf(grid) # {}
    /\ form' = [form EXCEPT ![w] = [total |-> total, grid |-> grid, line |-> line,
                                    filed |-> {}]]
    /\ UNCHANGED <<price, produced, runs>>

\* mark_produced's check, by what is true under the lock of the line.
Fits(w) == form[w].grid[LineVariant].accepted <= Ordered - produced

AnyRow(w, v)  == v \in ToFile(w)                                    \* mutant
NextRow(w, v) == v \in ToFile(w) /\ \A u \in ToFile(w) : v <= u

\* One row: mark_produced for the order line, record_production_run for any
\* other.
FileRow(w, v) ==
    /\ Filing(w) /\ NextRow(w, v)
    /\ IsLine(w, v) => LineFree(w) /\ Fits(w)
    /\ Share(w, v) > 0 => PriceFree(w, v)
    /\ form' = [form EXCEPT ![w].filed = @ \cup {v}]
    /\ UNCHANGED <<price, produced, runs>>

RunOf(w, v) ==
    [variant |-> v, accepted |-> form[w].grid[v].accepted,
     spent |-> IF Share(w, v) > 0 THEN Share(w, v) ELSE 0,
     batch |-> Len(runs) + 1, rows |-> RowsOf(form[w].grid), total |-> form[w].total]

\* The rows of a set, in grid order.
InOrder(S) ==
    CHOOSE s \in [1..Cardinality(S) -> S] : \A i, j \in DOMAIN s : i < j => s[i] < s[j]

\* What the rows filed so far wrote.
Save(w) ==
    LET filed == form[w].filed
        rows  == InOrder(filed)
    IN  /\ runs' = runs \o [n \in DOMAIN rows |-> RunOf(w, rows[n])]
        /\ price' = [v \in Variants |->
                        IF v \in filed
                        THEN UnitCost(Share(w, v), form[w].grid[v].accepted, price[v])
                        ELSE price[v]]
        /\ produced' = IF \E v \in filed : IsLine(w, v)
                       THEN produced + form[w].grid[LineVariant].accepted ELSE produced
        /\ form' = [form EXCEPT ![w] = NoForm]

Commit(w) ==
    /\ Filing(w) /\ ToFile(w) = {}
    /\ Len(runs) + Cardinality(form[w].filed) <= MaxRuns
    /\ Save(w)

TooMany(w) ==
    /\ Filing(w) /\ form[w].line /\ NextRow(w, LineVariant)
    /\ LineFree(w) /\ ~Fits(w)

RollBackKeepingRows(w) == TooMany(w) /\ Save(w)                     \* mutant

\* mark_produced raises, and the transaction takes every row back.
RollBack(w) ==
    /\ TooMany(w)
    /\ form' = [form EXCEPT ![w] = NoForm]
    /\ UNCHANGED <<price, produced, runs>>

\* mark_produced without a contractor: goods for the line, no run, no cost.
Produce(w, q) ==
    /\ ~Filing(w) /\ LineFree(w)
    /\ q <= Ordered - produced
    /\ produced' = produced + q
    /\ UNCHANGED <<price, runs, form>>

-----------------------------------------------------------------------------
Init ==
    /\ price    = [v \in Variants |-> 0]
    /\ produced = 0
    /\ runs     = <<>>
    /\ form     = [w \in Workers |-> NoForm]

Next ==
    \E w \in Workers :
        \/ \E grid \in Grids, total \in Costs, line \in BOOLEAN :
              Post(w, grid, total, line)
        \/ \E v \in Variants : FileRow(w, v)
        \/ Commit(w)
        \/ RollBack(w)
        \/ \E q \in 1..Ordered : Produce(w, q)

Spec == Init /\ [][Next]_vars

-----------------------------------------------------------------------------
(* Properties. *)

RunsOfBatch(b) == {n \in DOMAIN runs : runs[n].batch = b}

\* A batch is filed as a whole or not at all, also when the order line in the
\* middle of it turns out to need less.
BatchWhole ==
    \A n \in DOMAIN runs :
        {runs[m].variant : m \in RunsOfBatch(runs[n].batch)} = runs[n].rows

\* What was typed as the cost of a batch that yielded goods is what its
\* expenses add up to, "never a fraction of a сом gained or lost".
SpendFiled ==
    \A n \in DOMAIN runs :
        LET batch == RunsOfBatch(runs[n].batch)
        IN  (\E m \in batch : runs[m].accepted > 0) =>
                MapThenSumSet(LAMBDA m : runs[m].spent, batch) = runs[n].total

\* The cost price of a variant is the cost the last costed run of it
\* absorbed: spread over the accepted units it gives back what was spent, up
\* to the rounding of one unit; a run without cost leaves it alone.
PriceIsLastCost ==
    \A v \in Variants :
        LET costed == {n \in DOMAIN runs : /\ runs[n].variant = v
                                           /\ runs[n].accepted > 0 /\ runs[n].spent > 0}
            last   == runs[Max(costed)]
            error  == 2 * (price[v] * last.accepted - last.spent)
        IN  IF costed = {} THEN price[v] = 0
            ELSE error \in (-last.accepted)..last.accepted

\* Batches set cost prices in grid order, so no two of them wait for each
\* other: some batch that is being filed can go on.
BatchesGoOn ==
    (\E w \in Workers : Filing(w)) =>
        \E w \in Workers : Filing(w) /\
            \/ ToFile(w) = {}
            \/ TooMany(w)
            \/ \E v \in Variants : /\ NextRow(w, v)
                                   /\ IsLine(w, v) => LineFree(w)
                                   /\ Share(w, v) > 0 => PriceFree(w, v)

\* A batch is filed whole, with all it cost, and none stands in another's way.
FilingHolds == TypeOK /\ BatchWhole /\ SpendFiled /\ BatchesGoOn
=============================================================================
