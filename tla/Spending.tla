------------------------------ MODULE Spending ------------------------------
(***************************************************************************)
(* What the shop pays out: the expense ledger, the running balance of each *)
(* contractor, the owner's personal expenses, the figures that the         *)
(* manufacturing dashboard and the pages make of them, and the audit of the*)
(* rates that the rows were filed at.  Amounts and rates are small integers*)
(* and every row carries the rate that was frozen when it was filed.       *)
(***************************************************************************)
EXTENDS Integers, Sequences, FiniteSets, FiniteSetsExt, SequencesExt

CONSTANTS
    Bills,       \* expenses that are typed: category, amount, currency, date
    Operations,  \* operations with contractors: kind, who, amount, currency, date
    Purchases,   \* personal expenses: tag, amount, currency, date
    RunForms,    \* production runs: who, accepted, defect, costs, currency, date
    Foreign,     \* currencies other than the som
    NewRates,    \* what an exchange rate can be set to
    HandCosts,   \* what the cost of the variant can be set to by hand
    Today, LastDate,
    MaxFiled,    \* bound: rows of the ledger
    MaxBatches,  \* bound: production runs
    MaxTouched   \* bound: rates set, corrections by hand

ExpenseCategories == {"fabric", "trim", "labor", "rent", "other"}
PaidIn == Foreign \cup {"KGS"}
Dates  == 0..LastDate

ASSUME SpendingAssumption ==
    /\ {Today, LastDate, MaxFiled, MaxBatches, MaxTouched} \subseteq Nat /\ Today <= LastDate
    /\ "KGS" \notin Foreign
    /\ NewRates \subseteq Nat \ {0} /\ HandCosts \subseteq Nat
    /\ \A form \in Bills \cup Operations \cup Purchases \cup RunForms :
          form.cur \in PaidIn /\ form.date \in Dates
    /\ \A form \in Bills \cup Operations \cup Purchases : form.amount \in Nat
    /\ \A form \in Bills      : form.cat \in ExpenseCategories
    /\ \A form \in Operations : form.kind \in {"accrual", "payment"}
    /\ \A form \in RunForms   :
          /\ {form.accepted, form.defect, form.fabric, form.trim, form.labor} \subseteq Nat
          /\ form.who # ""

VARIABLES
    filed,       \* Expense, ContractorTransaction and PersonalExpense rows
    batches,     \* ProductionRun rows, with the cost of their stock movement
    costPrice,   \* ProductVariant.cost_price
    costByHand,  \* history: whether a hand set it after the last costed run
    rateRows,    \* ExchangeRate: a rate of each foreign currency, or None
    rateCache,   \* the cached rates, or None
    rateInHand,  \* what a slow request has read, and will store in the cache
    known,       \* history: the rates that were ever on record
    touched

xvars == <<filed, batches, costPrice, costByHand, rateRows, rateCache, rateInHand,
           known, touched>>

Nil    == 0    \* no rate
NoCost == -1   \* a run whose stock movement carries no cost

OverheadOther == {"rent", "other"}                                  \* mutant
OverheadCategories == {"rent"}

SectionOf(cat) ==
    CASE cat = "labor" -> "wages" [] cat \in {"fabric", "trim"} -> "materials" [] OTHER -> "other"

-----------------------------------------------------------------------------
(* Rates: snapshot_rate_to_base freezes what the cache has *)

Cached == IF rateCache = <<>> THEN rateRows ELSE rateCache

SnapshotRate(cur) ==
    IF cur = "KGS" \/ Cached[cur] = Nil THEN 1 ELSE Cached[cur]

\* A lookup of a foreign rate fills the cache.
LookUp(cur) == rateCache' = IF cur = "KGS" THEN rateCache ELSE Cached

NoRateOnRecord(cur) == cur # "KGS" /\ rateRows[cur] = Nil

SetExchangeRate(cur, rate) ==
    /\ touched < MaxTouched /\ touched' = touched + 1
    /\ rateRows' = [rateRows EXCEPT ![cur] = rate]
    /\ known' = [known EXCEPT ![cur] = @ \cup {rate}]
    /\ rateCache' = <<>>
    /\ UNCHANGED <<filed, batches, costPrice, costByHand, rateInHand>>

\* _current_rates of another request reads the rows and stores them later.
LoadRates ==
    /\ rateCache = <<>> /\ rateInHand = <<>>
    /\ rateInHand' = rateRows
    /\ UNCHANGED <<filed, batches, costPrice, costByHand, rateRows, rateCache, known, touched>>

StoreRates ==
    /\ rateInHand # <<>>
    /\ rateCache' = rateInHand /\ rateInHand' = <<>>
    /\ UNCHANGED <<filed, batches, costPrice, costByHand, rateRows, known, touched>>

ExpireRates ==
    /\ rateCache # <<>> /\ rateCache' = <<>>
    /\ UNCHANGED <<filed, batches, costPrice, costByHand, rateRows, rateInHand, known, touched>>

-----------------------------------------------------------------------------
(* Filing *)

Entry(kind, cat, who, amount, form) ==
    [kind |-> kind, cat |-> cat, who |-> who, amount |-> amount, cur |-> form.cur,
     rate |-> SnapshotRate(form.cur), date |-> form.date, edited |-> FALSE]

File(rows, cur) ==
    /\ Len(filed) + Len(rows) <= MaxFiled
    /\ filed' = filed \o rows
    /\ LookUp(cur)
    /\ UNCHANGED <<rateRows, rateInHand, known, touched>>

\* The two pages of expenses refuse a currency that has no rate on record.
RecordExpense(form) ==
    /\ ~NoRateOnRecord(form.cur)
    /\ File(<<Entry("expense", form.cat, "", form.amount, form)>>, form.cur)
    /\ UNCHANGED <<batches, costPrice, costByHand>>

RecordPersonal(form) ==
    /\ ~NoRateOnRecord(form.cur)
    /\ File(<<Entry("personal", form.tag, "", form.amount, form)>>, form.cur)
    /\ UNCHANGED <<batches, costPrice, costByHand>>

\* The contractor's page does not.
AddOperation(form) ==
    /\ File(<<Entry(form.kind, "", form.who, form.amount, form)>>, form.cur)
    /\ UNCHANGED <<batches, costPrice, costByHand>>

\* What one cost of a run is filed as, if there is one.
CostRow(cat, amount, form) ==
    IF amount = 0 THEN <<>> ELSE <<Entry("expense", cat, form.who, amount, form)>>

\* A contractor is owed the labor of a run that yielded goods.
Accrued(form) ==
    IF form.accepted > 0 /\ form.labor > 0
    THEN <<Entry("accrual", "", form.who, form.labor, form)>> ELSE <<>>

\* Whether a run has a cost of its own for each unit.
IsCosted(form) == form.accepted > 0 /\ form.fabric + form.trim + form.labor > 0

\* record_production_run, rounding half up.
UnitCostOf(form) ==
    LET total == (form.fabric + form.trim + form.labor) * SnapshotRate(form.cur)
    IN  (2 * total + form.accepted) \div (2 * form.accepted)

RecordRun(form) ==
    /\ Len(batches) < MaxBatches
    /\ File(CostRow("fabric", form.fabric, form) \o CostRow("trim", form.trim, form)
            \o CostRow("labor", form.labor, form) \o Accrued(form), form.cur)
    /\ batches' = Append(batches,
                  [form |-> form, cost |-> IF IsCosted(form) THEN UnitCostOf(form) ELSE NoCost])
    /\ costPrice'  = IF IsCosted(form) THEN UnitCostOf(form) ELSE costPrice
    /\ costByHand' = (costByHand /\ ~IsCosted(form))

-----------------------------------------------------------------------------
(* The panel: a row may be corrected, but not its rate; a som row must have 1 *)

EditCurrency(i, cur) ==
    /\ touched < MaxTouched /\ touched' = touched + 1
    /\ cur # filed[i].cur
    /\ cur = "KGS" => filed[i].rate = 1
    /\ filed' = [filed EXCEPT ![i].cur = cur, ![i].edited = TRUE]
    /\ UNCHANGED <<batches, costPrice, costByHand, rateRows, rateCache, rateInHand, known>>

EditDate(i, date) ==
    /\ touched < MaxTouched /\ touched' = touched + 1
    /\ date # filed[i].date
    /\ filed' = [filed EXCEPT ![i].date = date]
    /\ UNCHANGED <<batches, costPrice, costByHand, rateRows, rateCache, rateInHand, known>>

SetCostPrice(cost) ==
    /\ touched < MaxTouched /\ touched' = touched + 1
    /\ costPrice' = cost /\ costByHand' = TRUE
    /\ UNCHANGED <<filed, batches, rateRows, rateCache, rateInHand, known>>

-----------------------------------------------------------------------------
XInit ==
    /\ filed = <<>> /\ batches = <<>> /\ costPrice = 0 /\ costByHand = FALSE
    /\ rateRows = [c \in Foreign |-> Nil] /\ rateCache = <<>> /\ rateInHand = <<>>
    /\ known = [c \in Foreign |-> {}] /\ touched = 0

XNext ==
    \/ \E form \in Bills : RecordExpense(form)
    \/ \E form \in Purchases : RecordPersonal(form)
    \/ \E form \in Operations : AddOperation(form)
    \/ \E form \in RunForms : RecordRun(form)
    \/ \E i \in DOMAIN filed, cur \in PaidIn : EditCurrency(i, cur)
    \/ \E i \in DOMAIN filed, date \in Dates : EditDate(i, date)
    \/ \E cost \in HandCosts : SetCostPrice(cost)
    \/ \E cur \in Foreign, rate \in NewRates : SetExchangeRate(cur, rate)
    \/ LoadRates \/ StoreRates \/ ExpireRates

XSpec == XInit /\ [][XNext]_xvars

-----------------------------------------------------------------------------
(* Figures *)

Worth(rows) == MapThenSumSet(LAMBDA i : filed[i].amount * filed[i].rate, rows)

RowsOfKind(kind, from, to) ==
    {i \in DOMAIN filed : filed[i].kind = kind /\ filed[i].date \in from..to}

SpentKgs(from, to) == Worth(RowsOfKind("expense", from, to))

OverheadKgs(from, to) ==
    Worth({i \in RowsOfKind("expense", from, to) : filed[i].cat \in OverheadCategories})

ByCategory(cat, from, to) ==
    Worth({i \in RowsOfKind("expense", from, to) : filed[i].cat = cat})

BySection(section, from, to) ==
    MapThenSumSet(LAMBDA cat : ByCategory(cat, from, to),
                  {cat \in ExpenseCategories : SectionOf(cat) = section})

PersonalByTag(tag, from, to) ==
    Worth({i \in RowsOfKind("personal", from, to) : filed[i].cat = tag})

Volume(field, from, to) ==
    MapThenSumSet(LAMBDA i : batches[i].form[field],
                  {i \in DOMAIN batches : batches[i].form.date \in from..to})

RunsOf(who, from, to) ==
    {i \in DOMAIN batches : batches[i].form.who = who /\ batches[i].form.date \in from..to}

\* Defects of each contractor that attempted anything: the rate is defect/attempted.
DefectRows(from, to) ==
    {[who |-> who,
      defect    |-> MapThenSumSet(LAMBDA i : batches[i].form.defect, RunsOf(who, from, to)),
      attempted |-> MapThenSumSet(LAMBDA i : batches[i].form.defect + batches[i].form.accepted,
                                  RunsOf(who, from, to))] :
        who \in {batches[i].form.who : i \in {j \in DOMAIN batches :
                                              batches[j].form.date \in from..to}}}

\* The latest run that had a cost, and how far the cost price is from it.
CostGap ==
    LET costed == {i \in DOMAIN batches : batches[i].cost # NoCost}
    IN  IF costed = {} THEN 0 ELSE costPrice - batches[Max(costed)].cost

Delta(i) == IF filed[i].kind = "accrual" THEN filed[i].amount ELSE -filed[i].amount

OperationsOf(who, cur) ==
    {i \in DOMAIN filed : /\ filed[i].kind \in {"accrual", "payment"}
                          /\ filed[i].who = who /\ filed[i].cur = cur}

ContractorBalance(who, cur) == MapThenSumSet(Delta, OperationsOf(who, cur))

BeforeOrOn(date, from) == date <= from                              \* mutant
IsBefore(date, from)   == date < from

\* contractor_statement: rows by date, then in the order of filing.
ContractorStatement(who, cur, from, to) ==
    LET inside == {i \in OperationsOf(who, cur) : filed[i].date <= to}
        rows   == {i \in inside : ~IsBefore(filed[i].date, from)}
        upTo(i) == {j \in inside : \/ filed[j].date < filed[i].date
                                   \/ filed[j].date = filed[i].date /\ j <= i}
    IN  [opening |-> MapThenSumSet(Delta, inside \ rows),
         rows    |-> [i \in rows |-> MapThenSumSet(Delta, upTo(i))],
         closing |-> MapThenSumSet(Delta, inside)]

ExpensesOnly == {"expense"}                                         \* mutant
AuditedKinds == {"expense", "accrual", "payment"}

\* audit_expenses: what it reports of a row.
Verdict(row) ==
    CASE row.kind \notin AuditedKinds -> "not looked at"
      [] row.cur = "KGS" /\ row.rate = 1 -> "fine"
      [] row.cur = "KGS" /\ row.rate # 1 -> "corrupt"
      [] row.cur # "KGS" /\ row.rate = 1 -> "unconverted"
      [] OTHER -> "converted"

-----------------------------------------------------------------------------
(* Properties *)

\* In every period the sections, the categories and the sum of what was spent are
\* one figure, no som of which is both overhead and a cost of production; the
\* contractors' units are the units of the period; and the page of all time leaves
\* out what is dated after today and nothing else.
PartsAddUp ==
    /\ \A from, to \in Dates :
        /\ SpentKgs(from, to) = BySection("wages", from, to) + BySection("materials", from, to)
                                + BySection("other", from, to)
        /\ SpentKgs(from, to) = OverheadKgs(from, to) + ByCategory("other", from, to)
                                + MapThenSumSet(LAMBDA c : ByCategory(c, from, to),
                                                {"fabric", "trim", "labor"})
        /\ Volume("accepted", from, to) + Volume("defect", from, to)
             = MapThenSumSet(LAMBDA r : r.attempted, DefectRows(from, to))
    /\ SpentKgs(0, Today) + SpentKgs(Today + 1, LastDate) = SpentKgs(0, LastDate)

\* A contractor's statement closes on the balance, each part of it opens where the
\* part before closed, and the last row of a part stands at what it closes on.
StatementCloses ==
    \A i \in DOMAIN filed : filed[i].kind \in {"accrual", "payment"} =>
        LET who == filed[i].who
            cur == filed[i].cur
            St(from, to) == ContractorStatement(who, cur, from, to)
        IN  /\ St(0, LastDate).closing = ContractorBalance(who, cur)
            /\ \A d \in 0..(LastDate - 1) : St(0, d).closing = St(d + 1, LastDate).opening
            /\ \A from, to \in Dates :
                  LET st   == St(from, to)
                      last == CHOOSE k \in DOMAIN st.rows :
                                \A j \in DOMAIN st.rows :
                                    \/ filed[j].date < filed[k].date
                                    \/ filed[j].date = filed[k].date /\ j <= k
                  IN  IF DOMAIN st.rows = {} THEN from <= to => st.opening = st.closing
                      ELSE st.rows[last] = st.closing

\* A row whose rate its currency never had is one that the audit lists, unless its
\* currency was changed in the panel or it is a personal expense; and what the two
\* pages of expenses filed is in a currency that has had a rate.
MisfiledIsListed ==
    \A i \in DOMAIN filed :
        LET e == filed[i]
        IN  /\ Verdict(e) # "corrupt"
            /\ e.cur # "KGS" /\ e.rate \notin known[e.cur]
                 => e.edited \/ e.kind = "personal" \/ Verdict(e) = "unconverted"
            /\ e.kind \in {"expense", "personal"} /\ e.who = "" /\ ~e.edited
                 => e.cur = "KGS" \/ known[e.cur] # {}

\* The cost price differs from what the last costed run came to only when a hand
\* set it since: a run without costs or with nothing accepted leaves it alone.
GapIsMadeByHand == CostGap # 0 => costByHand

\* The figures of what is spent add up, and their rates are what they claim.
SpendingHolds == PartsAddUp /\ StatementCloses /\ MisfiledIsListed /\ GapIsMadeByHand
=============================================================================
