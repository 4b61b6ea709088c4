---------------------------- MODULE MCManufacturing ----------------------------
(***************************************************************************)
(* Small instances of what production costs: the batches that are filed by *)
(* several at once, and the ledger of what is paid out with its figures.   *)
(* A behaviour shows one of them (`focus`); a run that is typed alone is an*)
(* action of the second.                                                   *)
(***************************************************************************)
EXTENDS Manufacturing, Spending, TLC

VARIABLE focus

Symmetry == Permutations(Workers)

Grid(a1, d1, a2, d2, a3, d3) ==
    <<[accepted |-> a1, defect |-> d1], [accepted |-> a2, defect |-> d2],
      [accepted |-> a3, defect |-> d3]>>

\* Whole and partial batches, the line's row first, alone and in the middle,
\* rows of defects only, and a batch that is a total loss.
MCGrids == {Grid(1, 0, 1, 0, 1, 0), Grid(2, 0, 1, 1, 0, 0), Grid(1, 0, 2, 0, 0, 1),
            Grid(0, 0, 2, 0, 1, 0), Grid(0, 0, 1, 0, 0, 0), Grid(0, 1, 0, 1, 0, 0),
            Grid(1, 1, 0, 0, 2, 0)}

\* Expenses, operations, personal expenses and runs that are typed.
MCBills ==
    {[cat |-> "rent", amount |-> 2, cur |-> "USD", date |-> 1],
     [cat |-> "other", amount |-> 3, cur |-> "KGS", date |-> 2]}

MCOperations == {[kind |-> "payment", who |-> "ayim", amount |-> 1, cur |-> "USD", date |-> 0]}

MCPurchases == {[tag |-> "food", amount |-> 1, cur |-> "USD", date |-> 0]}

MCRunForms ==
    {[who |-> "ayim", accepted |-> 3, defect |-> 1, fabric |-> 0, trim |-> 0, labor |-> 1,
      cur |-> "USD", date |-> 1],
     [who |-> "nur", accepted |-> 0, defect |-> 2, fabric |-> 0, trim |-> 1, labor |-> 0,
      cur |-> "KGS", date |-> 1]}

MoneyOutInit == Init /\ XInit /\ focus \in {"batches", "spending"}

MoneyOutNext ==
    /\ focus' = focus
    /\ \/ focus = "batches" /\ Next /\ UNCHANGED xvars
       \/ focus = "spending" /\ XNext /\ UNCHANGED vars

MoneyOutSpec == MoneyOutInit /\ [][MoneyOutNext]_<<vars, xvars, focus>>

-----------------------------------------------------------------------------
(* Each property, where its module is what a behaviour shows *)

\* A batch is filed whole, and what it spent is filed with it.
BatchesFiled == focus = "batches" => FilingHolds

\* The cost that the variant shows is that of the last batch.
BatchPrices == focus = "batches" => PriceIsLastCost

\* What was paid out is filed, shown and audited at the rate of its day.
MoneySpending == focus = "spending" => SpendingHolds
=============================================================================
