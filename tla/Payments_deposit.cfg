SPECIFICATION Spec
CONSTANTS
    Sales = {1}
    Workers = {w1, w2}
    Ops = {"void"}
    Totals = {3}
    Amounts = {2}
    MaxPayments = 3
    Tolerance = 0
    Deposits = "refunded"
SYMMETRY Symmetry
INVARIANTS
    VoidedCountsNothing
CHECK_DEADLOCK FALSE
