SPECIFICATION FairSpec
CONSTANTS
    Sales = {1, 2}
    Workers = {w1, w2}
    Ops = {"pay", "oldest", "void", "batch"}
    Totals = {3}
    Amounts = {4}
    MaxPayments = 4
    Tolerance = 1
    Deposits = "kept"
INVARIANTS
    BatchesHold
    VoidedCountsNothing
PROPERTIES
    PaymentsSettle
    RepaymentsEnd
CHECK_DEADLOCK FALSE
