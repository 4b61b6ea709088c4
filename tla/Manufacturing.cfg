SPECIFICATION MoneyOutSpec
CONSTANTS
    Variants = {1, 2, 3}
    LineVariant = 2
    Ordered = 2
    Workers = {w1, w2}
    Grids <- MCGrids
    Costs = {0, 5}
    MaxRuns = 3
    Bills <- MCBills
    Operations <- MCOperations
    Purchases <- MCPurchases
    RunForms <- MCRunForms
    Foreign = {"USD"}
    NewRates = {3}
    HandCosts = {9}
    Today = 1
    LastDate = 2
    MaxFiled = 3
    MaxBatches = 2
    MaxTouched = 2
SYMMETRY Symmetry
INVARIANTS
    BatchesFiled
    BatchPrices
    MoneySpending
CHECK_DEADLOCK FALSE
