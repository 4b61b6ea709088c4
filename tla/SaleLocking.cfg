SPECIFICATION LSpec
CONSTANTS
    v1 = v1
    v2 = v2
    Variants = {v1, v2}
    Rank <- RankV
    ProductOf <- ProductV
    Sales = {s1, s2}
    Workers = {w1, w2}
    MaxUnits = 1
    MaxStock = 1
    MaxShort = 0
    MaxReserved = 1
    OverlappingEdits = FALSE
SYMMETRY Symmetry
INVARIANTS
    
    ConfirmsNeverDeadlock

    
