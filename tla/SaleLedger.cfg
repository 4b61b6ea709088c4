SPECIFICATION Spec
CONSTANTS
    Variants = {v1}
    Sales = {s1, s2}
    Workers = {w1, w2, w3}
    MaxUnits = 2
    MaxStock = 3
    MaxShort = 1
    MaxReserved = 2
    OverlappingEdits = FALSE
SYMMETRY Symmetry
INVARIANTS
    LedgerMatchesLines
    BilledMatchesLines
PROPERTIES
    
    ConfirmedLinesOnlyReturn
