SPECIFICATION Spec
CONSTANTS
    Variants = {v1}
    Sales = {s1, s2}
    Workers = {w1, w2}
    MaxUnits = 2
    MaxStock = 2
    MaxShort = 1
    MaxReserved = 1
    OverlappingEdits = TRUE
SYMMETRY Symmetry
PROPERTIES
    UndoTouchesOnlyDrafts
