SPECIFICATION FocusSpec
CONSTANTS
    Variants = {v1, v2}
    Main = v1
    Sales = {s1, s2}
    Orders = {o1, o2}
    Items = {i1, i2}
    Deposits = {}
    Workers = {w1, w2}
    Kinds = {"add", "remove", "deposit", "cancel", "produce", "deliver"}
    MaxUnits = 2
    MaxStock = 1
    MaxShort = 0
    NoSale = NoSale
    NoItem = NoItem
SYMMETRY Symmetry
PROPERTIES
    ClosedStaysClosed
