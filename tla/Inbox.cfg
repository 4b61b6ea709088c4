SPECIFICATION InboxSpec
CONSTANTS
    Buyers = {c1}
    Requests = {r1, r2, r3}
    Creators = {w1, w2}
    Staff = {s1, s2}
    MaxOpen = 1
    Messages = {m1, m2}
    Managers = {g1}
    Window = 0
    Quiet = 1
    Threshold = 2
    Variants = {v1, v2}
    Tasks = {t1, t2}
    MaxQuantity = 1
    MaxWants = 3
SYMMETRY Symmetry
INVARIANTS
    InboxKeeps
    RequestsHold
    BotAnswers
CHECK_DEADLOCK FALSE
