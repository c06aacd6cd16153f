SPECIFICATION Spec
CONSTANTS
    a = a
    b = b
    w1 = w1
    w2 = w2
    Users = {a, b}
    Workers = {w1, w2}
    MaxRows = 2
    StaleClicks = TRUE
INVARIANTS TypeOK
PROPERTY RowLifecycle
