SPECIFICATION Spec
CONSTANTS
    c1 = c1
    c2 = c2
    w1 = w1
    w2 = w2
    i1 = i1
    i2 = i2
    i3 = i3
    Withdrawals = {i1, i2, i3}
    Amounts = {1}
    Creators = {c1, c2}
    Admins = {a1}
    Workers = {w1, w2}
    MaxEarned = 2
    MaxTransfers = 2
INVARIANTS
    PaidOncePerRequest
SYMMETRY Interchangeable
CHECK_DEADLOCK FALSE
