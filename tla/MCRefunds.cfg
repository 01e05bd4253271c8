SPECIFICATION Spec
CONSTANTS
    b1 = b1
    s1 = s1
    r1 = r1
    r2 = r2
    Bookings = {b1}
    Seats = {s1}
    Seat <- MCSeat
    Price = 2
    Workers = {w1}
    Requests = {r1, r2}
    AdminAmounts = {1}
    SellerStatuses = {"PENDING"}
PROPERTIES
    RefundLedgerImplemented
SYMMETRY SameRequests
CHECK_DEADLOCK FALSE
