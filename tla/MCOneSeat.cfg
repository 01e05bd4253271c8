SPECIFICATION Spec
CONSTANTS
    b1 = b1
    b2 = b2
    s1 = s1
    Bookings = {b1, b2}
    Seats = {s1}
    Seat <- MCSeat
    Price = 1
    Workers = {w1}
    Requests = {}
    AdminAmounts = {}
    SellerStatuses = {}
INVARIANTS
    OneGuestPerSeat
SYMMETRY Guests
CHECK_DEADLOCK FALSE
