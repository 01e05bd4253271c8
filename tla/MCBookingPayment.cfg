SPECIFICATION Spec
CONSTANTS
    b1 = b1
    b2 = b2
    s1 = s1
    Bookings = {b1, b2}
    Seats = {s1}
    Seat <- MCSeat
    Price = 2
    Workers = {w1}
    Requests = {r1}
    AdminAmounts = {0}
    SellerStatuses = {}
INVARIANTS
    TypeOK
    
    ConfirmedSeatIsTaken
    CancelledMeansMoneyBack
    FullyRefundedMeansMoneyBack
PROPERTIES
    ExpiryIsFinal
SYMMETRY Guests
CHECK_DEADLOCK FALSE
