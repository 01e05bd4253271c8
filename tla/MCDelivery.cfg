SPECIFICATION DSpec
CONSTANTS
    b1 = b1
    s1 = s1
    a1 = a1
    v1 = v1
    v2 = v2
    Bookings = {b1}
    Seats = {s1}
    Seat <- MCSeat
    Price = 1
    Workers = {w1}
    Requests = {}
    AdminAmounts = {}
    SellerStatuses = {"SHIPPED"}
    Verifiers = {v1, v2}
    Accounts = {a1}
    AccountOf <- MCAccountOf
    PlatformFee = 1
    MaxTransfers = 2
    NoVerifier = NoVerifier
INVARIANTS
    DeliveryTypeOK
    CreditedOnce
    RecordedPayoutsStand
    DeliveredIsPaidOut
SYMMETRY SameVerifiers
CHECK_DEADLOCK FALSE
