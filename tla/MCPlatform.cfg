SPECIFICATION PlatformSpec
CONSTANTS
    r1 = r1
    r2 = r2
    Requests = {r1, r2}
    Ops = {"signUp", "socialLogin", "signIn", "signInWeb", "resendOtp", "resend2fa", "forgotPassword", "verifyEmail", "verifyOtp", "verify2fa", "writePassword", "toggleTwoFactor"}
    Kinds = {"credentials", "social"}
    OtpType = {"VERIFY_EMAIL", "TWO_FACTOR"}
    MaxAttempts = 2
    MaxCodes = 2
    Images = {"avatar"}
    Documents = {"documents"}
    Slugged = {"blog"}
    Contents = {"banner"}
    Settings = {"settings"}
    Heroes = {"hero"}
    MediaRequests = {r1, r2}
    MaxUploads = 2
    MaxMediaRows = 3
    Events = {"e1", "e2"}
    Chunks = 2
    CollectionTypes = {"WEBALERT"}
    Limit = 2
    CatalogRequests = {r1, r2}
    MaxCatalogOps = 5
    Seats = {"t1", "t2"}
    Guests = {"g1", "g2"}
    SellerRequests = {r1, r2}
    Prices = {1, 2}
    MaxSeatChanges = 4
    Amounts = {5, 20}
    BasePoints = 1
    UnitAmount = 10
    ExpiryTime = 1
    Tiers = 2
    MinPoints <- MCMinPoints
    Duration <- MCDuration
    Multiplier <- MCMultiplier
    PointRequests = {r1, r2}
    MaxBatches = 3
    MaxRecalcs = 2
    MaxNow = 2
    ReviewEvents = {"e1", "e2"}
    Reviewers = {"g1", "g2"}
    ReviewRequests = {r1, r2}
    MaxReviews = 2
    RoomRequests = {r1, r2}
    MaxRooms = 2
    MaxMessages = 4
    OldRows = 3
    MaxRows = 4
    Limits = {1, 2}
    StripeRequests = {r1, r2}
    MaxAccounts = 3
    MaxChecks = 1
    Payments = {"p1", "p2"}
    MaxTries = 2
    MaxFacts = 3
INVARIANTS
    PlatformTypeOK
    UsedCodesAreGone
    LockoutComes
    
    CatalogIsWhole
    PaidSeatIsBookedOrGone
    PointsAddUp
    ReviewsHold
    RoomsHoldMessages
    
    OnboardingHolds
    StatusHasCause
PROPERTIES
    
    SoldSeatStays
SYMMETRY Interchangeable
CHECK_DEADLOCK FALSE
