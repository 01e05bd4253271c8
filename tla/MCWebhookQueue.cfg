SPECIFICATION FairSpec
CONSTANTS
    Events = {e1}
    Deliveries = {d1, d2}
    Workers = {w1, w2}
    MaxDeliveries = 2
    Attempts = 2
    MaxStalled = 1
    NoWorker = NoWorker
INVARIANTS
    WebhookTypeOK
    
    RerunsAreBounded
PROPERTIES
    AckedEventSettles
CHECK_DEADLOCK FALSE
