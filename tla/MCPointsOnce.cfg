SPECIFICATION Spec
CONSTANTS
    Events = {e1}
    Deliveries = {d1, d2}
    Workers = {w1, w2}
    MaxDeliveries = 2
    Attempts = 2
    MaxStalled = 1
    NoWorker = NoWorker
INVARIANTS
    PointsOncePerEvent
CHECK_DEADLOCK FALSE
