SPECIFICATION Spec
CONSTANTS
    Events = {1, 2, 3}
    Subscribers <- Subscriptions
    Aggregate <- Aggregates
    Relays = {r1, r2}
    BatchSize = 2
    MaxAttempts = 2
    MaxFailures = 2
    MaxFaults = 1
    None = None
INVARIANTS OnceOnly OrderedUnlessFailed
PROPERTIES EventsArrive KeepsDelivery
CHECK_DEADLOCK FALSE
