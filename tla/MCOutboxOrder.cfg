SPECIFICATION Spec
CONSTANTS
    Events = {1, 2, 3}
    Subscribers <- Subscriptions
    Aggregate <- Aggregates
    Relays = {r1}
    BatchSize = 2
    MaxAttempts = 2
    MaxFailures = 1
    MaxFaults = 0
    None = None
INVARIANT InOrder
