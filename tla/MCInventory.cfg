SPECIFICATION Spec
CONSTANTS
    r1 = r1
    r2 = r2
    Skus = {1, 2}
    Reservations = {r1, r2}
    Lines <- TwoLines
    Workers = {w1, w2}
    Levels = {0, 2}
    ClientKeys = {}
    MaxQuantity = 4
    ExpiryBatch = 1
    MaxSets = 2
    MaxFaults = 1
    None = None
INVARIANTS TypeOK StockAddsUp
PROPERTIES KeepsContract HoldsSettle
