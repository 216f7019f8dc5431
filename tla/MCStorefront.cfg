SPECIFICATION StorefrontSpec
CONSTANTS
    Users = {"u1"}
    Email <- Email1
    SessionIds = {"s1"}
    MaxToken = 3
    MaxGuesses = 2
    Goroutines = {"a", "b"}
    Offered <- Handled
    MaxChanges = 3
    Null = Null
    Skus = {"x"}
    Prices <- OfferPrices
    CompareAts = {0, 2, 4}
    Promotions = {"p"}
    Specs = {"d1", "d2", "wrong"}
    ValidSpecs = {"d1", "d2"}
    Paths = {"c"}
    Requests = {"r1", "r2"}
    MaxRowVersion = 2
    Nothing = Nothing
    Orders = {"o1", "o2", "o3"}
    Buyer <- Buyers
    TotalLimit = 2
    CustomerLimit = 1
    Sessions = {"s1", "s2"}
    MaxVersion = 4
    NoSubject = NoSubject
    Keys = {"k"}
    Bodies = {"b1", "b2"}
    Attempts = {"a1", "a2", "a3"}
    MaxFailures = 1
    MaxTTLs = 1
    None = None
    User = "u"
    Devices = {"d"}
    CartSkus = {"x", "y"}
    Currency <- OneCurrencyOf
    Quantities = {1}
    Stocks = {0, 2}
    Codes = {"c"}
    MaxItems = 2
    MaxQuantity = 2
    PurgeBatch = 1
    CartRequests = {"r1", "r2"}
    MayAsk <- ShoppersMay
    MaxCarts = 2
    MaxCartVersion = 1
    Nil = Nil
    SellerOf <- SoldBy
    Path <- Ancestors
    Worlds <- Found
    Fee = 9
    FreeFrom = 40
    MaxLines = 3
    Unasked = Unasked
INVARIANTS StorefrontTypeOK SecretsSpent DoneOnce OrderKeepsQuote ReadyIsAccepted
PROPERTIES KeepsQuota BlockEndsSessions ProbeEnds ItemsKept PricesKept
CHECK_DEADLOCK FALSE
