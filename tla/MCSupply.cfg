SPECIFICATION SupplySpec
CONSTANTS
    Users = {"u1", "u2"}
    Sellers = {"s1", "s2"}
    Legal = {"l1", "l2"}
    Form <- Forms
    Tax <- TaxIds
    Banks = {"b1", "b2"}
    Documents = {"d1", "d2"}
    Kind <- Kinds
    RatedCategories = {"k"}
    Rates = {500}
    Metrics <- Failing
    MinOrders = 20
    SuspendBelow = 40
    CancellationWeight = 35
    LatenessWeight = 25
    ReviewWeight = 40
    DefaultRate = 1000
    maxDocuments = 20
    maxMembers = 1
    Callers = {"r1", "r2"}
    MayRun <- SettlersMayRun
    MaxSellerVersion = 5
    Absent = Absent
    Orders = {"o1"}
    Items <- OrderItems
    Settlers = {"w1", "w2"}
    MaxLost = 1
    Categories = {"root", "leaf"}
    Parent <- TreeParent
    Slugs = {"s1", "s2"}
    SlugOf <- TreeSlugs
    MaxCategoryDepth = 6
    Codes = {"color"}
    Definitions <- AnyColor
    Values = {"a", "b"}
    Products = {"p1"}
    CategoryOf <- InLeaf
    Contents <- Edited
    Images = {"i1", "i2"}
    MaxImages = 2
    Groups = {"g", "h"}
    Axes = {"color"}
    Requests = {"r1", "r2", "w"}
    Offered <- ModeratedMayRun
    Puts = {}
    MaxAttempts = 2
    MaxVersion = 3
    None = None
    Offers = {"o1", "o2"}
    Skus = {"k"}
    SoldProducts = {"p1", "p2"}
    Prices = {1}
    Jobs = {"j"}
    File <- TwoRows
    MaxImportRows = 2
    ImportProgress = 2
    ImportWorkers = {"w1", "w2"}
    Clients = {"c1", "c2"}
    ClientMay <- NoneMay
    MaxCrashes = 1
    MaxChanges = 0
    MaxSlow = 1
    MaxOfferVersion = 2
    Null = Null
    Matching = {1, 2, 3}
    Offering <- SomeOffering
    Unpriced = 99
    PageLimit = 2
    MaxShown = 4
    NoCursor = NoCursor
INVARIANTS SupplyTypeOK CatalogHolds FinishedOnce PagesOnce
PROPERTIES ApprovedAsSubmitted AccruedOnce ImagesProcessed ImportsSettle IndexCatchesUp
CHECK_DEADLOCK FALSE
