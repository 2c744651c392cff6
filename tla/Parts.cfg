SPECIFICATION FairSpec
CONSTANTS
    None = None
    Tabs = {"t1"}
    Rows = 2
    Window = 2
    Slots = 1
    Frames = 1
    Handlers = 2
    Terms = {"some", "nothing"}
    NoTerm = "all"
    NoOption = "none"
    MaxQueries = 5
    Pages = 2
    MaxLoads = 4
    MaxFinds = 2
    FormInList = TRUE
    Quotations = {"x"}
    Moving = {"x"}
    Products = {"p"}
    Asks = {1, 2}
    MaxTexts = 1
    MaxEvents = 2
    MaxOthers = 3
    MaxGets = 1
    Deals = {"q1"}
    Managers = {"shah", "ann"}
    TheManager = "shah"
    Evaluators = {"e1"}
    StalledDays = 1
    Multiplier = 2
    CapPct = 3
    SlipDays = 1
    MaxDay = 1
    MaxActions = 2
    Goods = {"p1", "p2"}
    Warehouses = {"w1"}
    Customers = {"c1"}
    Tiers = {"GOLD", "SILVER"}
    PlanNames = {"n"}
    Admins = {"a1", "a2"}
    MaxSku = 2
    MaxWrites = 3
    Prices = {100}
    Percents = {10}
    Offers = {0, 2}
    MaxLines = 1
    MaxVersion = 3
    MaxMoves = 1
    Seeded <- MCSeeded
    Options <- MCOptions
    OwnerOf <- MCOwnerOf
    RepAverage <- MCRepAverage
    Starts <- MCStarts
    SearchTerms = {"some"}
    Ceiling <- MCCeiling
CHECK_DEADLOCK FALSE
INVARIANTS
    NothingStrayShown
    RequestsSayItOnce
    ActionsAreKept
    CatalogueAgrees
    PricesAreTheServers
PROPERTIES
    OpenBellHeals
