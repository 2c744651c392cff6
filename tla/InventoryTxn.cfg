SPECIFICATION TxnSpec
CONSTANTS
    o1 = o1
    o2 = o2
    h1 = h1
    h2 = h2
    None = None
    Products = {"laptop"}
    Warehouses <- MCWarehouses
    Orders <- MCOrders
    Demand <- MCDemand
    OpeningStock <- MCOpeningStock
    Deltas <- MCDeltas
    MaxStock <- MCMaxStock
    Transactions = TRUE
    Handlers <- MCHandlers
    MaxRequests = 3
SYMMETRY Symmetry
CHECK_DEADLOCK FALSE
PROPERTIES
    FreshIsSerial
    OnlyStaleChecksOvercommit
