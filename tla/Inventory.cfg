SPECIFICATION Spec
CONSTANTS
    o1 = o1
    o2 = o2
    None = None
    Products = {"laptop", "mouse"}
    Warehouses <- MCWarehouses
    Orders <- MCOrders
    Demand <- MCDemand
    OpeningStock <- MCOpeningStock
    Deltas <- MCDeltas
    MaxStock <- MCMaxStock
    Transactions = TRUE
INVARIANTS
    ShownUnitsAddUp
    OffersFitTheOrder
PROPERTIES
    OnlyWriteDownsOvercommit
    ShippingIsFinal
