SPECIFICATION RulesSpec
CONSTANTS
    Products = {"laptop", "mouse"}
    Warehouses <- MCWarehouses
    MaxQty = 4
    MaxLines = 1
    Counts <- MCCounts
    Offers <- MCOffers
    Discounts <- MCDiscounts
    Quantities <- MCQuantities
    Tier = "GOLD"
    Ceilings <- MCCeilings
    MaxQuoteLines = 2
INVARIANTS
    PlanIsSound
PROPERTY
    ReviewFollowsOverage
