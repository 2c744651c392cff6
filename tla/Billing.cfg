SPECIFICATION Spec
CONSTANTS
    o1 = o1
    o2 = o2
    r1 = r1
    r2 = r2
    None = None
    Orders <- MCOrders
    Lines = {"laptop"}
    Ordered <- MCOrdered
    MaxUnits = 2
    Total <- MCTotal
    Recurring <- MCRecurring
    Horizon = 2
    Instants <- MCInstants
    Dates <- MCDates
    Quantities = {1, 2}
    PlanAmounts = {}
    Amounts = {2, 4}
    Requests <- MCRequests
    MaxAccidents = 1
    MaxOrders = 1
    MaxInvoices = 4
    MaxCredits = 2
SYMMETRY Symmetry
CHECK_DEADLOCK FALSE
INVARIANTS
    Consistent
    UnitsBilledOnce
    BooksAreTrue
PROPERTIES
    StoppedIsNotBilled
