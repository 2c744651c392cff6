SPECIFICATION FairSpec
CONSTANTS
    Deals = {a, b}
    None = None
    MaxEvents = 2
    MaxVisits = 2
    MaxCalls = 2
CHECK_DEADLOCK FALSE
INVARIANTS
    NobodyIsLeftBehind
PROPERTIES
    NewsArrives
