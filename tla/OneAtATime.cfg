SPECIFICATION FairSettledSpec
CONSTANTS
    q1 = q1
    a1 = a1
    a2 = a2
    o1 = o1
    o2 = o2
    r1 = r1
    r2 = r2
    None = None
    NoLines = "nolines"
    Quotations <- MCQuotations
    Approvals <- MCApprovals
    Orders <- MCOrders
    Requests <- MCRequests
    Roles <- MCRoles
    Terms <- MCTerms
    Configs <- MCConfigs
    Assess <- MCAssess
    Concurrency = 1
    Failures = FALSE
    MaxVersion = 5
INVARIANTS
    ReviewIsReal
PROPERTIES
    ImplementsDeal
    EditReplacesWhatWasSeen
    DecisionReachesQuotation
