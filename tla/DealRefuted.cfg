SPECIFICATION Spec
CONSTANTS
    q1 = q1
    q2 = q2
    a1 = a1
    a2 = a2
    o1 = o1
    o2 = o2
    None = None
    NoLines = "nolines"
    Quotations <- MCOneQuotation
    Approvals <- MCApprovals
    Orders <- MCOrders
    Terms <- MCTerms
    Roles <- MCRoles
    Configs <- MCConfigs
    Assess <- MCAssess
    MaxVersion = 11
INVARIANTS
    OffersAreAccepted
    RequestsAreAccepted
PROPERTIES
    ConfirmRespectsThresholds
