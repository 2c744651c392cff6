SPECIFICATION Spec
CONSTANTS
    ann = ann
    bob = bob
    cy = cy
    acme = acme
    beta = beta
    q1 = q1
    q2 = q2
    l1 = l1
    l2 = l2
    r1 = r1
    r2 = r2
    None = None
    Users = {ann, bob, cy}
    InternalRoles = {"ADMIN", "SALES_MANAGER"}
    Writers = {"ADMIN", "SALES_MANAGER"}
    Companies = {acme, beta}
    Quotations = {q1, q2}
    CompanyOf <- MCCompanyOf
    Links = {l1, l2}
    Requests = {r1, r2}
    MaxWrites = 4
CHECK_DEADLOCK FALSE
SYMMETRY Symmetry
INVARIANTS
    TypeOK
    AnAdminRemains
    TypedIsReplaced
    OneLiveLink
    TheConcernedHear
