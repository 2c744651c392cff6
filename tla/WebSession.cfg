SPECIFICATION FairSpec
CONSTANTS
    None = None
    Accounts = {rep, cust}
    Customers = {cust}
    Links = {l1}
    MaxSteps = 5
CHECK_DEADLOCK FALSE
PROPERTIES
    NavigationSettles
    SignInReturns
    EndedMeansSignIn
