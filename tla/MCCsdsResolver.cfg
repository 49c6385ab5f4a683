SPECIFICATION Spec
CONSTANTS
    Calls = {c1, c2, c3}
    Accounts <- MCAccounts
    TestAccounts <- MCAccounts
    GivenDomains = {d}
    Services <- MCServices
    None = None
    MaxAge = 2
    MaxTime = 3
SYMMETRY CallSymmetry
INVARIANTS TypeOK FreshAnswer FailureNotServed RequestsShared
CHECK_DEADLOCK FALSE
