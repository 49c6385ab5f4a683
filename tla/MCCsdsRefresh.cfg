SPECIFICATION SpecClients
CONSTANTS
    Clients = {x}
    Calls <- MCCalls
    Accounts <- MCAccounts
    TestAccounts <- MCAccounts
    GivenDomains = {}
    Services <- MCServices
    None = None
    MaxAge = 2
    MaxTime = 6
    GivenIntervals = {0, 2}
    DEFAULT_CSDS_REFRESH_INTERVAL = 1
    MaxRefreshes = 3
    FetchTime = 2
INVARIANTS TypeOK_Clients DomainsFresh
CHECK_DEADLOCK FALSE
