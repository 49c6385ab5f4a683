SPECIFICATION Spec
CONSTANTS
    Clients = {i, j}
    Requests = {r}
    None = None
    GotRetries = 1
    MaxLogins = 2
    MaxSessions = 5
SYMMETRY ClientSymmetry
INVARIANTS TypeOK LoginIsOwn NoSessionLost SessionsPerLogin
PROPERTIES StuckForGood
CHECK_DEADLOCK FALSE
