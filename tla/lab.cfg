CONSTANTS
    Clients = {c1, c2}
    MaxServers = 2
    MaxCalls = 3
    MaxInjections = 2
SPECIFICATION Spec
CHECK_DEADLOCK FALSE
INVARIANTS VerifiedHolds
PROPERTIES CallsReturn
