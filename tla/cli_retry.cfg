CONSTANTS
    CallIds = {query, recovery, verification}
    Mutations = {recovery}
    MsgIds = {}
    Query = query
    Recovery = recovery
    Verification = verification
    Processes = {p1}
    Commands = {"investigate", "approve", "reject", "resume", "cancel"}
    MaxCrashes = 1
SPECIFICATION Spec
CHECK_DEADLOCK FALSE
INVARIANTS RecoveredAtMostOnce
