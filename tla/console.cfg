CONSTANTS
    CallIds = {query, recovery, verification}
    Mutations = {recovery}
    MsgIds = {}
    Query = query
    Recovery = recovery
    Verification = verification
    Processes = {p1, p2}
    Commands = {"investigate", "approve", "reject", "resume", "cancel"}
    MaxCrashes = 2
    Viewers = {v1}
SPECIFICATION ConsoleSpec
CHECK_DEADLOCK FALSE
INVARIANTS RecoveryApproved CompletedIsVerified FinalPage
PROPERTIES ClosedIsFinal StreamEnds
