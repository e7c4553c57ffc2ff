CONSTANTS
    CallIds = {r1}
    Mutations = {}
    MsgIds = {x1}
    Operators = {o1}
    OperatorCalls = {"decide", "cancel", "submit"}
    Responses <- MCResponses
    MaxSteps = 2
    MaxTokens = 9
    MaxToolCalls = 9
    SharedLoop = TRUE
    PolicyYields = FALSE
    ResubmitIds = FALSE
    MaxCrashes = 0
    MaxBatch = 2
    Costs = {0}
SPECIFICATION Spec
CHECK_DEADLOCK FALSE
INVARIANTS InboxConsumedAtCompletion
