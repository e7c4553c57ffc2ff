CONSTANTS
    CallIds = {r1, m1}
    Mutations = {m1}
    MsgIds = {x1}
    Operators = {o1}
    OperatorCalls = {"decide", "cancel", "submit"}
    Responses <- MCResponses
    MaxSteps = 2
    MaxTokens = 2
    MaxToolCalls = 2
    SharedLoop = TRUE
    PolicyYields = FALSE
    ResubmitIds = FALSE
    MaxCrashes = 1
    MaxBatch = 2
    Costs = {1}
SPECIFICATION AttendedSpec
CHECK_DEADLOCK FALSE
INVARIANTS ApprovedBeforeEntered UncertainIsReported ResultsBeforeModel StreamReadable FollowUpsConsumed
PROPERTIES DriveEnds RunEnds NoHandlerAfterCancel OverBudgetNeverExecutes FollowsLifecycle
