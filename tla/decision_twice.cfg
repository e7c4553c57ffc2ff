CONSTANTS
    Look = r
    Restart = m1
    RestartAgain = m2
    CallIds = {r, m1, m2}
    Mutations = {m1, m2}
    MsgIds = {}
    Operators = {o1}
    OperatorCalls = {"decide"}
    Responses <- MCResponses
    MaxSteps = 2
    MaxTokens = 9
    MaxToolCalls = 9
    SharedLoop = FALSE
    PolicyYields = FALSE
    ResubmitIds = FALSE
    MaxCrashes = 0
    Investigators = {i1}
    Scenarios <- MCScenarios
    RecoveryCalls <- MCRecoveryCalls
    MaxInvestigations = 1
SPECIFICATION AgentSpec
CHECK_DEADLOCK FALSE
INVARIANTS SummaryReadable
