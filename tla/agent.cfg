CONSTANTS
    Look = r
    Restart = m1
    RestartAgain = m2
    CallIds = {r, m1, m2}
    Mutations = {m1, m2}
    MsgIds = {}
    Operators = {o1, o2}
    OperatorCalls = {"decide"}
    Responses <- MCResponses
    MaxSteps = 2
    MaxTokens = 9
    MaxToolCalls = 9
    SharedLoop = FALSE
    PolicyYields = FALSE
    ResubmitIds = FALSE
    MaxCrashes = 1
    Investigators = {i1, i2}
    Scenarios <- MCScenarios
    RecoveryCalls <- MCRecoveryCalls
    MaxInvestigations = 2
SPECIFICATION AgentSpec
SYMMETRY ProcessSymmetry
CHECK_DEADLOCK FALSE
INVARIANTS MutationAtMostOnce RunAddressable ScenarioMutationOnly PendingShown
PROPERTIES OnlyUnfinishedEntered
