CONSTANTS
    Scenarios = {"transient_hang", "bad_deployment", "dependency_outage"}
    Responses <- MCResponses
    MaxSteps = 4
    MaxTokens = 1
    MaxToolCalls = 5
SPECIFICATION EvaluationSpec
CHECK_DEADLOCK FALSE
INVARIANTS RecordedOnce CompletedOnRecord PassedIsVerified
