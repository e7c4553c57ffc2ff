CONSTANTS
    d1 = d1
    d2 = d2
    Drivers = {d1, d2}
    Contents = {small, large}
    Large = {large}
    Plan <- MCPlan
    Watchers = {w1}
    Watched = {d1}
    MaxCrashes = 1
SPECIFICATION FairSpec
CHECK_DEADLOCK FALSE
INVARIANTS ReferencesLoad WatchersAgree
PROPERTIES WatchEnds
