CONSTANTS
    Snapshots <- MCSnapshots
    Budgets = {1, 3, 5, 7}
    Overhead = 2
    MaxSegments = 3
SPECIFICATION Spec
CHECK_DEADLOCK FALSE
INVARIANTS PinsSent PairsWhole NewestFirst
