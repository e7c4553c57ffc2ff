CONSTANTS
    query = query
    lost = lost
    restart = restart
    rollback = rollback
    isolate = isolate
    checkout = checkout
    payment = payment
    b1 = b1
    b2 = b2
    Batches = {b1, b2}
    Reads = {query}
    Mutations = {restart, rollback, isolate}
    Unknown = {lost}
    Lanes = {checkout, payment}
    LaneOf <- MCLaneOf
    Inputs <- MCInputs
    MaxLen = 2
    MaxReadConcurrency = 2
    Chosen = {"denied"}
    Nobody = Nobody
SPECIFICATION FairSpec
CHECK_DEADLOCK FALSE
INVARIANTS LaneExclusion MutatingBatchInOrder MutationApproved RefusedNotExecuted
PROPERTIES NothingAfterCancel BatchEnds
