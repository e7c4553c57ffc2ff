CONSTANTS
    s1 = s1
    s2 = s2
    t1 = t1
    t2 = t2
    t3 = t3
    e1 = e1
    e2 = e2
    e3 = e3
    Stores = {s1, s2}
    Threads = {t1, t2, t3}
    StoreOf <- MCStoreOf
    Runs = {r1}
    EventIds = {e1, e2, e3}
    Batches <- MCBatches
    MaxCalls = 3
    MaxCrashes = 1
    Nobody = Nobody
SPECIFICATION FairSpec
INVARIANTS ReplaysCommitted
PROPERTIES ImplementsLog CallsEnd
