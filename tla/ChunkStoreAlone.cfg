SPECIFICATION Spec
CONSTANTS
    r1 = r1
    r2 = r2
    w1 = w1
    w2 = w2
    d1 = d1
    d2 = d2
    s1 = s1
    s2 = s2
    Stores = {r1}
    Threads = {w1}
    StoreOf <- Alone
    OperationsOf <- AllOf
    Stems = {s1, s2}
    Chunks = {d1, d2}
    WriteMayFail = TRUE
    MaxSets = 3
    MaxCrashes = 1
    MaxHours = 1
INVARIANTS TypeOK PendingBalanced EntryWhole NoLeak
CHECK_DEADLOCK FALSE
