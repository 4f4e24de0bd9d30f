SPECIFICATION Spec
CONSTANTS
    r1 = r1
    r2 = r2
    w1 = w1
    w2 = w2
    d1 = d1
    d2 = d2
    s1 = s1
    s2 = s2
    Stores = {r1, r2}
    Threads = {w1, w2}
    StoreOf <- TwoStores
    OperationsOf <- OnlySets
    Stems = {s1}
    Chunks = {d1, d2}
    WriteMayFail = FALSE
    MaxSets = 3
    MaxCrashes = 0
    MaxHours = 0
INVARIANTS ClaimExclusive RewriteUndoesNothing
CHECK_DEADLOCK FALSE
