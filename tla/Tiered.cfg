CONSTANTS
    p1 = p1
    p2 = p2
    k1 = k1
    k2 = k2
    Procs = {p1, p2}
    Keys = {k1, k2}
    None = None
    Operations <- ReadAndStore
    MaxStores = 1
    Clears <- TwoKinds
    RamMayFail = FALSE
    WriteMayFail = TRUE
SPECIFICATION Spec
INVARIANTS TypeOK ClearReaches ReadsOwnStore
CHECK_DEADLOCK FALSE
