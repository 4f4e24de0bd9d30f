SPECIFICATION Spec
CONSTANTS
    p1 = p1
    p2 = p2
    b1 = b1
    b2 = b2
    c1 = c1
    c2 = c2
    w1 = w1
    w2 = w2
    f1 = f1
    Processes = {p1, p2}
    Backends = {b1, b2}
    ProcessOf <- TwoProcesses
    Callers = {c1, c2}
    Writers = {w1, w2}
    Flushers = {}
    On <- OnTwo
    Operations = {"set", "get", "get_metadata", "shutdown"}
    WriteMayFail = FALSE
    MaxWrites = 3
    MaxFlushes = 0
    MaxCrashes = 0
    MaxWipes = 0
INVARIANTS DiskPairs HitPairs NeverMissAfterSet
CHECK_DEADLOCK FALSE
