SPECIFICATION Spec
CONSTANTS
    p1 = p1
    p2 = p2
    b1 = b1
    b2 = b2
    c1 = c1
    c2 = c2
    w1 = w1
    w2 = w2
    f1 = f1
    Processes = {p1}
    Backends = {b1, b2}
    ProcessOf <- TwoBackends
    Callers = {c1, c2}
    Writers = {w1, w2}
    Flushers = {}
    On <- OnTwo
    Operations = {"set", "get", "clear"}
    WriteMayFail = FALSE
    MaxWrites = 3
    MaxFlushes = 0
    MaxCrashes = 0
    MaxWipes = 0
INVARIANTS NoGhost NeverMissAfterSet
CHECK_DEADLOCK FALSE
