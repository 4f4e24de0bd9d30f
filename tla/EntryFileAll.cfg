SPECIFICATION Spec
CONSTANTS
    p1 = p1
    p2 = p2
    b1 = b1
    b2 = b2
    c1 = c1
    c2 = c2
    w1 = w1
    w2 = w2
    f1 = f1
    Processes = {p1}
    Backends = {b1}
    ProcessOf <- OneProcess
    Callers = {c1}
    Writers = {w1}
    Flushers = {f1}
    On <- OnFlushed
    Operations = {"set", "get", "get_metadata", "set_metadata_only", "delete", "clear", "shutdown", "expire"}
    WriteMayFail = TRUE
    MaxWrites = 2
    MaxFlushes = 1
    MaxCrashes = 1
    MaxWipes = 1
INVARIANTS TypeOK HeadLast LandedReadable LockReleased
CHECK_DEADLOCK FALSE
