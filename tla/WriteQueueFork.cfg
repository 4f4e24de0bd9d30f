SPECIFICATION FairSpec
CONSTANTS
    k1 = k1
    k2 = k2
    Callers = {c1, c2}
    Keys = {k1}
    SizedWrites = FALSE
    SizeOf <- SmallAndBig
    MaxQueuedBytes = 1
    MaxWrites = 3
    Operations = {"set", "get", "shutdown", "fork"}
    ThreadStartMayFail = TRUE
    ChildWaitMayExpire = TRUE
INVARIANTS TypeOK
PROPERTIES CallersProceed
