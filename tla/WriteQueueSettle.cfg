SPECIFICATION Spec
CONSTANTS
    k1 = k1
    k2 = k2
    Callers = {c1, c2}
    Keys = {k1, k2}
    SizedWrites = FALSE
    SizeOf <- SmallAndBig
    MaxQueuedBytes = 2
    MaxWrites = 3
    Operations = {"set", "get", "delete", "clear"}
    ThreadStartMayFail = FALSE
    ChildWaitMayExpire = FALSE
INVARIANTS UnfinishedIsPending ReadSeesWrites NoWriteAfterDelete NoWriteAfterClear
PROPERTIES InOrder FailureKept
SYMMETRY CallerSymmetry
