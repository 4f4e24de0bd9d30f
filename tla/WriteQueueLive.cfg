SPECIFICATION FairSpec
CONSTANTS
    k1 = k1
    k2 = k2
    Callers = {c1, c2}
    Keys = {k1}
    SizedWrites = TRUE
    SizeOf <- SmallAndBig
    MaxQueuedBytes = 1
    MaxWrites = 2
    Operations = {"set", "get", "delete", "shutdown", "fork"}
    ThreadStartMayFail = FALSE
    ChildWaitMayExpire = FALSE
PROPERTIES QueuedWritesRun ForkAfterWrites ImplementsStore
