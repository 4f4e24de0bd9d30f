SPECIFICATION FairSpec
CONSTANTS
    a1 = a1
    a2 = a2
    t1 = t1
    t2 = t2
    k1 = k1
    k2 = k2
    Threads = {a1, a2}
    Timers = {t1, t2}
    Worker = worker
    None = None
    Keys = {k1, k2}
    Notable <- TwoStoredOneInRam
    KeysMax = 1
    MaxNotes = 2
    Operations <- NotesAndAsks
    EarlierRun = TRUE
    MaxFailures = 1
INVARIANTS TypeOK OneWriteAtATime FileKeepsNotes ViewCurrent
PROPERTIES ComesToRest
CHECK_DEADLOCK FALSE
