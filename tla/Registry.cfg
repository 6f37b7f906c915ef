SPECIFICATION FairSpec
CONSTANTS
    Thread = {t1, t2}
    NoThread = NoThread
    MaxRaises = 2
    t1 = t1
    t2 = t2
INVARIANTS
    TypeOK
    SingleCopy
PROPERTIES
    LoadsOnce
    RunsEnd
