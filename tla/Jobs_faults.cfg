SPECIFICATION FairSpec
CONSTANTS
    Job = {j1}
    Image = {i1, i2}
    Worker = {w1, w2}
    MaxRetries = 1
    Cancellable = {}
    MayDelete = TRUE
    MaxFailures = 1
    MaxBrokerFaults = 1
    MaxRedeliveries = 1
    NoImage = NoImage
    NoMsg = NoMsg
    j1 = j1
    i1 = i1
    i2 = i2
    w1 = w1
    w2 = w2
CHECK_DEADLOCK FALSE
INVARIANTS
    TypeOK
    CounterNeverAhead
    CompletedIsBacked
    NothingSentIsLost
    PendingIsUntouched
    
PROPERTIES
    EverySentTaskResolves
