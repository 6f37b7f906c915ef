SPECIFICATION Spec
CONSTANTS
    Job = {j1}
    Image = {i1, i2}
    Worker = {w1, w2}
    MaxRetries = 1
    Cancellable = {}
    MayDelete = FALSE
    MaxFailures = 0
    MaxBrokerFaults = 0
    MaxRedeliveries = 0
    NoImage = NoImage
    NoMsg = NoMsg
    j1 = j1
    i1 = i1
    i2 = i2
    w1 = w1
    w2 = w2
CHECK_DEADLOCK FALSE
INVARIANTS
    CountersExact
