SPECIFICATION Spec
CONSTANTS
    Job = {j1}
    Image = {i1}
    Worker = {w1}
    MaxRetries = 1
    Cancellable = {}
    MayDelete = FALSE
    MaxFailures = 0
    MaxBrokerFaults = 0
    MaxRedeliveries = 1
    NoImage = NoImage
    NoMsg = NoMsg
    j1 = j1
    i1 = i1
    w1 = w1
CHECK_DEADLOCK FALSE
INVARIANTS
    NoDuplicateAnnotations
