SPECIFICATION FairSpec
CONSTANTS
    Job = {j1, j2}
    Image = {i1, i2}
    Worker = {w1}
    MaxRetries = 1
    Cancellable = {j1}
    MayDelete = FALSE
    MaxFailures = 1
    MaxBrokerFaults = 0
    MaxRedeliveries = 1
    NoImage = NoImage
    NoMsg = NoMsg
    j1 = j1
    j2 = j2
    i1 = i1
    i2 = i2
    w1 = w1
CHECK_DEADLOCK FALSE
INVARIANTS
    CountersExact
    NoJobIsStranded
PROPERTIES
    JobCompletes
