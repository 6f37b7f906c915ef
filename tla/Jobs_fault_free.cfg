SPECIFICATION Spec
CONSTANTS
    Job = {j1, j2, j3}
    Image = {i1, i2}
    Worker = {w1, w2}
    MaxRetries = 2
    Cancellable = {}
    MayDelete = FALSE
    MaxFailures = 0
    MaxBrokerFaults = 0
    MaxRedeliveries = 0
    NoImage = NoImage
    NoMsg = NoMsg
    j1 = j1
    j2 = j2
    j3 = j3
    i1 = i1
    i2 = i2
    w1 = w1
    w2 = w2
SYMMETRY Symmetry
CHECK_DEADLOCK FALSE
INVARIANTS
    NoDuplicateAnnotations
    CompletedMeansAllAnnotated
    ConflictsAreRetried
    VersionLineage
PROPERTIES
    ImplementsAnnotationLog
    CompletedIsNotRevived
