SPECIFICATION FairSpec
CONSTANTS
    Image = {i1, i2}
    Request = {q1}
    Job = {j1}
    Worker = {w1, w2}
    Batch <- MCOneBatch
    FileOf <- MCFileOf
    SizeOf <- MCSizeOf
    Detections <- MCFewDetections
    Format = {"coco"}
    MayCancel = TRUE
    MayDelete = FALSE
    MaxRedeliveries = 1
    MaxDecisions = 0
    MaxFailures = 1
    NoJob = NoJob
    i1 = i1
    i2 = i2
    q1 = q1
    q2 = q2
    j1 = j1
    w1 = w1
    w2 = w2
CHECK_DEADLOCK FALSE
INVARIANTS
    ExportShowsRequest
    NoExportIsStranded
PROPERTIES
    ExportsEnd
