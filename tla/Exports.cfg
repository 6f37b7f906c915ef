SPECIFICATION Spec
CONSTANTS
    Image = {i1, i2}
    Request = {q1, q2}
    Job = {j1}
    Worker = {w1}
    Batch <- MCBatch
    FileOf <- MCFileOf
    SizeOf <- MCSizeOf
    Detections <- MCDetections
    Format = {"coco", "yolo", "pascal_voc", "cvat_xml", "label_studio"}
    MayCancel = TRUE
    MayDelete = TRUE
    MaxRedeliveries = 0
    MaxDecisions = 1
    MaxFailures = 1
    NoJob = NoJob
    i1 = i1
    i2 = i2
    q1 = q1
    q2 = q2
    j1 = j1
    w1 = w1
CHECK_DEADLOCK FALSE
INVARIANTS
    TypeOK
    ExportShowsRequest
    CocoIsKeyed
    TotalMatchesFile
    CountIsPlausible
