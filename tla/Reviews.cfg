SPECIFICATION Spec
CONSTANTS
    Job = {j1, j2}
    Image = {i1}
    Request = {q1, q2, q3}
    NoRow = NoRow
    j1 = j1
    j2 = j2
    i1 = i1
    q1 = q1
    q2 = q2
    q3 = q3
SYMMETRY Symmetry
INVARIANTS
    TypeOK
    VersionLineage
    CorrectionsMatchReviews
PROPERTIES
    QueueLeftByDecision
    ImplementsAnnotationLog
