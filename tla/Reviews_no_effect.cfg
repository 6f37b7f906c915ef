SPECIFICATION Spec
CONSTANTS
    Job = {j1}
    Image = {i1}
    Request = {q1, q2, q3}
    NoRow = NoRow
    j1 = j1
    i1 = i1
    q1 = q1
    q2 = q2
    q3 = q3
PROPERTIES
    DecisionsTakeEffect
