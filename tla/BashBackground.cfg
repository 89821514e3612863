\* Two instances, one restart, two commands, two status calls at a time.
CONSTANTS
    i1 = i1
    i2 = i2
    j1 = j1
    j2 = j2
    q1 = q1
    q2 = q2
    Instance = {i1, i2}
    Job = {j1, j2}
    Query = {q1, q2}
    NoJob = NoJob
    MaxRestarts = 1
SPECIFICATION Spec
SYMMETRY Symmetry
INVARIANTS
    TypeOK
    ResultKept
    AnswersOwnCommandAtHome
    UnknownAtHomeOnlyAfterResult
