\* One report, one revision, and one thing that goes wrong.
CONSTANTS
    NReports = 1
    LastRevision = 1
    Worker = {w1}
    Final = {1}
    BatchSize = 1
    MaxMishaps = 1
CHECK_DEADLOCK FALSE
SPECIFICATION Spec
INVARIANTS
    NoDecisionIsLost
