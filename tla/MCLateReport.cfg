\* Nothing fails: two reports, two dispatchers, one decision.
CONSTANTS
    NReports = 2
    LastRevision = 1
    Worker = {w1, w2}
    Final = {1}
    BatchSize = 2
    MaxMishaps = 0
CHECK_DEADLOCK FALSE
SPECIFICATION Spec
INVARIANTS
    EveryReportIsTold
