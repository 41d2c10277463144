\* Liveness: no symmetry, two reports, one dispatcher, one revision, two mishaps.
CONSTANTS
    NReports = 2
    LastRevision = 1
    Worker = {w1}
    Final = {1}
    BatchSize = 2
    MaxMishaps = 2
CHECK_DEADLOCK FALSE
SPECIFICATION FairSpec
PROPERTIES
    NoReportIsForgotten
