\* Two reports, two revisions, two dispatchers, one mishap.
SYMMETRY WorkerSymmetry
CONSTANTS
    NReports = 2
    LastRevision = 2
    Worker = {w1, w2}
    Final = {2}
    BatchSize = 2
    MaxMishaps = 1
CHECK_DEADLOCK FALSE
SPECIFICATION Spec
INVARIANTS
    TypeOK
    LocalOnlyStaysLocal
    AcknowledgedIsQueued
PROPERTIES
    FoundReportsAreTold
    RevisionNeverGoesBack
    DecidedStatusHolds
    UsesQueueAsPromised
