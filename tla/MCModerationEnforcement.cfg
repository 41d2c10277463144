\* Two workers, two revisions, every kind of object and every mode. The case
\* really ends: every revision is applied and the object is deleted.
CONSTANTS
    Worker = {w1, w2}
    LastRevision = 2
    Decision <- Decisions
    SubjectType = {"property", "review", "eviction_case"}
    Mode = {"observe", "manual", "automatic"}
    MaxMishaps = 2
SYMMETRY WorkerSymmetry
CHECK_DEADLOCK FALSE
SPECIFICATION Spec
INVARIANTS
    TypeOK
    ClaimIsExclusive
    RecordedBeforeTold
    ModeIsObeyed
    FailedEffectIsRetried
    PlanIsSound
PROPERTIES
    AppliedOnce
    RestoreGivesBack
