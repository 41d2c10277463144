\* One revision, one worker, one crash.
CONSTANTS
    Worker = {w1}
    LastRevision = 1
    Decision <- Decisions
    SubjectType = {"property"}
    Mode = {"automatic"}
    MaxMishaps = 1
CHECK_DEADLOCK FALSE
SPECIFICATION Spec
INVARIANTS
    NewestDecisionStands
