\* Nothing fails: one worker applies two revisions of the decision about a
\* listing, in the order their events are claimed.
CONSTANTS
    Worker = {w1}
    LastRevision = 2
    Decision <- Decisions
    SubjectType = {"property"}
    Mode = {"automatic"}
    MaxMishaps = 0
CHECK_DEADLOCK FALSE
SPECIFICATION Spec
INVARIANTS
    NewestDecisionStands
