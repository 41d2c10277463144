\* Two tasks share two events, one thing goes wrong. No symmetry: liveness.
CONSTANTS
    Event = {e1, e2}
    Worker = {w1, w2}
    NoEvent = NoEvent
    NoWorker = NoWorker
    MaxAttempts = 2
    LeaseTicks = 2
    BackoffCap = 2
    MaxMishaps = 1
SPECIFICATION FairSpec
INVARIANTS
    TypeOK
    OverlapNeedsMishap
    AttemptsAreBounded
PROPERTIES
    DeadLetterIsEarned
    NothingIsStranded
    KeepsPromise
