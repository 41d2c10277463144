\* Two sweeps and a daily digest, a changed setting and a mishap.
CONSTANTS
    e1 = e1
    e2 = e2
    drop = drop
    fall = fall
    priceOfHome = priceOfHome
    Event = {e1, e2}
    Change = {drop, fall}
    Topic = {priceOfHome}
    ChangeOf <- TwoDrops
    TopicOf <- OneTopic
    Watch = {w1}
    Interest <- InterestedInAll
    Cadence = {"off", "instant", "daily"}
    Sweeper = {s1, s2}
    Digester = {daily}
    CadenceOf <- AllDaily
    NoEvent = NoEvent
    NoWatch = NoWatch
    WatchCap = 1
    UserCap = 2
    Window = {1, 2}
    NoWindow = NoWindow
    MaxSettings = 1
    MaxMishaps = 1
SYMMETRY SweeperSymmetry
CHECK_DEADLOCK FALSE
SPECIFICATION Spec
INVARIANTS
    TypeOK
    ToldOnce
    HistoryIsTrue
    ProcessedWasMatched
PROPERTIES
    OutcomeStands
