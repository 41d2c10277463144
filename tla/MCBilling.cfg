\* Two sessions, two crediting transactions, two requests and one spender.
CONSTANTS
    first = first
    second = second
    sub1 = sub1
    sub2 = sub2
    Session = {first, second}
    NoSession = NoSession
    ProductOf <- Products
    Sub = {sub1, sub2}
    SubOf <- Subscriptions
    NoSub = NoSub
    Call = {p1, p2}
    Request = {h1, h2}
    Spender = {c1}
    MaxDeaths = 1
    MaxMoves = 2
CHECK_DEADLOCK FALSE
SPECIFICATION FairSpec
INVARIANTS
    TypeOK
    CreditsAddUp
    PaidIsOn
    EndedIsOff
    WayBack
PROPERTIES PaidIsGranted
