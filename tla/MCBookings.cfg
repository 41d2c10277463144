\* Two stays and two viewings, two people and two requests under way at once.
CONSTANTS
    Reservation = {r1, r2}
    Viewing = {v1, v2}
    NoBooking = NoBooking
    Person = {ana, ben}
    NoPerson = NoPerson
    Day = {1, 2, 3}
    Hour = {1, 2}
    Request = {h1, h2}
    MaxRequests = 5
SYMMETRY Symmetry
CHECK_DEADLOCK FALSE
SPECIFICATION Spec
INVARIANTS
    TypeOK
    OnlyRacesClash
    OnlyRacesConfirmTwice
PROPERTIES
    DecisionsStand
