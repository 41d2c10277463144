\* Two leases, two signatures at once, seven requests in all.
CONSTANTS
    Lease = {l1, l2}
    NoLease = NoLease
    Terms <- SomeTerms
    NoTerms = NoTerms
    Request = {h1, h2}
    MaxRequests = 7
SYMMETRY RequestSymmetry
SPECIFICATION Spec
INVARIANTS
    TypeOK
    BothSignedIsActive
    ActiveIsBilledOnce
CHECK_DEADLOCK FALSE
