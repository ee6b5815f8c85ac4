CONSTANTS
    a1 = a1
    a2 = a2
    b1 = b1
    e1 = e1
    e2 = e2
    Rides = {a1, a2, b1}
    Scanned = {a1, a2}
    Employees = {e1, e2}
    Days = {1, 2}
    Targets = {"payroll"}
    Sessions = {s1, s2}
    RiderOf <- MCRiderOf
    DateOf <- MCDateOf
    NoKey = NoKey

SPECIFICATION Spec

\* Once every ride is exported or waived nothing is left to do.
CHECK_DEADLOCK FALSE

INVARIANTS
    TypeOK
    LedgerMatchesBatches
    DeductionsBounded
    WaivedNotDeducted
