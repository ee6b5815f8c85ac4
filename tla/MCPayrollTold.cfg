CONSTANTS
    a1 = a1
    a2 = a2
    b1 = b1
    e1 = e1
    e2 = e2
    Rides = {a1, a2, b1}
    Scanned = {a1, a2}
    Employees = {e1, e2}
    Days = {1, 2}
    Targets = {"payroll"}
    Sessions = {s1}
    RiderOf <- MCRiderOf
    DateOf <- MCDateOf
    NoKey = NoKey

SPECIFICATION Spec

CHECK_DEADLOCK FALSE

INVARIANT ToldWasPosted
