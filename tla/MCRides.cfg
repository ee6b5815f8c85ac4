CONSTANTS
    r1 = r1
    r2 = r2
    r3 = r3
    e1 = e1
    e2 = e2
    d1 = d1
    d2 = d2
    p1 = p1
    p2 = p2
    Requests = {r1, r2, r3}
    Employees = {e1, e2}
    Drivers = {d1, d2}
    Slots = {"inbound"}
    Sessions = {s1, s2}
    Planned = {p1, p2}
    Rider <- MCRider
    SlotOf <- MCSlotOf
    Target <- MCTarget
    PlanSlot <- MCPlanSlot
    PlanDriver <- MCPlanDriver
    PlanStatus <- MCPlanStatus
    PlanCapacity <- MCPlanCapacity
    NoLimit = NoLimit
    NoRequest = NoRequest
    NoDriver = NoDriver
    NoTrip = NoTrip

SPECIFICATION FairSpec

INVARIANTS
    TypeOK
    OverbookingBounded
    OneRequestPerRow
    RowsBacked

PROPERTIES
    BoardSpec
    TransactionsEnd
