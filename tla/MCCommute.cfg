CONSTANTS
    e1 = e1
    e2 = e2
    d1 = d1
    p1 = p1
    Requests = {r1}
    Employees = {e1}
    Drivers = {d1}
    Slots = {"inbound"}
    Sessions = {s1}
    Planned = {p1}
    Stops = {k1}
    Vehicles = {v1}
    Rider <- MCRider
    SlotOf <- MCSlotOf
    Target <- MCTarget
    PlanSlot <- MCPlanSlot
    PlanDriver <- MCPlanDriver
    PlanStatus <- MCPlanStatus
    PlanCapacity <- MCPlanCapacity
    TripOf <- MCTripOf
    HasUser = {e1}
    RouteWait <- MCRouteWait
    Waits = {0}
    Corrections = {"removed", "expected"}
    DefaultWait = 120
    Seats <- MCSeats
    Booked = {0}
    NoLimit = NoLimit
    NoRequest = NoRequest
    NoDriver = NoDriver
    NoTrip = NoTrip
    NoWait = NoWait
    NoStop = NoStop
    NoVehicle = NoVehicle

SPECIFICATION CommuteSpec

INVARIANTS
    CommuteTypeOK
    NoShowTold
    AssignedHasDriver
    EventsComplete

PROPERTIES
    LegalMoves
    ReopenedByAssign
