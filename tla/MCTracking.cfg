CONSTANTS
    c1 = c1
    c2 = c2
    v1 = v1
    v2 = v2
    t1 = t1
    t2 = t2
    none = none
    Clients = {c1, c2}
    Vehicles = {v1, v2}
    Trips = {none}
    Times = {1, 2}
    Sessions = {s1, s2}
    Batches <- MCBatches
    TenantOf <- MCTenantOf
    FilterOf <- MCFilterOf
    OwnerOf <- MCOwnerOf

SPECIFICATION LiveSpec

INVARIANTS
    LiveTypeOK
    LastPositionIsNewest
    DarkOnlyAfterFailure
    OnlyEarlyLeaversLinger
    StreamsAgreeWithFleetView

PROPERTIES
    StreamsAnswered
