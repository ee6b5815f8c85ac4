CONSTANTS
    Changes = {c1, c2, r1}
    Refused = {r1}
    Drains = {d1, d2}
    BatchSize = 2
    MaxFaults = 2

SPECIFICATION FairSpec

\* Once everything is sent and no fault is left nothing is to be done.
CHECK_DEADLOCK FALSE

INVARIANTS
    TypeOK
    SyncingIsInHand
    OvertakesOnlyTrouble

PROPERTIES
    QueueSpec
    EveryChangeArrives
