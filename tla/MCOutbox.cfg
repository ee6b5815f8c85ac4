CONSTANTS
    Messages = {m1, i1}
    Inline = {i1}
    Workers = {w1, w2}
    BatchSize = 2
    MaxAttempts = 2
    MaxFaults = 2

SPECIFICATION FairSpec

\* Once every message is settled nothing is left to do.
CHECK_DEADLOCK FALSE

INVARIANTS
    TypeOK
    SentWasAccepted
    OnceUnlessOverrun
    GivenUpLate

PROPERTY EveryMessageSettles
