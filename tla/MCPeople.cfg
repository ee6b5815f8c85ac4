CONSTANTS
    Requests = {q1, q2, q3}
    Contacts = {k1, k2}
    Kinds = {"driver", "rider"}
    Handlers = {h1, h2}
    Plans = {p1, p2, p3}
    NoPlan = NoPlan
    Decisions = {"d1"}
    Excess = {0, 3}
    Minors = {0, 1}
    Changes <- MCChanges
    Patches <- MCPatches

SPECIFICATION MCSpec
SYMMETRY Symmetry

INVARIANTS
    SettledUnlessRaced
    ApprovalsWarranted

PROPERTIES
    ApprovedPlansLocked

\* An approved plan is final, and the bounds of MCNext let nothing else go on.
CHECK_DEADLOCK FALSE
