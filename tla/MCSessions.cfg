CONSTANTS
    Tokens = {t1, t2, t3}
    Flows = {f1}
    Handlers = {h1, h2}
    NoToken = NoToken
    MaxChanges = 1

SPECIFICATION Spec
SYMMETRY Symmetry

INVARIANTS
    SessionsTypeOK
    OldSessionsGone
    OneSuccessor
