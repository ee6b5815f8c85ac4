CONSTANTS
    Processes = {p1, p2}
    Asks = {a1, a2}
    TTL = 2
    MaxTx = 3

SPECIFICATION CompaniesSpec
SYMMETRY Symmetry

INVARIANTS
    TrailTellsState
    FlagsFollow
