SPECIFICATION Spec
CONSTANTS
    Principals = {p1, p2, p3}
    Limit = 2
    Window = 3
    MaxKeys = 2
    None = None
SYMMETRY Symmetry
INVARIANTS LimiterTypeOK BurstBound RefusedForCause
