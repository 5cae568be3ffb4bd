SPECIFICATION Spec
CONSTANTS
    Keys = {k1, k2}
    Extras = {x1}
    Procs = {p1, p2}
    Guarded = {p1, p2}
    Payloads = {o1}
    Hashes = {h1}
    MaxRetries = 0
    MaxAlive = 2
    None = None
SYMMETRY Symmetry
CHECK_DEADLOCK FALSE
INVARIANTS
    NoDuplicateEffect
