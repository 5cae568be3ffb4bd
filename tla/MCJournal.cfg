SPECIFICATION Spec
CONSTANTS
    Keys = {k1}
    Extras = {x1}
    Procs = {p1, p2, p3}
    Guarded = {p1}
    Payloads = {o1, o2}
    Hashes = {h1, h2}
    MaxRetries = 1
    MaxAlive = 2
    None = None
SYMMETRY Symmetry
CHECK_DEADLOCK FALSE
INVARIANTS
    TypeOK
    WriteAhead
    LostEffectsFlagged
    CompletedObserved
    SoloAgreement
PROPERTIES
    CapsuleKept
