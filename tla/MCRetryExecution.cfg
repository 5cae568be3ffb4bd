SPECIFICATION FairSpec
CONSTANTS
    Roots = {r1}
    Decisions = {d1, d2}
    Workers = {w1, w2}
    Actions = {a1, a2}
    Hashes = {h1, h2}
    Legacy = {}
    None = None
    PrepFaults = TRUE
INVARIANTS
    TypeOK
    ExclusiveDispatch
    ChildTruth
    ActionTruth
PROPERTIES
    ParentImmutable
    StartedChildSettles
CHECK_DEADLOCK FALSE
