SPECIFICATION Spec
CONSTANTS
    search = search
    quality = quality
    risk = risk
    refine = refine
    Order <- MCShortOrder
    Loops = {refine}
    Path <- MCShortPath
    MaxIterations <- MCOneIteration
    ReviewNode = risk
    RevisionTarget = quality
    Procs = {p1, p2}
    Operator = operator
    None = None
    MaxStep = 3
    MaxLives = 2
    MaxOperations = 1
    MaxRevisions = 0
SYMMETRY Symmetry
INVARIANT DoneInLedger
PROPERTY FinalUnlessStale
CHECK_DEADLOCK FALSE
