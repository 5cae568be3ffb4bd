SPECIFICATION Spec
CONSTANTS
    search = search
    quality = quality
    risk = risk
    refine = refine
    Order <- MCOrder
    Loops = {refine}
    Path <- MCPath
    MaxIterations <- MCMaxIterations
    ReviewNode = risk
    RevisionTarget = quality
    Procs = {p1}
    Operator = operator
    None = None
    MaxStep = 8
    MaxLives = 3
    MaxOperations = 0
    MaxRevisions = 1
INVARIANTS TypeOK CompletedRanAll CursorTruth NoDuplicateInvocation
CHECK_DEADLOCK FALSE
