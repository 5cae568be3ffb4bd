SPECIFICATION Spec
CONSTANTS
    search = search
    quality = quality
    risk = risk
    refine = refine
    Order <- MCOrder
    Loops = {refine}
    Path <- MCPath
    MaxIterations <- MCMaxIterations
    ReviewNode = risk
    RevisionTarget = quality
    Procs = {p1}
    Operator = operator
    None = None
    MaxStep = 8
    MaxLives = 2
    MaxOperations = 0
    MaxRevisions = 0
INVARIANT PendingLoopRuns
CHECK_DEADLOCK FALSE
