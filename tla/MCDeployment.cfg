SPECIFICATION FairSpec
CONSTANTS
    Cmds = {c1, c2}
    c1 = c1
    c2 = c2
    d1 = d1
    d2 = d2
    Digests = {d1, d2}
    Manifests <- MCManifests
    MaxPolls = 2
    None = None
INVARIANTS TypeOK AcceptedTruth HistoryKept
PROPERTY DeployEnds
CHECK_DEADLOCK FALSE
