SPECIFICATION FairSpec
CONSTANTS MaxExecs = 2 None = None
INVARIANTS TypeOK ReportedTruth StartTruth CleanupTruth StreamLegal
PROPERTY EveryoneEnds
CHECK_DEADLOCK FALSE
