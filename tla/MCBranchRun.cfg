SPECIFICATION FairSpec
CONSTANTS
    a = a
    b = b
    c = c
    Branches = {a, b, c}
    Declared <- MCDeclared
    Length <- MCLength
    Configs <- MCConfigs
    MaxResumes = 1
    Repeats = 1
    Refused <- MCRefused
INVARIANTS
    TypeOK
    ReportTruthful
    FanoutSound
    MergedRan
    UninterruptedRun
PROPERTY FanoutEnds
CHECK_DEADLOCK FALSE
