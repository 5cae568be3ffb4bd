SPECIFICATION FairSpec
CONSTANTS
    Ops = {o1, o2}
    Evidence = {e1}
    Recoverers = {r1}
    Genesis = Genesis
INVARIANTS
    TypeOK
    JournalMatchesChain
    SnapshotAvailable
    RollbackDetection
PROPERTIES
    ImplementsLog
    PreparedSettles
