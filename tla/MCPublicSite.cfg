SPECIFICATION FairSpec
CHECK_DEADLOCK FALSE
CONSTANTS
    MaxAsks = 2
    MaxFaults = 1
    MaxPolls = 2
    None = None
    Pgns <- SomePgns
    Analyses <- SomeAnalyses
INVARIANTS
    TypeOK
    OneWorkload
    NoOrphanArtifacts
    ReadyIsWhole
    PlyInGame
    RowsFollowTheFen
    MarksAreErrors
    ErrorButtonsCycle
PROPERTIES
    PairNotStarved
    RequestIsServed
    AutoplayEnds
    LiveSettles
