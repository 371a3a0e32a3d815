SPECIFICATION FairSpec
CONSTANTS
    Fens = {f1, f2}
    Depths = {16, 18}
    None = None
    MaxGen = 5
INVARIANTS
    TypeOK
    OneSearchAtATime
    ShownIsCurrent
    CutSearchIsAwaited
PROPERTIES
    ImplementsLatestSearch
    AnalysisSettles
