SPECIFICATION FairSpec
CONSTANTS
    Fens = {f1, f2}
    Depths = {18}
    None = None
    MaxGen = 3
PROPERTY
    SilentEngineReported
