CONSTANTS
    Games = {1}
    Moves = {"q", "x"}
    Mates = {"x"}
    Cap = 1
    None = None
    Repeats <- NoRepeats
    Corrupt <- SomeCorrupt
    MaxPly = 3
    MaxCalls = 2
    MaxFaults = 1
SPECIFICATION Spec
CHECK_DEADLOCK FALSE
INVARIANT RevisionCountsMoves
