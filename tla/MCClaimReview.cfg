CONSTANTS
    Games = {1}
    Moves = {"q", "x"}
    Mates = {"x"}
    Cap = 1
    None = None
    Repeats <- NoRepeats
    Corrupt <- SomeCorrupt
    MaxPly = 2
    MaxCalls = 2
    MaxFaults = 0
SPECIFICATION Spec
CHECK_DEADLOCK FALSE
INVARIANT YourMoveCanBePlayed
