CONSTANTS
    Games = {1, 2}
    Moves = {"q", "x"}
    Mates = {"x"}
    Cap = 1
    None = None
    Repeats <- SomeRepeats
    Corrupt <- SomeCorrupt
    MaxPly = 2
    MaxCalls = 2
    MaxFaults = 1
SPECIFICATION FairSpec
CHECK_DEADLOCK FALSE
INVARIANTS TypeOK EngineAnswersTheHuman ActiveIsOpen OneActionAtATime PlaysWithItsToken
PROPERTIES DeadGamesStayDead OwedReplySettles ThinkingEnds
