SPECIFICATION Spec
CONSTANTS
    Tournaments = {1, 2}
    Pairs = {1, 2, 3}
    Match <- TwoMatches
    Sprt = {1}
    WaldDecision <- UndecidedOfThree
    Pids = {1, 2, 3}
    SurviveKill = FALSE
    SurviveCrash = FALSE
    MaxFaults = 1
INVARIANTS
    OneCutechess
PROPERTIES
    EarliestMatchFirst
    ImplementsLedger
