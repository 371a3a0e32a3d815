SPECIFICATION Spec
CONSTANTS
    Tournaments = {1}
    Pairs = {1, 2}
    Match <- OneMatch
    Sprt = {1}
    WaldDecision <- Undecided
    Pids = {1, 2}
    SurviveKill = FALSE
    SurviveCrash = FALSE
    MaxFaults = 0
INVARIANT CancelWins
