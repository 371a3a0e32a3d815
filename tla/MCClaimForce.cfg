SPECIFICATION FairSpec
CONSTANTS
    Tournaments = {1}
    Pairs = {1, 2}
    Match <- OneMatch
    Sprt = {}
    WaldDecision <- NoWald
    Pids = {1, 2}
    SurviveKill = FALSE
    SurviveCrash = FALSE
    MaxFaults = 0
PROPERTY ForceCancelIsApplied
